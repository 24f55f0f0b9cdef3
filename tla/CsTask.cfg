SPECIFICATION Spec
CONSTANTS
    c1 = c1
    c2 = c2
    s1 = s1
    s2 = s2
    t1 = t1
    t2 = t2
    None = None
    Call = {c1, c2}
    Slot = {s1, s2}
    Thread = {t1, t2}
    MaxCalls = 2
CHECK_DEADLOCK FALSE
INVARIANTS
    OwnAnswer
    AnswersConserved
    HandleHeldUntilAnswered
PROPERTIES
    KeepsPromise
    AnswerArrives
