SPECIFICATION Spec
CONSTANTS
    c1 = c1
    c2 = c2
    c3 = c3
    t1 = t1
    t2 = t2
    Idx = {c1, c2, c3}
    Thread = {t1, t2}
    MaxCalls = 2
CHECK_DEADLOCK FALSE
INVARIANTS
    SafeUnlessMisused
    JavaCalledAtMostOnce
    FreedIffAllCalled
PROPERTIES
    AllCalledLeadsToFreed
