SPECIFICATION Spec
CONSTANTS
    f = f
    g = g
    h = h
    S = S
    T = T
    CbA = CbA
    CbB = CbB
    t0 = t0
    t1 = t1
    t2 = t2
    t3 = t3
    FnName = {f, g, h}
    ClassName = {S, T, CbA, CbB}
    CbType = {t0, t1, t2, t3}
    NoSignature = {t0}
    Interface <- MCInterface
    Crates <- MCCrates
    MaxBuilds = 2
CHECK_DEADLOCK FALSE
INVARIANTS
    CallbacksDefinedOnce
    DeclarationsMatchBindings
    FinalisedIsComplete
    CallbackFitsItsUse
