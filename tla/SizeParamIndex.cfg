SPECIFICATION Spec
CONSTANTS
    x = x
    y = y
    ud = ud
    ret = ret
    Stem = {x, y, ud, ret}
    UserDataStem = ud
    RetStem = ret
    Compound = {ud}
    MaxParams = 4
    Lists <- MCLists
CHECK_DEADLOCK FALSE
INVARIANTS
    EveryArraySized
