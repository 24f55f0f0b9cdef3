SPECIFICATION Spec
CONSTANTS
    x = x
    y = y
    Stem = {x, y}
    Length <- MCLength
    MaxFields = 4
    MaxCount = 1
    Structs <- MCStructs
CHECK_DEADLOCK FALSE
INVARIANTS
    LayoutPreserved
    NothingUninitialised
    HeapBalanced
