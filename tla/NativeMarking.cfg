SPECIFICATION MarkSpec
CONSTANTS
    A = A
    B = B
    C = C
    StructName = {A, B, C}
    MarkInputs <- MCInputs
CHECK_DEADLOCK FALSE
INVARIANTS
    ResultIsLeast
PROPERTIES
    Terminates
