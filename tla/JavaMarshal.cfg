SPECIFICATION MarshalSpec
CONSTANTS
    x = x
    y = y
    MaxFields = 4
    Stem = {x, y}
    Structs <- MCStructs
    Lists <- MCLists
    TypeMaps <- MCTypeMaps
CHECK_DEADLOCK FALSE
INVARIANTS
    DeclarationFitsBinding
    CallMatchesNative
    HandlerMatchesCallback
    SignatureMatchesInterface
    FieldsBound
    MembersSet
