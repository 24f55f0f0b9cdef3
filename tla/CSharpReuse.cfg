SPECIFICATION Spec
CONSTANTS
    A = A
    B = B
    X = X
    Y = Y
    f = f
    g = g
    h = h
    E = E
    K = K
    u8 = u8
    u64 = u64
    k1 = k1
    k2 = k2
    k3 = k3
    k4 = k4
    k5 = k5
    p1 = p1
    p2 = p2
    p3 = p3
    p4 = p4
    p5 = p5
    p6 = p6
    p7 = p7
    Unit = Unit
    Fn = Fn
    Name = {A, B, X, f, g, h, E, K}
    Prim = {u8, u64}
    CopyPrim = {u8}
    Class = {k1, k2, k3, k4, k5}
    Path = {p1, p2, p3, p4, p5, p6, p7}
    Crate <- ReuseCrate
    FilterName = {f}
    BlacklistName = {f}
    OpaqueName = {}
    CustomName = {}
    Toggle = {"types", "consts"}
    SectionChoice <- OtherSections
    LibName = {k3}
    DefaultSection <- MCSection
    DefaultLib = k2
    MaxSnippets = 2
    MaxFinalise = 2
CHECK_DEADLOCK FALSE
INVARIANTS
    InterfaceMatchesClass
    NativeIsLeast
PROPERTIES
    KeepsLedger
