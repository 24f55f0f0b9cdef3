--------------------------- MODULE MCNativeMarking ---------------------------
EXTENDS NativeMarking

CONSTANTS A, B, C

(* Every three structs named A, B and C in this order, each with or without a    *)
(* dynamic array and with at most two references, from every earlier marking.    *)
MCStruct(n) == {[name |-> n, dynamic |-> d, refs |-> r] :
                    d \in BOOLEAN, r \in {R \in SUBSET {A, B, C} : R # {A, B, C}}}
MCInputs ==
    {[given |-> <<a, b, c>>, native |-> m] :
        a \in MCStruct(A), b \in MCStruct(B), c \in MCStruct(C), m \in {{}, {B}}}
=============================================================================
