----------------------------- MODULE JavaMarshal -----------------------------
(***************************************************************************)
(* What crosses JNI: the parameters of functions and callbacks (JniParams),  *)
(* and the fields of the structs they point to (JavaFields).  The generator   *)
(* treats them apart, so that a behaviour is about a list of one kind.        *)
(***************************************************************************)
EXTENDS JniParams

CONSTANTS Stem, Structs

VARIABLES fields, at, k, sorted, declared, bound, read, set

structVars == <<fields, at, k, sorted, declared, bound, read, set>>

S == INSTANCE JavaFields WITH pc <- at

ASSUME StructsAssumption == S!StructsAssumption

MarshalInit ==
    \/ fields = <<>> /\ S!Init /\ Init
    \/ params = <<>> /\ Init /\ S!Init
MarshalNext ==
    \/ fields = <<>> /\ Next /\ UNCHANGED structVars
    \/ params = <<>> /\ S!Next /\ UNCHANGED vars
MarshalSpec == MarshalInit /\ [][MarshalNext]_<<vars, structVars>>

(* from_java has a value for every field of the struct it builds, but for function     *)
(* pointers, lengths and capacities that belong to no array.                           *)
FieldsBound == S!FieldsBound

(* to_java sets every member of the Java class, but for capacities, and for function   *)
(* pointers and lengths that belong to no array.                                       *)
MembersSet == S!MembersSet
=============================================================================
