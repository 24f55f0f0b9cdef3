---------------------------- MODULE ArrayPairing ----------------------------
(* What transform_type and transform_ptr_and_len_to_array                     *)
(* (src/src/csharp/intermediate.rs) see of a parameter or a field: a name and a *)
(* kind of type.  A name is a stem with, or without, one of the suffixes "_ptr", *)
(* "_len" and "_cap"; no stem ends in a suffix.                                  *)
EXTENDS Naturals, Sequences

CONSTANT Stem \* the names without their suffix

Suffix == {"none", "ptr", "len", "cap"}
Name == [stem : Stem, suffix : Suffix]

(* A C string is a "value": transform_pointer makes it a String, not a Pointer.  *)
(* "void" is a pointer to c_void, "native" a struct that has a native twin,      *)
(* "callback" a function whose first parameter is user data, "unsupported" a     *)
(* type that transform_type refuses.                                             *)
Kind == {"pointer", "void", "usize", "native", "callback", "value", "unsupported"}
Decl == [name : Name, kind : Kind]

IsPointer(d) == d.kind \in {"pointer", "void"}

(* "foo_ptr"/"foo_len" and "foo"/"foo_len" *)
Pairs(ptr, len) ==
    /\ IsPointer(ptr) /\ len.kind = "usize"
    /\ ptr.name.suffix \in {"none", "ptr"} /\ len.name.suffix = "len"
    /\ ptr.name.stem = len.name.stem

(* The dynamic array that replaces the two bears the name without the suffix. *)
ArrayOf(ptr) == [name |-> [stem |-> ptr.name.stem, suffix |-> "none"],
                 kind |-> IF ptr.kind = "void" THEN "voidArray" ELSE "array"]

IsArray(s) == s.kind \in {"array", "voidArray"}

(* emit_copy_utility_suffix panics for elements it has no copy of, c_void among them. *)
Copyable(s) == s.kind # "voidArray"

(* How the C ABI passes or lays out a value of a kind. *)
Repr(kind) ==
    CASE kind \in {"pointer", "void", "array", "voidArray"} -> "address"
      [] kind = "usize" -> "ulong"
      [] kind = "callback" -> "delegate"
      [] OTHER -> "value"
=============================================================================
