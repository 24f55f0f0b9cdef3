----------------------------- MODULE JavaFields -----------------------------
(***************************************************************************)
(* How the fields of a #[repr(C)] struct become a Java class and the two     *)
(* conversions between them: transform_struct_fields                         *)
(* (src/src/struct_field.rs) sorts the fields, parse_struct                  *)
(* (src/src/java/mod.rs) declares the members of the class, and              *)
(* generate_struct_from_java and generate_struct_to_java (src/src/java/jni.rs) *)
(* read and set them.  Types are those the generators tell apart.            *)
(***************************************************************************)
EXTENDS Naturals, Sequences

CONSTANTS
    Stem,   \* one-word names
    Structs \* the lists of fields to try

(* A name is a word, alone or with one of the suffixes "_ptr", "_len", "_cap". *)
Name == [stem : Stem, suffix : {"none", "ptr", "len", "cap"}]

Pointer == {"*u8", "*c_char", "*Struct"}
Path == {"usize", "u32", "Struct"}
(* rust_to_java has a name for a function pointer, "fn", and none for other types that *)
(* are neither pointer nor path.                                                       *)
Field == [name : Name, type : Pointer \cup Path \cup {"fn", "other"}]

(* rustc has seen to it that no two fields have the same name. *)
StructsAssumption ==
    /\ Structs \subseteq Seq(Field)
    /\ \A l \in Structs : \A i, j \in DOMAIN l : l[i].name = l[j].name => i = j

VARIABLES
    fields,   \* the fields of the Rust struct
    pc,
    k,        \* the next field of the loop
    sorted,   \* StructField of each
    declared, \* members of the Java class
    bound,    \* fields that from_java has a value for, one entry per binding
    read,     \* members that from_java gets
    set       \* members that to_java sets

vars == <<fields, pc, k, sorted, declared, bound, read, set>>

Init ==
    /\ fields \in Structs
    /\ pc = "sort" /\ k = 1
    /\ sorted = <<>> /\ declared = {} /\ bound = <<>> /\ read = {} /\ set = {}

Names == {fields[i].name : i \in DOMAIN fields}

-----------------------------------------------------------------------------
(* is_array_meta_field: nothing asks whether there is a pointer. *)
IsArrayMeta(f) == f.type = "usize" /\ f.name.suffix \in {"len", "cap"}

(* "_ptr" is removed; any other name stands for itself. *)
HasLen(f) == f.name.suffix \in {"none", "ptr"} /\ [stem |-> f.name.stem, suffix |-> "len"] \in Names
HasCap(f) == [stem |-> f.name.stem, suffix |-> "cap"] \in Names

StructField(f) ==
    CASE f.type \in Pointer /\ HasLen(f) -> "Array"
      [] f.type = "*c_char" /\ ~HasLen(f) -> "String"
      [] f.type \in {"*u8", "*Struct"} /\ ~HasLen(f) -> "StructPtr"
      [] IsArrayMeta(f) -> "LenField"
      [] OTHER -> "Primitive"

SortField ==
    /\ pc = "sort" /\ k <= Len(fields)
    /\ sorted' = Append(sorted, StructField(fields[k]))
    /\ k' = k + 1
    /\ UNCHANGED <<fields, pc, declared, bound, read, set>>

SortedAll ==
    /\ pc = "sort" /\ k > Len(fields)
    /\ pc' = "emit" /\ k' = 1
    /\ UNCHANGED <<fields, sorted, declared, bound, read, set>>

-----------------------------------------------------------------------------
(* to_camel_case changes a name that has an underscore. *)
Camel(n) == [name |-> n, camel |-> TRUE]
Snake(n) == [name |-> n, camel |-> n.suffix = "none"]
Part(f, suffix) == [stem |-> f.name.stem, suffix |-> suffix]

(* The conversions have nothing for a length or capacity, and nothing for a function  *)
(* pointer.                                                                           *)
Skipped(f, s) == s = "LenField" \/ (s = "Primitive" /\ f.type = "fn")

(* Mutant: the capacity of the Vec is not taken. *)
BindingsNoCap(f, s) ==
    CASE s = "Array" -> <<Part(f, "len"), f.name>>
      [] Skipped(f, s) -> <<>>
      [] OTHER -> <<f.name>>

Bindings(f, s) ==
    CASE s = "Array" -> <<Part(f, "len")>>
                        \o (IF HasCap(f) THEN <<Part(f, "cap")>> ELSE <<>>)
                        \o <<f.name>>
      [] Skipped(f, s) -> <<>>
      [] OTHER -> <<f.name>>

Reads(f, s) ==
    CASE s \in {"Array", "StructPtr", "String"} -> {Snake(f.name)}
      [] Skipped(f, s) -> {}
      [] OTHER -> {Camel(f.name)}

(* Mutant: the length of an array is not set. *)
SetsNoLen(f, s) ==
    CASE s = "StructPtr" -> {Snake(f.name)}
      [] Skipped(f, s) -> {}
      [] OTHER -> {Camel(f.name)}

Sets(f, s) ==
    CASE s = "Array" -> {Camel(f.name), Camel(Part(f, "len"))}
      [] s = "StructPtr" -> {Snake(f.name)}
      [] Skipped(f, s) -> {}
      [] OTHER -> {Camel(f.name)}

(* A member is declared for every field, and what the literal of from_java names is *)
(* every field: with or without a value for it.                                     *)
EmitField ==
    /\ pc = "emit" /\ k <= Len(fields)
    /\ LET f == fields[k]
           s == sorted[k]
       IN  IF f.type = "other" \* rust_to_java
           THEN pc' = "refused" /\ UNCHANGED <<k, declared, bound, read, set>>
           ELSE /\ declared' = declared \cup {Camel(f.name)}
                /\ bound' = bound \o Bindings(f, s)
                /\ read' = read \cup Reads(f, s)
                /\ set' = set \cup Sets(f, s)
                /\ k' = k + 1
                /\ UNCHANGED pc
    /\ UNCHANGED <<fields, sorted>>

EmittedAll ==
    /\ pc = "emit" /\ k > Len(fields)
    /\ pc' = "done"
    /\ UNCHANGED <<fields, k, sorted, declared, bound, read, set>>

Next == SortField \/ SortedAll \/ EmitField \/ EmittedAll

Spec == Init /\ [][Next]_vars

-----------------------------------------------------------------------------
BoundNames == {bound[i] : i \in DOMAIN bound}

(* The length or capacity of an array. *)
OfArray(n) ==
    /\ n.suffix \in {"len", "cap"}
    /\ \E i \in DOMAIN fields :
          /\ fields[i].type \in Pointer /\ fields[i].name.stem = n.stem
          /\ fields[i].name.suffix \in {"none", "ptr"} /\ Part(fields[i], "len") \in Names

Unconverted(f) == IsArrayMeta(f) \/ f.type = "fn"

(* For which fields of the struct it builds from_java has a value: all but function  *)
(* pointers and the lengths and capacities that belong to no pointer, with which the *)
(* generated Rust does not compile.  It has none that the struct has no field for.   *)
FieldsBound ==
    pc = "done" =>
        /\ BoundNames \subseteq Names
        /\ \A i \in DOMAIN fields :
             fields[i].name \notin BoundNames <=>
                Unconverted(fields[i]) /\ ~OfArray(fields[i].name)

(* What Java sees of a struct: to_java sets every member of the class but function   *)
(* pointers, capacities, and lengths that belong to no pointer, which keep Java's    *)
(* default, and it sets no member that the class does not have (up to the spelling   *)
(* of its name).                                                                     *)
MembersSet ==
    pc = "done" =>
        LET assigned == {m.name : m \in set}
        IN  /\ assigned \subseteq {m.name : m \in declared}
            /\ \A i \in DOMAIN fields :
                 fields[i].name \notin assigned <=>
                    /\ Unconverted(fields[i])
                    /\ ~(fields[i].name.suffix = "len" /\ OfArray(fields[i].name))

(* What carries the proofs: what the fields the loop has passed have left behind.    *)
TypeOK ==
    /\ fields \in Structs /\ pc \in {"sort", "emit", "refused", "done"} /\ k \in 1..(Len(fields) + 1)
    /\ sorted \in Seq({"Array", "String", "StructPtr", "LenField", "Primitive"})
    /\ bound \in Seq(Name)
    /\ declared \subseteq [name : Name, camel : BOOLEAN]
    /\ read \subseteq [name : Name, camel : BOOLEAN] /\ set \subseteq [name : Name, camel : BOOLEAN]

SortInv ==
    /\ Len(sorted) = IF pc = "sort" THEN k - 1 ELSE Len(fields)
    /\ \A i \in DOMAIN sorted : sorted[i] = StructField(fields[i])
    /\ pc = "sort" => bound = <<>> /\ declared = {} /\ set = {}
    /\ pc = "done" => k = Len(fields) + 1

Binds(f, n) == \E m \in DOMAIN Bindings(f, StructField(f)) : Bindings(f, StructField(f))[m] = n

EmitInv ==
    /\ \A n \in BoundNames : \E i \in DOMAIN fields : Binds(fields[i], n)
    /\ \A m \in set : \E i \in DOMAIN fields : m \in Sets(fields[i], StructField(fields[i]))
    /\ pc # "sort" => \A i \in DOMAIN fields : i < k =>
          LET f == fields[i]
          IN  /\ \A n \in Name : Binds(f, n) => n \in BoundNames
              /\ Sets(f, StructField(f)) \subseteq set
              /\ Camel(f.name) \in declared
=============================================================================
