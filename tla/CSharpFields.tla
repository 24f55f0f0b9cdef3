---------------------------- MODULE CSharpFields ----------------------------
(***************************************************************************)
(* How the fields of a #[repr(C)] struct become C#: process_struct_fields    *)
(* (src/src/csharp/intermediate.rs) folds a pointer, its length and perhaps  *)
(* its capacity into one array, and emit.rs unfolds it in the native struct, *)
(* in Free, in the constructor that copies out of the native struct and in   *)
(* ToNative, that copies into it.  The second part runs what was emitted: the *)
(* wrapper of a function converts a struct, calls, and frees the twin.       *)
(***************************************************************************)
EXTENDS ArrayPairing

CONSTANTS
    Length(_), \* of a stem, in bytes
    MaxCount,  \* the longest list in a field
    Structs    \* the lists of fields to try

ASSUME LengthAssumption == \A s \in Stem : Length(s) \in Nat
ASSUME CountAssumption == MaxCount \in Nat
ASSUME StructsAssumption == Structs \subseteq Seq(Decl)
ASSUME NamesAssumption == \A l \in Structs : \A i, j \in DOMAIN l : l[i].name = l[j].name => i = j

VARIABLES
    fields,   \* the fields of the Rust struct
    pc,
    next,     \* the iterator: the next field it yields
    field0,   \* the field that is to be looked at, and where it stands
    output,   \* Struct.fields
    starts,   \* history: the first field each of them was made from
    k,        \* the next one to be emitted
    native,   \* the fields of the native struct
    freed,    \* those that Free releases
    copied,   \* those the constructor reads
    assigned, \* those that ToNative sets
    count,    \* the elements of the lists in a struct that is passed to Rust
    heap      \* the fields of its twin that own memory, Marshal.AllocHGlobal

emission == <<k, native, freed, copied, assigned>>
memory == <<count, heap>>
folded == <<output, starts>>
vars == <<fields, pc, next, field0, folded, emission, memory>>

Init ==
    /\ fields \in Structs
    /\ pc = "start"
    /\ next = 1 /\ field0 = 0
    /\ output = <<>> /\ starts = <<>>
    /\ k = 1 /\ native = <<>> /\ freed = {} /\ copied = {} /\ assigned = {}
    /\ count = <<>> /\ heap = {}

Given(i) == i <= Len(fields)

-----------------------------------------------------------------------------
(* transform_struct asks for the type of every field first. *)
Start ==
    /\ pc = "start"
    /\ pc' = IF \E i \in DOMAIN fields : fields[i].kind = "unsupported" THEN "refused"
             ELSE IF Given(1) THEN "pair" ELSE "emit"
    /\ field0' = 1 /\ next' = 2
    /\ UNCHANGED <<fields, folded, emission, memory>>

Field(d, has_cap) == [name |-> d.name, kind |-> d.kind, has_cap |-> has_cap]
Push(f) == output' = Append(output, f) /\ starts' = Append(starts, field0)

(* The loop goes on at field i, or ends if there is none. *)
GoOn(i) ==
    /\ pc' = IF Given(i) THEN "pair" ELSE "emit"
    /\ field0' = i /\ next' = i + 1

PushField ==
    /\ pc = "pair"
    /\ ~(Given(next) /\ Pairs(fields[field0], fields[next]))
    /\ Push(Field(fields[field0], FALSE))
    /\ GoOn(next)
    /\ UNCHANGED <<fields, emission, memory>>

NameLength(n) == Length(n.stem) + (IF n.suffix = "none" THEN 0 ELSE 4)
IsCapacity(d, base) == d.kind = "usize" /\ d.name = [stem |-> base, suffix |-> "cap"]

(* is_capacity slices the name of the third field by the length of the array's. *)
SliceFails(d, base) == d.kind = "usize" /\ NameLength(d.name) < Length(base)

PushArray ==
    /\ pc = "pair"
    /\ Given(next) /\ Pairs(fields[field0], fields[next])
    /\ LET base == fields[field0].name.stem
           array == ArrayOf(fields[field0])
           third == next + 1
       IN  \/ /\ ~Given(third)
              /\ Push(Field(array, FALSE)) /\ GoOn(third)
           \/ /\ Given(third) /\ IsCapacity(fields[third], base)
              /\ Push(Field(array, TRUE)) /\ GoOn(third + 1)
           \/ /\ Given(third) /\ ~IsCapacity(fields[third], base)
              /\ ~SliceFails(fields[third], base)
              /\ Push(Field(array, FALSE)) /\ GoOn(third)
           \/ /\ Given(third) /\ SliceFails(fields[third], base)
              /\ pc' = "panicked" /\ UNCHANGED <<folded, next, field0>>
    /\ UNCHANGED <<fields, emission, memory>>

-----------------------------------------------------------------------------
Member(f, suffix) == [stem |-> f.name.stem, suffix |-> suffix]

List(f) == {Member(f, "ptr"), Member(f, "len")}

(* Mutant: the capacity is forgotten. *)
NativeFieldsNoCap(f) ==
    IF IsArray(f)
    THEN <<[name |-> Member(f, "ptr"), repr |-> "address"],
           [name |-> Member(f, "len"), repr |-> "ulong"]>>
    ELSE <<[name |-> f.name, repr |-> Repr(f.kind)]>>

(* emit_struct_field, in StructMode::Normal *)
NativeFields(f) ==
    IF IsArray(f)
    THEN <<[name |-> Member(f, "ptr"), repr |-> "address"],
           [name |-> Member(f, "len"), repr |-> "ulong"]>>
         \o (IF f.has_cap THEN <<[name |-> Member(f, "cap"), repr |-> "ulong"]>> ELSE <<>>)
    ELSE <<[name |-> f.name, repr |-> Repr(f.kind)]>>

(* Mutant: the structs inside a struct are not freed. *)
FreedFlat(f) == IF IsArray(f) THEN List(f) ELSE {}

(* emit_native_struct's Free, and emit_wrapper_struct's constructor and ToNative;    *)
(* fields of a type that has a twin itself are converted in the same places.         *)
Freed(f) ==
    IF IsArray(f) THEN List(f) ELSE IF f.kind = "native" THEN {f.name} ELSE {}
Copied(f) == IF IsArray(f) THEN List(f) ELSE {f.name}

(* Mutant: ToNative leaves the capacity unset. *)
AssignedNoCap(f) == IF IsArray(f) THEN List(f) ELSE {f.name}
Assigned(f) ==
    Copied(f) \cup (IF IsArray(f) /\ f.has_cap THEN {Member(f, "cap")} ELSE {})

EmitField ==
    /\ pc = "emit" /\ k <= Len(output) /\ Copyable(output[k])
    /\ LET f == output[k]
       IN  /\ native' = native \o NativeFields(f)
           /\ freed' = freed \cup Freed(f)
           /\ copied' = copied \cup Copied(f)
           /\ assigned' = assigned \cup Assigned(f)
    /\ k' = k + 1
    /\ UNCHANGED <<fields, pc, next, field0, folded, memory>>

EmitPanics ==
    /\ pc = "emit" /\ k <= Len(output) /\ ~Copyable(output[k])
    /\ pc' = "panicked"
    /\ UNCHANGED <<fields, next, field0, folded, emission, memory>>

Emitted ==
    /\ pc = "emit" /\ k > Len(output)
    /\ pc' = "done"
    /\ UNCHANGED <<fields, next, field0, folded, emission, memory>>

-----------------------------------------------------------------------------
(* A field that owns memory in the twin: a list, or a struct with a list; and the    *)
(* member of the twin that holds the memory.                                         *)
Owns(f) == IsArray(f) \/ f.kind = "native"
Owner(f) == IF IsArray(f) THEN Member(f, "ptr") ELSE f.name

generated == <<fields, next, field0, folded, native, freed, copied, assigned>>

(* A struct with a twin is passed to a wrapper, emit_wrapper_function. *)
Pass ==
    /\ pc = "done" /\ \E i \in DOMAIN output : Owns(output[i])
    /\ count' \in [DOMAIN output -> 0..MaxCount]
    /\ pc' = "convert" /\ k' = 1
    /\ UNCHANGED <<generated, heap>>

Empty(i) == Owns(output[i]) /\ count[i] = 0

(* One initialiser of ToNative. *)
Convert ==
    /\ pc = "convert" /\ k <= Len(output) /\ ~Empty(k)
    /\ heap' = heap \cup {i \in {k} : Owns(output[i]) /\ Owner(output[i]) \in assigned}
    /\ k' = k + 1
    /\ UNCHANGED <<generated, pc, count>>

(* CopyFromByteList and CopyFromObjectList measure the first element: an empty list  *)
(* throws, and what was converted before it is not freed.                            *)
Throw ==
    /\ pc = "convert" /\ k <= Len(output) /\ Empty(k)
    /\ pc' = "thrown"
    /\ UNCHANGED <<generated, k, memory>>

CallNative ==
    /\ pc = "convert" /\ k > Len(output)
    /\ pc' = "native"
    /\ UNCHANGED <<generated, k, memory>>

NativeReturns ==
    /\ pc = "native"
    /\ pc' = "free" /\ k' = 1
    /\ UNCHANGED <<generated, memory>>

(* One statement of Free. *)
Free ==
    /\ pc = "free" /\ k <= Len(output)
    /\ heap' = heap \ {i \in {k} : Owns(output[i]) /\ Owner(output[i]) \in freed}
    /\ k' = k + 1
    /\ UNCHANGED <<generated, pc, count>>

Return ==
    /\ pc = "free" /\ k > Len(output)
    /\ pc' = "returned"
    /\ UNCHANGED <<generated, k, memory>>

Next == Start \/ PushField \/ PushArray \/ EmitField \/ EmitPanics \/ Emitted
        \/ Pass \/ Convert \/ Throw \/ CallNative \/ NativeReturns \/ Free \/ Return

Spec == Init /\ [][Next]_vars

-----------------------------------------------------------------------------
(* The native struct has the layout of the Rust struct: as many fields, in the same  *)
(* order and of the same kind, whichever of them were taken for an array.            *)
LayoutPreserved ==
    pc = "done" =>
        /\ Len(native) = Len(fields)
        /\ \A i \in DOMAIN fields :
             /\ native[i].repr = Repr(fields[i].kind)
             /\ native[i].name.stem = fields[i].name.stem

NativeNames == {native[i].name : i \in DOMAIN native}

(* ToNative sets every field of the native struct, and touches no other; what Free    *)
(* releases the constructor has read; the wrapper forgets capacities, nothing else.  *)
NothingUninitialised ==
    pc = "done" =>
        /\ assigned = NativeNames
        /\ copied \subseteq NativeNames /\ freed \subseteq copied
        /\ NativeNames \ copied = {Member(output[j], "cap") :
                                     j \in {i \in DOMAIN output : output[i].has_cap}}

(* What ToNative allocates is there while the native function runs and is freed once  *)
(* the wrapper returns, whether a list stands in the struct or in one inside it,      *)
(* and a pass that ends otherwise does so for an empty list.                          *)
HeapBalanced ==
    LET owners == {i \in DOMAIN output : Owns(output[i])}
    IN  /\ pc = "native" => heap = owners
        /\ pc = "returned" => heap = {}
        /\ pc = "thrown" => \E i \in owners : Empty(i)

-----------------------------------------------------------------------------
(* What carries the proofs.  Each field of the output stands for the one, two or     *)
(* three fields it starts at, and the next one starts where it ends.                 *)
Output == [name : Name, kind : Kind \cup {"array", "voidArray"}, has_cap : BOOLEAN]
Emitting == {"emit", "done", "convert", "thrown", "native", "free", "returned"}

TypeOK ==
    /\ fields \in Seq(Decl)
    /\ pc \in {"start", "refused", "panicked", "pair"} \cup Emitting
    /\ next \in Nat /\ field0 \in Nat /\ k \in Nat \ {0}
    /\ pc = "pair" => field0 \in DOMAIN fields /\ next = field0 + 1
    /\ output \in Seq(Output) /\ starts \in Seq(Nat)
    /\ native \in Seq([name : Name, repr : {"address", "ulong", "delegate", "value"}])
    /\ freed \subseteq Name /\ copied \subseteq Name /\ assigned \subseteq Name
    /\ pc \in {"convert", "native", "free"} => count \in [DOMAIN output -> Nat]
    /\ heap \subseteq DOMAIN output

Width(f) == IF ~IsArray(f) THEN 1 ELSE IF f.has_cap THEN 3 ELSE 2
Edge == CASE pc = "start" -> 1 [] pc = "pair" -> field0 [] OTHER -> Len(fields) + 1
From(j) == IF j \in DOMAIN output THEN starts[j] ELSE Edge

Stands(j) ==
    LET i == starts[j]
        f == output[j]
    IN  /\ i \in DOMAIN fields
        /\ From(j + 1) = i + Width(f)
        /\ IF IsArray(f)
           THEN /\ Given(i + 1) /\ Pairs(fields[i], fields[i + 1])
                /\ f = Field(ArrayOf(fields[i]), f.has_cap)
                /\ f.has_cap => Given(i + 2) /\ IsCapacity(fields[i + 2], f.name.stem)
           ELSE f = Field(fields[i], FALSE)

FoldInv ==
    pc \notin {"refused", "panicked"} =>
        /\ DOMAIN starts = DOMAIN output
        /\ From(1) = 1
        /\ \A j \in DOMAIN output : Stands(j)
        /\ \A i, j \in DOMAIN output : i < j => starts[i] + Width(output[i]) <= starts[j]
        /\ \A i \in DOMAIN output : starts[i] + Width(output[i]) <= Edge

(* The native struct, Free, the constructor and ToNative have got as far as the       *)
(* output has.                                                                        *)
Reached == IF pc \in {"start", "pair", "emit"} THEN k ELSE Len(output) + 1
EmitInv ==
    pc \notin {"refused", "panicked"} =>
        /\ pc \in {"start", "pair"} => k = 1
        /\ Reached \in 1..(Len(output) + 1)
        /\ Len(native) = From(Reached) - 1
        /\ \A i \in DOMAIN native : /\ native[i].repr = Repr(fields[i].kind)
                                   /\ native[i].name.stem = fields[i].name.stem
        /\ assigned = NativeNames
        /\ \A n \in Name :
             /\ n \in assigned <=> \E j \in 1..(Reached - 1) : n \in Assigned(output[j])
             /\ n \in copied <=> \E j \in 1..(Reached - 1) : n \in Copied(output[j])
             /\ n \in freed <=> \E j \in 1..(Reached - 1) : n \in Freed(output[j])

HeapInv ==
    LET owners == {i \in DOMAIN output : Owns(output[i])}
    IN  /\ pc \in {"start", "refused", "panicked", "pair", "emit", "done", "returned"} => heap = {}
        /\ pc = "convert" => heap = {i \in owners : i < k}
        /\ pc = "native" => heap = owners
        /\ pc = "free" => heap = {i \in owners : i >= k}
        /\ pc = "thrown" => \E i \in owners : Empty(i)
=============================================================================
