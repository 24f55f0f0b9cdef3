---------------------------- MODULE CSharpParams ----------------------------
(***************************************************************************)
(* How one Rust function becomes C#: transform_function                     *)
(* (src/src/csharp/intermediate.rs) folds each pointer and length that       *)
(* follow one another into one array, and emit.rs unfolds them again, in the *)
(* declaration of the native function, in the call the wrapper makes, and in *)
(* the delegate and its handler if the function is the type of a callback.   *)
(* Each loop is an action, one iteration a step.                             *)
(***************************************************************************)
EXTENDS ArrayPairing

CONSTANTS
    UserDataStem, \* the stem of the parameter name user_data
    RetStem,      \* that of the name ret
    Compound,     \* the stems of more than one word, which camel case changes
    Lists         \* the parameter lists to try

ASSUME StemAssumption ==
    UserDataStem \in Compound /\ Compound \subseteq Stem /\ RetStem \in Stem \ Compound
ASSUME ListsAssumption == Lists \subseteq Seq(Decl)

VARIABLES
    params, \* decl.inputs
    output, \* whether the function returns a value
    role,   \* "function", or "callback": the type of a callback
    pc,
    next,   \* the iterator: the next parameter it yields
    carry,  \* a parameter already taken from the iterator, 0 for none
    inputs, \* Function.inputs
    starts, \* history: the first parameter each input was made from
    k,      \* the next input to be emitted
    native, \* the parameters of the native declaration, or of the delegate
    wrapper,\* the parameters of the wrapper function
    call    \* the arguments of the wrapper's call, or of CompleteTask's result

vars == <<params, output, role, pc, next, carry, inputs, starts, k, native, wrapper, call>>

Init ==
    /\ params \in Lists /\ role \in {"function", "callback"}
    /\ output \in BOOLEAN /\ (role = "callback" => ~output)
    /\ pc = "pair"
    /\ next = 1 /\ carry = 0
    /\ inputs = <<>> /\ starts = <<>>
    /\ k = 1 /\ native = <<>> /\ wrapper = <<>> /\ call = <<>>

-----------------------------------------------------------------------------
One == IF carry # 0 THEN carry ELSE next
Two == IF carry # 0 THEN next ELSE next + 1
Given(i) == i <= Len(params)

emission == <<k, native, wrapper, call>>

(* transform_type refuses the type of the next parameter. *)
Refuse ==
    /\ pc = "pair"
    /\ \E i \in next..Two : Given(i) /\ params[i].kind = "unsupported"
    /\ pc' = "refused"
    /\ UNCHANGED <<params, output, role, next, carry, inputs, starts, emission>>

Accepted == \A i \in next..Two : Given(i) => params[i].kind # "unsupported"
Push(input) == inputs' = Append(inputs, input) /\ starts' = Append(starts, One)

(* A pointer and its length. *)
PushArray ==
    /\ pc = "pair" /\ Accepted
    /\ Given(Two) /\ Pairs(params[One], params[Two])
    /\ Push(ArrayOf(params[One]))
    /\ carry' = 0 /\ next' = Two + 1
    /\ UNCHANGED <<params, output, role, pc, emission>>

(* Mutants: the parameter carried over is lost; parameters are taken two by two. *)
PushOneDrops ==
    /\ pc = "pair" /\ Accepted
    /\ Given(Two) /\ ~Pairs(params[One], params[Two])
    /\ Push(params[One])
    /\ carry' = 0 /\ next' = Two + 1
    /\ UNCHANGED <<params, output, role, pc, emission>>

PushTwo ==
    /\ pc = "pair" /\ Accepted
    /\ Given(Two) /\ ~Pairs(params[One], params[Two])
    /\ inputs' = inputs \o <<params[One], params[Two]>> /\ starts' = starts \o <<One, Two>>
    /\ carry' = 0 /\ next' = Two + 1
    /\ UNCHANGED <<params, output, role, pc, emission>>

(* Anything else; what follows it is looked at again. *)
PushOne ==
    /\ pc = "pair" /\ Accepted
    /\ Given(Two) /\ ~Pairs(params[One], params[Two])
    /\ Push(params[One])
    /\ carry' = Two /\ next' = Two + 1
    /\ UNCHANGED <<params, output, role, pc, emission>>

PushLast ==
    /\ pc = "pair" /\ Accepted
    /\ ~Given(Two)
    /\ IF Given(One) THEN Push(params[One]) ELSE UNCHANGED <<inputs, starts>>
    /\ pc' = "emit" /\ carry' = 0 /\ next' = Two
    /\ UNCHANGED <<params, output, role, emission>>

-----------------------------------------------------------------------------
(* is_user_data: any pointer to c_void of that name. *)
IsUserData(s) == s.kind = "void" /\ s.name = [stem |-> UserDataStem, suffix |-> "none"]
IsCallback(s) == s.kind = "callback"
HasCallback == \E i \in DOMAIN inputs : IsCallback(inputs[i])

(* is_interface_function: only functions with one callback at most are wrapped. *)
Wrapped == \A i, j \in DOMAIN inputs : IsCallback(inputs[i]) /\ IsCallback(inputs[j]) => i = j

LengthOf(s) == [stem |-> s.name.stem, suffix |-> "len"]

(* Mutant: the index counts from 0. *)
NativeParamsOffByOne(s) ==
    IF IsArray(s)
    THEN <<[name |-> s.name, repr |-> "address", sizeIndex |-> k - 1],
           [name |-> LengthOf(s), repr |-> "ulong", sizeIndex |-> 0]>>
    ELSE <<[name |-> s.name, repr |-> Repr(s.kind), sizeIndex |-> 0]>>

(* emit_native_function_params: an array is followed by its length; the marshaller  *)
(* is told where to find the length by counting inputs, from 0.                     *)
NativeParams(s) ==
    IF IsArray(s)
    THEN <<[name |-> s.name, repr |-> "address", sizeIndex |-> k],
           [name |-> LengthOf(s), repr |-> "ulong", sizeIndex |-> 0]>>
    ELSE <<[name |-> s.name, repr |-> Repr(s.kind), sizeIndex |-> 0]>>

(* How a name is written in C#: the locals for twins are named in Rust's case, all  *)
(* else in camel case.  The two agree on a stem of one word.                         *)
Written(n, form) ==
    [word |-> n, form |-> IF n.suffix = "none" /\ n.stem \notin Compound THEN "any" ELSE form,
     twin |-> FALSE]
Camel(n) == Written(n, "camel")
Twin(w) == [w EXCEPT !.twin = TRUE]  \* fooNative

(* Mutant: user data is passed by the caller. *)
WrapperParamsUserData(s) == IF IsCallback(s) THEN <<>> ELSE <<Camel(s.name)>>

(* emit_wrapper_function_params: neither user data nor callbacks. *)
WrapperParams(s) == IF IsUserData(s) \/ IsCallback(s) THEN <<>> ELSE <<Camel(s.name)>>

(* The structs with a twin are converted before the call and freed after it. *)
Twins == {Twin(Written(inputs[i].name, "raw")) :
            i \in {j \in DOMAIN inputs : inputs[j].kind = "native"}}

(* What else the wrapper declares: `var (ret, userData)` or `var ret`. *)
Result ==
    IF HasCallback THEN {Camel([stem |-> s, suffix |-> "none"]) : s \in {RetStem, UserDataStem}}
    ELSE IF output THEN {Camel([stem |-> RetStem, suffix |-> "none"])} ELSE {}

(* Mutant: an array is passed without its count. *)
CallArgsNoCount(s) == <<[of |-> Camel(s.name), repr |-> Repr(s.kind)]>>

(* The arguments of emit_wrapper_function; a handler is named for its type. *)
CallArgs(s) ==
    LET name == Camel(s.name)
    IN  IF IsArray(s)
        THEN <<[of |-> name, repr |-> "address"], [of |-> name, repr |-> "ulong"]>>
        ELSE <<[of |-> IF s.kind = "native" THEN Twin(name) ELSE name, repr |-> Repr(s.kind)]>>

EmitParam ==
    /\ pc = "emit" /\ role = "function" /\ k <= Len(inputs)
    /\ native' = native \o NativeParams(inputs[k])
    /\ IF Wrapped
       THEN wrapper' = wrapper \o WrapperParams(inputs[k])
            /\ call' = call \o CallArgs(inputs[k])
       ELSE UNCHANGED <<wrapper, call>>
    /\ k' = k + 1
    /\ UNCHANGED <<params, output, role, pc, next, carry, inputs, starts>>

(* emit_callback_params and emit_callback_wrapper: the delegate's parameters, and   *)
(* which of them the handler makes the task's result from: all but two.  A delegate *)
(* is made of a function type that begins with user data (extract_callback).        *)
DelegateParams(s) ==
    IF IsArray(s)
    THEN <<[name |-> [stem |-> s.name.stem, suffix |-> "ptr"], repr |-> "address", sizeIndex |-> 0],
           [name |-> LengthOf(s), repr |-> "ulong", sizeIndex |-> 0]>>
    ELSE <<[name |-> s.name, repr |-> Repr(s.kind), sizeIndex |-> 0]>>

Emittable ==
    /\ Len(inputs) >= 2 /\ IsUserData(inputs[1])
    /\ \A i \in DOMAIN inputs : ~IsCallback(inputs[i]) /\ Copyable(inputs[i])

EmitDelegateParam ==
    /\ pc = "emit" /\ role = "callback" /\ k <= Len(inputs)
    /\ Emittable
    /\ native' = native \o DelegateParams(inputs[k])
    /\ call' = IF k > 2 THEN call \o CallArgs(inputs[k]) ELSE call
    /\ k' = k + 1
    /\ UNCHANGED <<params, output, role, pc, next, carry, inputs, starts, wrapper>>

(* The handler slices inputs[0..2] and copies arrays; emit_type knows no function types. *)
EmitPanics ==
    /\ pc = "emit" /\ role = "callback"
    /\ ~Emittable
    /\ pc' = "panicked"
    /\ UNCHANGED <<params, output, role, next, carry, inputs, starts, emission>>

Emitted ==
    /\ pc = "emit" /\ k > Len(inputs)
    /\ role = "callback" => Emittable
    /\ pc' = "done"
    /\ UNCHANGED <<params, output, role, next, carry, inputs, starts, emission>>

Next == Refuse \/ PushArray \/ PushOne \/ PushLast \/ EmitParam \/ EmitDelegateParam
        \/ EmitPanics \/ Emitted

Spec == Init /\ [][Next]_vars

-----------------------------------------------------------------------------
(* Folding pointers and lengths together and unfolding them again loses nothing:    *)
(* the native declaration, or the delegate, passes what the Rust function expects,  *)
(* in number, in order and in kind, whichever parameters were taken for arrays.     *)
AbiPreserved ==
    pc = "done" =>
        /\ Len(native) = Len(params)
        /\ \A i \in DOMAIN params :
             /\ native[i].repr = Repr(params[i].kind)
             /\ native[i].name.stem = params[i].name.stem

(* transform_function overlooks no array: the length it has carried over from one   *)
(* iteration, or the pointer, still meets its neighbour.                            *)
NoPairMissed ==
    pc \in {"emit", "done"} =>
        \A i \in 1..(Len(params) - 1) :
            Pairs(params[i], params[i + 1]) =>
                \E j \in DOMAIN inputs : starts[j] = i /\ IsArray(inputs[j])

(* The call a wrapper makes agrees with the native declaration, argument by         *)
(* argument, though the two are emitted by loops that do not know of each other.    *)
CallMatchesDeclaration ==
    pc = "done" /\ role = "function" /\ Wrapped =>
        /\ Len(call) = Len(native)
        /\ \A i \in DOMAIN call : call[i].repr = native[i].repr
                                  /\ call[i].of.word.stem = native[i].name.stem

(* Of the names that the call of a wrapper uses each is declared, once, by a         *)
(* parameter or a local.                                                             *)
WellNamed ==
    /\ \A i \in DOMAIN call :
         \/ call[i].repr = "delegate"  \* a static method
         \/ call[i].of \in {wrapper[j] : j \in DOMAIN wrapper} \cup Result \cup Twins
    /\ \A i, j \in DOMAIN wrapper : wrapper[i] = wrapper[j] => i = j
    /\ \A i \in DOMAIN wrapper : wrapper[i] \notin Result \cup Twins

(* The functions for which that should be so: no parameter that is passed on is      *)
(* called ret or user_data where the wrapper has a local of that name, no two of      *)
(* them have one name, as an array and its neighbour may, user data comes with a     *)
(* callback (or hides behind an array of its name), and a struct with a twin has a    *)
(* name of one word.                                                                 *)
Passed(i) == ~IsUserData(inputs[i]) /\ ~IsCallback(inputs[i])
PassedOn(n) ==
    \E i \in DOMAIN inputs : Passed(i) /\ inputs[i].name = [stem |-> n, suffix |-> "none"]
Nameable ==
    /\ PassedOn(RetStem) => ~HasCallback /\ ~output
    /\ PassedOn(UserDataStem) => ~HasCallback
    /\ HasCallback \/ PassedOn(UserDataStem) \/ \A i \in DOMAIN inputs : ~IsUserData(inputs[i])
    /\ \A i, j \in DOMAIN inputs :
         Passed(i) /\ Passed(j) /\ inputs[i].name = inputs[j].name => i = j
    /\ \A i \in DOMAIN inputs : inputs[i].kind = "native" =>
         inputs[i].name.suffix = "none" /\ inputs[i].name.stem \notin Compound

(* Conversion, call and release of emit_wrapper_function and the parameter list of    *)
(* emit_wrapper_function_params are four loops that spell names each in its own way: *)
(* they agree for the functions above, and for no others.                            *)
CallIsClosed == pc = "done" /\ role = "function" /\ Wrapped => (WellNamed <=> Nameable)

(* The index that follows an array's SizeParamIndex, from 0, is that of its length. *)
SizedBy(i) ==
    /\ native[i].sizeIndex + 1 \in DOMAIN native
    /\ native[native[i].sizeIndex + 1].name = LengthOf(native[i])

(* The first array of a signature is given the position of its length.              *)
FirstArraySized ==
    pc = "done" =>
        \A i \in DOMAIN native :
            native[i].sizeIndex # 0 /\ (\A j \in 1..(i - 1) : native[j].sizeIndex = 0) => SizedBy(i)

(* "SizeParamIndex = 2" marks `data` in `ulong id, byte[] data, ulong dataLen`      *)
(* (src/src/csharp/tests.rs:677): the index is that of the length, in every array   *)
(* parameter.                                                                       *)
EveryArraySized ==
    pc = "done" => \A i \in DOMAIN native : native[i].sizeIndex # 0 => SizedBy(i)

-----------------------------------------------------------------------------
(* What carries the proofs.  The inputs and what is left of the parameters make up   *)
(* the list: each input stands for the one or two parameters it starts at, the next  *)
(* one starts where it ends, and the last ends at the parameter to be looked at.     *)
Input == [name : Name, kind : Kind \cup {"array", "voidArray"}]
Form == [word : Name, form : {"any", "raw", "camel"}, twin : BOOLEAN]
Reprs == {"address", "ulong", "delegate", "value"}

TypeOK ==
    /\ params \in Seq(Decl) /\ output \in BOOLEAN /\ role \in {"function", "callback"}
    /\ pc \in {"pair", "refused", "emit", "panicked", "done"}
    /\ next \in Nat /\ carry \in Nat /\ k \in Nat \ {0}
    /\ pc \in {"pair", "refused"} => next \in 1..(Len(params) + 1) /\ carry \in {0, next - 1}
    /\ inputs \in Seq(Input) /\ starts \in Seq(Nat)
    /\ native \in Seq([name : Name, repr : Reprs, sizeIndex : Nat])
    /\ wrapper \in Seq(Form) /\ call \in Seq([of : Form, repr : Reprs])

Width(s) == IF IsArray(s) THEN 2 ELSE 1
Edge == IF pc \in {"pair", "refused"} THEN One ELSE Len(params) + 1
From(j) == IF j \in DOMAIN inputs THEN starts[j] ELSE Edge

Stands(j) ==
    LET i == starts[j]
        pair == Given(i + 1) /\ Pairs(params[i], params[i + 1])
    IN  /\ i \in DOMAIN params
        /\ inputs[j] = IF pair THEN ArrayOf(params[i]) ELSE params[i]
        /\ IsArray(inputs[j]) <=> pair
        /\ From(j + 1) = i + Width(inputs[j])

FoldInv ==
    /\ DOMAIN starts = DOMAIN inputs
    /\ From(1) = 1
    /\ \A j \in DOMAIN inputs : Stands(j)
    /\ \A i \in 1..(Edge - 1) : \E j \in DOMAIN inputs :
         i = starts[j] \/ (IsArray(inputs[j]) /\ i = starts[j] + 1)

(* The declaration has got as far as the inputs have, and the call with it.          *)
EmitInv ==
    /\ pc \in {"pair", "refused"} => k = 1
    /\ k \in 1..(Len(inputs) + 1) /\ (pc = "done" => k = Len(inputs) + 1)
    /\ k = 1 => native = <<>> /\ call = <<>>
    /\ Len(native) = From(k) - 1
    /\ \A i \in DOMAIN native : /\ native[i].repr = Repr(params[i].kind)
                               /\ native[i].name.stem = params[i].name.stem

CallInv ==
    role = "function" /\ Wrapped =>
        /\ Len(call) = Len(native)
        /\ \A i \in DOMAIN call : call[i].repr = native[i].repr
                                  /\ call[i].of.word.stem = native[i].name.stem

(* Until an array is declared positions in the declaration are those of the inputs. *)
SizeInv ==
    /\ k = 1 => native = <<>>
    /\ (\A i \in DOMAIN native : native[i].sizeIndex = 0) =>
         role = "callback" \/ Len(native) = k - 1
    /\ \A i \in DOMAIN native :
         native[i].sizeIndex # 0 /\ (\A j \in 1..(i - 1) : native[j].sizeIndex = 0) =>
             /\ native[i].sizeIndex = i /\ i + 1 \in DOMAIN native
             /\ native[i + 1].name = LengthOf(native[i])

(* Each parameter of the wrapper is one of the inputs passed on, each argument of    *)
(* its call one of the inputs.                                                       *)
ArgName(s) == IF s.kind = "native" THEN Twin(Camel(s.name)) ELSE Camel(s.name)
IsArg(arg, s) == arg.of = ArgName(s) /\ (arg.repr = "delegate" <=> IsCallback(s))
NamesInv ==
    /\ k = 1 => wrapper = <<>> /\ call = <<>>
    /\ role = "function" /\ Wrapped =>
         LET done == 1..(k - 1)
         IN  /\ \E from \in [DOMAIN wrapper -> {j \in done : Passed(j)}] :
                  /\ \A i \in DOMAIN wrapper : wrapper[i] = Camel(inputs[from[i]].name)
                  /\ \A i, j \in DOMAIN wrapper : from[i] = from[j] => i = j
                  /\ \A j \in done : Passed(j) => \E i \in DOMAIN wrapper : from[i] = j
             /\ \A i \in DOMAIN call : \E j \in done : IsArg(call[i], inputs[j])
             /\ \A j \in done : \E i \in DOMAIN call : IsArg(call[i], inputs[j])
=============================================================================
