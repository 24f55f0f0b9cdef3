------------------------- MODULE CSharpParams_proofs -------------------------
(* Folding pointers and lengths into arrays and unfolding them again, for every *)
(* list of parameters of any length.                                            *)
EXTENDS CSharpParams, SequenceTheorems, TLAPS

Slot == [name : Name, repr : Reprs, sizeIndex : Nat]
CallArg == [of : Form, repr : Reprs]

-----------------------------------------------------------------------------
(* What one input is emitted as. *)
LEMMA InputTypes ==
  /\ Decl \subseteq Input
  /\ \A d \in Decl : ~IsArray(d) /\ ArrayOf(d) \in Input
  /\ \A s \in Input : Width(s) \in {1, 2} /\ Repr(s.kind) \in Reprs
BY DEF Decl, Input, Kind, IsArray, ArrayOf, Name, Suffix, Width, Repr, Reprs

LEMMA FormTypes ==
  /\ \A n \in Name : Camel(n) \in Form /\ Camel(n).word = n
  /\ \A w \in Form : Twin(w) \in Form /\ Twin(w).word = w.word
<1>1. ASSUME NEW n \in Name PROVE Camel(n) \in Form /\ Camel(n).word = n
  BY DEF Camel, Written, Form
<1>2. ASSUME NEW w \in Form PROVE Twin(w) \in Form /\ Twin(w).word = w.word
  BY <1>2 DEF Twin, Form
<1> QED
  BY <1>1, <1>2

(* Each loop emits as many parameters as the input is made from. *)
LEMMA NativeParamsFacts ==
  ASSUME NEW s \in Input, k \in Nat
  PROVE  /\ NativeParams(s) \in Seq(Slot) /\ Len(NativeParams(s)) = Width(s)
         /\ NativeParams(s)[1].repr = Repr(s.kind)
         /\ IsArray(s) => NativeParams(s)[2].repr = "ulong"
         /\ \A m \in 1..Width(s) : NativeParams(s)[m].name.stem = s.name.stem
<1>1. s.name \in Name /\ LengthOf(s) \in Name /\ LengthOf(s).stem = s.name.stem
  BY DEF Input, LengthOf, Name, Suffix
<1>2. Repr(s.kind) \in Reprs /\ "address" \in Reprs /\ "ulong" \in Reprs
  BY InputTypes DEF Reprs
<1>3. CASE IsArray(s)
  <2>1. Repr(s.kind) = "address" /\ Width(s) = 2
    BY <1>3 DEF IsArray, Repr, Width
  <2>2. NativeParams(s) = <<[name |-> s.name, repr |-> "address", sizeIndex |-> k],
                            [name |-> LengthOf(s), repr |-> "ulong", sizeIndex |-> 0]>>
    BY <1>3 DEF NativeParams
  <2> QED
    BY <1>1, <1>2, <2>1, <2>2 DEF Slot
<1>4. CASE ~IsArray(s)
  <2>1. Width(s) = 1
    BY <1>4 DEF Width
  <2>2. NativeParams(s) = <<[name |-> s.name, repr |-> Repr(s.kind), sizeIndex |-> 0]>>
    BY <1>4 DEF NativeParams
  <2> QED
    BY <1>1, <1>2, <1>4, <2>1, <2>2 DEF Slot
<1> QED
  BY <1>3, <1>4

LEMMA DelegateParamsFacts ==
  ASSUME NEW s \in Input
  PROVE  /\ DelegateParams(s) \in Seq(Slot) /\ Len(DelegateParams(s)) = Width(s)
         /\ DelegateParams(s)[1].repr = Repr(s.kind)
         /\ IsArray(s) => DelegateParams(s)[2].repr = "ulong"
         /\ \A m \in 1..Width(s) : DelegateParams(s)[m].name.stem = s.name.stem
<1> DEFINE Ptr == [stem |-> s.name.stem, suffix |-> "ptr"]
<1>1. s.name \in Name /\ LengthOf(s) \in Name /\ LengthOf(s).stem = s.name.stem
      /\ Ptr \in Name /\ Ptr.stem = s.name.stem
  BY DEF Input, LengthOf, Name, Suffix
<1>2. Repr(s.kind) \in Reprs /\ "address" \in Reprs /\ "ulong" \in Reprs
  BY InputTypes DEF Reprs
<1>3. CASE IsArray(s)
  <2>1. Repr(s.kind) = "address" /\ Width(s) = 2
    BY <1>3 DEF IsArray, Repr, Width
  <2>2. DelegateParams(s) = <<[name |-> Ptr, repr |-> "address", sizeIndex |-> 0],
                              [name |-> LengthOf(s), repr |-> "ulong", sizeIndex |-> 0]>>
    BY <1>3 DEF DelegateParams
  <2> QED
    BY <1>1, <1>2, <2>1, <2>2 DEF Slot
<1>4. CASE ~IsArray(s)
  <2>1. Width(s) = 1
    BY <1>4 DEF Width
  <2>2. DelegateParams(s) = <<[name |-> s.name, repr |-> Repr(s.kind), sizeIndex |-> 0]>>
    BY <1>4 DEF DelegateParams
  <2> QED
    BY <1>1, <1>2, <1>4, <2>1, <2>2 DEF Slot
<1> QED
  BY <1>3, <1>4

LEMMA CallArgsFacts ==
  ASSUME NEW s \in Input
  PROVE  /\ CallArgs(s) \in Seq(CallArg) /\ Len(CallArgs(s)) = Width(s)
         /\ CallArgs(s)[1].repr = Repr(s.kind)
         /\ IsArray(s) => CallArgs(s)[2].repr = "ulong"
         /\ \A m \in 1..Width(s) : CallArgs(s)[m].of.word.stem = s.name.stem
<1> DEFINE c == Camel(s.name)
           t == IF s.kind = "native" THEN Twin(c) ELSE c
<1>1. c \in Form /\ c.word = s.name /\ t \in Form /\ t.word = s.name
  <2>1. s.name \in Name
    BY DEF Input
  <2> QED
    BY <2>1, FormTypes
<1>2. Repr(s.kind) \in Reprs /\ "address" \in Reprs /\ "ulong" \in Reprs
  BY InputTypes DEF Reprs
<1>3. CASE IsArray(s)
  <2>1. Repr(s.kind) = "address" /\ Width(s) = 2
    BY <1>3 DEF IsArray, Repr, Width
  <2>2. CallArgs(s) = <<[of |-> c, repr |-> "address"], [of |-> c, repr |-> "ulong"]>>
    BY <1>3 DEF CallArgs
  <2> HIDE DEF c, t
  <2> QED
    BY <1>1, <1>2, <2>1, <2>2 DEF CallArg
<1>4. CASE ~IsArray(s)
  <2>1. Width(s) = 1
    BY <1>4 DEF Width
  <2>2. CallArgs(s) = <<[of |-> t, repr |-> Repr(s.kind)]>>
    BY <1>4 DEF CallArgs
  <2> HIDE DEF c, t
  <2> QED
    BY <1>1, <1>2, <1>4, <2>1, <2>2 DEF CallArg
<1> QED
  BY <1>3, <1>4

-----------------------------------------------------------------------------
(* The types of all variables, in every state. *)
LEMMA Positions ==
  ASSUME TypeOK, pc = "pair"
  PROVE  /\ One \in Nat \ {0} /\ Two = One + 1 /\ One <= Len(params) + 1
         /\ Given(One) => params[One] \in Decl
         /\ Given(Two) => Given(One) /\ params[Two] \in Decl
         /\ Given(One) <=> One \in DOMAIN params
         /\ Given(Two) => Two + 1 \in 1..(Len(params) + 1)
         /\ Len(params) \in Nat /\ DOMAIN params = 1..Len(params)
<1>1. params \in Seq(Decl)
  BY DEF TypeOK
<1>2. Len(params) \in Nat /\ DOMAIN params = 1..Len(params)
  BY <1>1
<1>3. One \in Nat \ {0} /\ Two = One + 1 /\ One <= Len(params) + 1
  BY <1>2 DEF TypeOK, One, Two
<1> HIDE DEF One, Two
<1>4. \A i \in Nat \ {0} : Given(i) <=> i \in DOMAIN params
  BY <1>2 DEF Given
<1>5. Given(One) <=> One \in DOMAIN params
  BY <1>3, <1>4
<1>6. ASSUME Given(Two) PROVE Two \in DOMAIN params /\ Given(One) /\ Two + 1 \in 1..(Len(params) + 1)
  BY <1>2, <1>3, <1>6 DEF Given
<1> QED
  BY <1>1, <1>2, <1>3, <1>5, <1>6

THEOREM TypeCorrect == Spec => []TypeOK
<1>1. Init => TypeOK
  BY ListsAssumption DEF Init, TypeOK
<1>2. TypeOK /\ [Next]_vars => TypeOK'
  <2> SUFFICES ASSUME TypeOK, [Next]_vars PROVE TypeOK'
    OBVIOUS
  <2> USE DEF emission
  <2>1. ASSUME Refuse PROVE TypeOK'
    BY <2>1 DEF Refuse, TypeOK
  <2>2. ASSUME PushArray PROVE TypeOK'
    <3>1. pc = "pair" /\ Given(Two)
      BY <2>2 DEF PushArray
    <3>2. ArrayOf(params[One]) \in Input /\ One \in Nat /\ Two + 1 \in 1..(Len(params) + 1)
      BY <3>1, Positions, InputTypes
    <3> QED
      BY <2>2, <3>1, <3>2 DEF PushArray, Push, TypeOK
  <2>3. ASSUME PushOne PROVE TypeOK'
    <3>1. pc = "pair" /\ Given(Two)
      BY <2>3 DEF PushOne
    <3>2. params[One] \in Input /\ One \in Nat /\ Two \in Nat /\ Two + 1 \in 1..(Len(params) + 1)
      BY <3>1, Positions, InputTypes
    <3> QED
      BY <2>3, <3>1, <3>2 DEF PushOne, Push, TypeOK
  <2>4. ASSUME PushLast PROVE TypeOK'
    <3>1. Two \in Nat /\ One \in Nat /\ (Given(One) => params[One] \in Input)
      BY <2>4, Positions, InputTypes DEF PushLast
    <3>2. inputs' \in Seq(Input) /\ starts' \in Seq(Nat)
      <4>1. CASE Given(One)
        <5>1. inputs' = Append(inputs, params[One]) /\ starts' = Append(starts, One)
          BY <2>4, <4>1 DEF PushLast, Push
        <5> QED
          BY <3>1, <4>1, <5>1 DEF TypeOK
      <4>2. CASE ~Given(One)
        BY <2>4, <4>2 DEF PushLast, TypeOK
      <4> QED
        BY <4>1, <4>2
    <3> QED
      BY <2>4, <3>1, <3>2 DEF PushLast, TypeOK
  <2>5. ASSUME EmitParam PROVE TypeOK'
    <3>1. k \in DOMAIN inputs /\ inputs[k] \in Input /\ k \in Nat
      BY <2>5 DEF EmitParam, TypeOK
    <3>2. NativeParams(inputs[k]) \in Seq(Slot) /\ CallArgs(inputs[k]) \in Seq(CallArg)
      BY ONLY <3>1, NativeParamsFacts, CallArgsFacts
    <3>3. WrapperParams(inputs[k]) \in Seq(Form)
      <4>1. Camel(inputs[k].name) \in Form
        BY <3>1, FormTypes DEF Input
      <4> QED
        BY <4>1 DEF WrapperParams
    <3>4. native' \in Seq(Slot)
      BY <2>5, <3>2 DEF EmitParam, TypeOK, Slot
    <3>5. call' \in Seq(CallArg) /\ wrapper' \in Seq(Form)
      <4>1. CASE Wrapped
        <5>1. wrapper' = wrapper \o WrapperParams(inputs[k]) /\ call' = call \o CallArgs(inputs[k])
          BY <2>5, <4>1 DEF EmitParam
        <5> QED
          BY <3>2, <3>3, <5>1 DEF TypeOK, CallArg
      <4>2. CASE ~Wrapped
        BY <2>5, <4>2 DEF EmitParam, TypeOK, CallArg
      <4> QED
        BY <4>1, <4>2
    <3> QED
      BY <2>5, <3>4, <3>5 DEF EmitParam, TypeOK, Slot, CallArg
  <2>6. ASSUME EmitDelegateParam PROVE TypeOK'
    <3>1. k \in DOMAIN inputs /\ inputs[k] \in Input /\ k \in Nat
      BY <2>6 DEF EmitDelegateParam, TypeOK
    <3>2. DelegateParams(inputs[k]) \in Seq(Slot) /\ CallArgs(inputs[k]) \in Seq(CallArg)
      BY ONLY <3>1, DelegateParamsFacts, CallArgsFacts
    <3>3. native' \in Seq(Slot)
      BY <2>6, <3>2 DEF EmitDelegateParam, TypeOK, Slot
    <3>4. call' \in Seq(CallArg)
      BY <2>6, <3>2 DEF EmitDelegateParam, TypeOK, CallArg
    <3> QED
      BY <2>6, <3>3, <3>4 DEF EmitDelegateParam, TypeOK, Slot, CallArg
  <2>7. ASSUME EmitPanics PROVE TypeOK'
    BY <2>7 DEF EmitPanics, TypeOK
  <2>8. ASSUME Emitted PROVE TypeOK'
    BY <2>8 DEF Emitted, TypeOK
  <2>9. ASSUME UNCHANGED vars PROVE TypeOK'
    BY <2>9 DEF vars, TypeOK
  <2> QED
    BY <2>1, <2>2, <2>3, <2>4, <2>5, <2>6, <2>7, <2>8, <2>9 DEF Next
<1> QED
  BY <1>1, <1>2, PTL DEF Spec

-----------------------------------------------------------------------------
(* One more input, made from the one or two parameters at the edge. *)
LEMMA PushFold ==
  ASSUME TypeOK, FoldInv, pc = "pair", One \in DOMAIN params,
         NEW input \in Input,
         inputs' = Append(inputs, input), starts' = Append(starts, One), params' = params,
         input = IF Given(Two) /\ Pairs(params[One], params[Two])
                 THEN ArrayOf(params[One]) ELSE params[One],
         Edge' = One + Width(input)
  PROVE  FoldInv'
<1> DEFINE pair == Given(One + 1) /\ Pairs(params[One], params[One + 1])
<1>1. PICK L \in Nat : L = Len(inputs)
  BY DEF TypeOK
<1>2. /\ One \in Nat \ {0} /\ Two = One + 1 /\ Edge = One /\ params[One] \in Decl
      /\ Width(input) \in {1, 2}
  BY Positions, InputTypes DEF Edge, Given
<1>3. (IsArray(input) <=> pair) /\ Width(input) = IF pair THEN 2 ELSE 1
  BY <1>2, InputTypes DEF Width, ArrayOf, IsArray
<1>4. /\ DOMAIN inputs = 1..L /\ DOMAIN starts = 1..L
      /\ DOMAIN inputs' = 1..(L + 1) /\ DOMAIN starts' = 1..(L + 1)
      /\ \A j \in 1..L : inputs'[j] = inputs[j] /\ starts'[j] = starts[j] /\ starts[j] \in Nat
      /\ inputs'[L + 1] = input /\ starts'[L + 1] = One
  <2>1. Len(starts) = L
    BY <1>1 DEF TypeOK, FoldInv
  <2>2. inputs \in Seq(Input) /\ starts \in Seq(Nat)
    BY DEF TypeOK
  <2>3. PICK one \in Nat : one = One
    BY <1>2
  <2>4. /\ DOMAIN inputs = 1..L /\ DOMAIN inputs' = 1..(L + 1) /\ inputs'[L + 1] = input
        /\ \A j \in 1..L : inputs'[j] = inputs[j]
    BY <1>1, <2>2
  <2>5. /\ DOMAIN starts = 1..L /\ DOMAIN starts' = 1..(L + 1) /\ starts'[L + 1] = One
        /\ \A j \in 1..L : starts'[j] = starts[j] /\ starts[j] \in Nat
    <3>1. starts' = Append(starts, one)
      BY <2>3
    <3>2. /\ DOMAIN starts' = 1..(L + 1) /\ starts'[L + 1] = one
          /\ \A j \in 1..L : starts'[j] = starts[j]
      BY <2>1, <2>2, <2>3, <3>1
    <3> QED
      BY <2>1, <2>2, <2>3, <3>2
  <2> QED
    BY <2>4, <2>5
<1>5. \A j \in 1..(L + 1) : From(j)' = From(j)
  BY <1>2, <1>4 DEF From
<1>6. From(L + 2)' = One + Width(input)
  BY <1>4 DEF From
<1>7. From(1)' = 1
  BY <1>4, <1>5 DEF FoldInv
<1>8. ASSUME NEW j \in DOMAIN inputs' PROVE Stands(j)'
  <2>1. CASE j \in 1..L
    <3>1. Stands(j) /\ From(j + 1)' = From(j + 1)
      BY <1>4, <1>5, <2>1 DEF FoldInv
    <3> QED
      BY <1>4, <2>1, <3>1 DEF Stands, Given
  <2>2. CASE j = L + 1
    <3>1. inputs'[j] = input /\ starts'[j] = One /\ j + 1 = L + 2
      BY <1>4, <2>2
    <3>2. input = IF pair THEN ArrayOf(params[One]) ELSE params[One]
      BY <1>2
    <3>3. From(j + 1)' = starts'[j] + Width(inputs'[j])
      BY <1>6, <3>1
    <3>4. starts'[j] + 1 <= Len(params') /\ Pairs(params'[starts'[j]], params'[starts'[j] + 1]) <=> pair
      BY <3>1 DEF Given
    <3>5. starts'[j] \in DOMAIN params' /\ (IsArray(inputs'[j]) <=> pair)
      BY <1>3, <3>1
    <3>6. inputs'[j] = IF pair THEN ArrayOf(params'[starts'[j]]) ELSE params'[starts'[j]]
      BY <3>1, <3>2
    <3> HIDE DEF pair
    <3> QED
      BY <3>3, <3>4, <3>5, <3>6 DEF Stands, Given
  <2> QED
    BY <1>4, <1>8, <2>1, <2>2
<1>9. ASSUME NEW i \in 1..(Edge' - 1)
      PROVE  \E j \in DOMAIN inputs' :
                i = starts'[j] \/ (IsArray(inputs'[j]) /\ i = starts'[j] + 1)
  <2>1. CASE i < One
    <3>1. PICK j \in DOMAIN inputs : i = starts[j] \/ (IsArray(inputs[j]) /\ i = starts[j] + 1)
      BY <1>2, <2>1 DEF FoldInv
    <3> QED
      BY <1>4, <3>1
  <2>2. CASE i = One
    BY <1>4, <2>2
  <2>3. CASE i > One
    <3>1. i = One + 1 /\ IsArray(input)
      BY <1>2, <1>3, <2>3
    <3> QED
      BY <1>4, <3>1
  <2> QED
    <3>1. i < One \/ i = One \/ i > One
      BY <1>2
    <3> QED
      BY <2>1, <2>2, <2>3, <3>1
<1> QED
  BY <1>4, <1>7, <1>8, <1>9 DEF FoldInv

(* The folding loop, from the first parameter to the last. *)
LEMMA Folding == Spec => []FoldInv
<1>1. Init => FoldInv
  <2> SUFFICES ASSUME Init PROVE FoldInv
    OBVIOUS
  <2>1. One = 1 /\ Edge = 1 /\ From(1) = 1
    BY DEF Init, One, Edge, From
  <2> QED
    BY <2>1 DEF Init, FoldInv
<1>2. TypeOK /\ TypeOK' /\ FoldInv /\ [Next]_vars => FoldInv'
  <2> SUFFICES ASSUME TypeOK, TypeOK', FoldInv, [Next]_vars PROVE FoldInv'
    OBVIOUS
  <2> USE DEF emission
  <2>1. ASSUME params' = params, inputs' = inputs, starts' = starts, Edge' = Edge
        PROVE  FoldInv'
    <3>1. \A j : From(j)' = From(j)
      BY <2>1 DEF From
    <3>2. \A j : Stands(j)' <=> Stands(j)
      BY <2>1, <3>1 DEF Stands, Given
    <3> QED
      BY <2>1, <3>1, <3>2 DEF FoldInv
  <2>2. ASSUME Refuse PROVE FoldInv'
    BY <2>1, <2>2 DEF Refuse, Edge, One
  <2>3. ASSUME PushArray PROVE FoldInv'
    <3>1. /\ pc = "pair" /\ Given(Two) /\ Pairs(params[One], params[Two])
          /\ pc' = "pair" /\ params' = params /\ carry' = 0 /\ next' = Two + 1
          /\ inputs' = Append(inputs, ArrayOf(params[One])) /\ starts' = Append(starts, One)
      BY <2>3 DEF PushArray, Push
    <3>2. One \in DOMAIN params /\ Two = One + 1 /\ params[One] \in Decl /\ One \in Nat
      <4>1. params \in Seq(Decl)
        BY DEF TypeOK
      <4>2. One \in DOMAIN params /\ Two = One + 1 /\ One \in Nat
        BY <3>1, <4>1, Positions DEF Given
      <4> QED
        BY <4>1, <4>2
    <3>3. ArrayOf(params[One]) \in Input /\ Width(ArrayOf(params[One])) = 2
      BY <3>2, InputTypes DEF Width, IsArray, ArrayOf
    <3>4. Edge' = One + 2
      BY <3>1, <3>2 DEF Edge, One
    <3> QED
      BY <3>1, <3>2, <3>3, <3>4, PushFold
  <2>4. ASSUME PushOne PROVE FoldInv'
    <3>1. /\ pc = "pair" /\ Given(Two) /\ ~Pairs(params[One], params[Two])
          /\ pc' = "pair" /\ params' = params /\ carry' = Two /\ next' = Two + 1
          /\ inputs' = Append(inputs, params[One]) /\ starts' = Append(starts, One)
      BY <2>4 DEF PushOne, Push
    <3>2. One \in DOMAIN params /\ Two = One + 1 /\ params[One] \in Decl /\ One \in Nat \ {0}
      BY <3>1, Positions
    <3>3. params[One] \in Input /\ Width(params[One]) = 1
      BY <3>2, InputTypes DEF Width
    <3>4. Edge' = One + 1
      BY <3>1, <3>2 DEF Edge, One
    <3> QED
      BY <3>1, <3>2, <3>3, <3>4, PushFold
  <2>5. ASSUME PushLast PROVE FoldInv'
    <3>1. pc = "pair" /\ ~Given(Two) /\ pc' = "emit" /\ params' = params
      BY <2>5 DEF PushLast
    <3>2. /\ Two = One + 1 /\ One \in Nat \ {0} /\ One <= Len(params) + 1
          /\ Len(params) \in Nat /\ DOMAIN params = 1..Len(params)
      BY <3>1, Positions
    <3>3. /\ Two = One + 1 /\ One \in Nat \ {0} /\ One <= Len(params) + 1
          /\ Edge' = Len(params) + 1 /\ Edge = One /\ Len(params) \in Nat
      BY <3>1, <3>2 DEF Edge
    <3>4. CASE Given(One)
      <4>1. inputs' = Append(inputs, params[One]) /\ starts' = Append(starts, One)
        BY <2>5, <3>4 DEF PushLast, Push
      <4>2. One \in DOMAIN params /\ params[One] \in Decl /\ Len(params) = One
        <5>1. One \in DOMAIN params /\ params[One] \in Decl
          BY <3>1, <3>4, Positions
        <5>2. One <= Len(params)
          BY <3>2, <5>1
        <5>3. ~(One + 1 <= Len(params))
          BY <3>1, <3>2 DEF Given
        <5>4. PICK o \in Nat : o = One
          BY <3>2
        <5>5. PICK l \in Nat : l = Len(params)
          BY <3>2
        <5>6. o <= l /\ ~(o + 1 <= l)
          BY <5>2, <5>3, <5>4, <5>5
        <5> QED
          BY <5>1, <5>4, <5>5, <5>6
      <4>3. params[One] \in Input /\ Width(params[One]) = 1
        BY <4>2, InputTypes DEF Width
      <4> QED
        BY <3>1, <3>3, <4>1, <4>2, <4>3, PushFold
    <3>5. CASE ~Given(One)
      <4>1. Edge' = Edge
        BY <3>3, <3>5 DEF Given
      <4> QED
        BY <2>1, <2>5, <3>5, <4>1 DEF PushLast
    <3> QED
      BY <3>4, <3>5
  <2>6. ASSUME EmitParam \/ EmitDelegateParam \/ EmitPanics \/ Emitted PROVE FoldInv'
    BY <2>1, <2>6 DEF EmitParam, EmitDelegateParam, EmitPanics, Emitted, Edge
  <2>7. ASSUME UNCHANGED vars PROVE FoldInv'
    BY <2>1, <2>7 DEF vars, Edge, One
  <2> QED
    BY <2>2, <2>3, <2>4, <2>5, <2>6, <2>7 DEF Next
<1> QED
  BY <1>1, <1>2, TypeCorrect, PTL DEF Spec

(* transform_function misses no pair: a length is never left behind because the *)
(* parameter before its pointer was looked at together with the pointer.         *)
THEOREM NoPairIsMissed == Spec => []NoPairMissed
<1>1. TypeOK /\ FoldInv => NoPairMissed
  <2> SUFFICES ASSUME TypeOK, FoldInv, pc \in {"emit", "done"},
                      NEW i \in 1..(Len(params) - 1), Pairs(params[i], params[i + 1])
               PROVE  \E j \in DOMAIN inputs : starts[j] = i /\ IsArray(inputs[j])
    BY DEF NoPairMissed
  <2>1. Edge = Len(params) + 1 /\ i \in 1..(Edge - 1) /\ Given(i + 1)
    BY DEF Edge, Given, TypeOK
  <2>2. PICK j \in DOMAIN inputs : i = starts[j] \/ (IsArray(inputs[j]) /\ i = starts[j] + 1)
    BY <2>1 DEF FoldInv
  <2>3. Stands(j)
    BY DEF FoldInv
  <2>4. CASE i = starts[j]
    BY <2>1, <2>3, <2>4 DEF Stands
  <2>5. CASE IsArray(inputs[j]) /\ i = starts[j] + 1
    <3>1. params[i].kind = "usize"
      BY <2>3, <2>5 DEF Stands, Pairs
    <3> QED
      BY <3>1 DEF Pairs, IsPointer
  <2> QED
    BY <2>2, <2>4, <2>5
<1> QED
  BY <1>1, TypeCorrect, Folding, PTL

-----------------------------------------------------------------------------
(* An input unfolds into parameters like those that it was made from. *)
LEMMA Unfolds ==
  ASSUME TypeOK, NEW j \in DOMAIN inputs, Stands(j)
  PROVE  /\ starts[j] \in DOMAIN params /\ inputs[j] \in Input
         /\ Repr(params[starts[j]].kind) = Repr(inputs[j].kind)
         /\ params[starts[j]].name.stem = inputs[j].name.stem
         /\ IsArray(inputs[j]) =>
              /\ starts[j] + 1 \in DOMAIN params
              /\ Repr(params[starts[j] + 1].kind) = "ulong"
              /\ params[starts[j] + 1].name.stem = inputs[j].name.stem
<1> DEFINE i == starts[j]
           pair == Given(i + 1) /\ Pairs(params[i], params[i + 1])
<1>1. /\ i \in DOMAIN params /\ inputs[j] \in Input
      /\ inputs[j] = IF pair THEN ArrayOf(params[i]) ELSE params[i]
      /\ IsArray(inputs[j]) <=> pair
  BY DEF Stands, TypeOK
<1>2. CASE pair
  <2>1. /\ inputs[j].name.stem = params[i].name.stem
        /\ inputs[j].kind \in {"array", "voidArray"}
    BY <1>1, <1>2 DEF ArrayOf
  <2>2. /\ params[i].kind \in {"pointer", "void"}
        /\ params[i + 1].kind = "usize"
        /\ params[i + 1].name.stem = params[i].name.stem
    BY <1>2 DEF Pairs, IsPointer
  <2>3. Repr(inputs[j].kind) = "address" /\ Repr(params[i].kind) = "address"
        /\ Repr(params[i + 1].kind) = "ulong"
    BY <2>1, <2>2 DEF Repr
  <2>4. i + 1 \in DOMAIN params
    BY <1>1, <1>2 DEF Given, TypeOK
  <2> QED
    BY <1>1, <2>1, <2>2, <2>3, <2>4
<1>3. CASE ~pair
  BY <1>1, <1>3
<1> QED
  BY <1>2, <1>3

(* One input is emitted: the declaration reaches the parameters of the next. *)
LEMMA ConcatParts ==
  ASSUME NEW S, NEW a \in Seq(S), NEW b \in Seq(S)
  PROVE  /\ Len(a \o b) = Len(a) + Len(b) /\ DOMAIN (a \o b) = 1..(Len(a) + Len(b))
         /\ \A i \in 1..Len(a) : (a \o b)[i] = a[i]
         /\ \A m \in 1..Len(b) : (a \o b)[Len(a) + m] = b[m]
<1>1. \A m \in 1..Len(b) : (a \o b)[Len(a) + m] = b[m]
  <2>1. ASSUME NEW m \in 1..Len(b)
        PROVE  Len(a) + m \in 1..(Len(a) + Len(b)) /\ ~(Len(a) + m <= Len(a))
               /\ Len(a) + m - Len(a) = m
    OBVIOUS
  <2> QED
    BY <2>1, ConcatProperties
<1> QED
  BY <1>1, ConcatProperties

LEMMA EmitStep ==
  ASSUME TypeOK, FoldInv, EmitInv, k \in DOMAIN inputs,
         NEW new \in Seq(Slot), Len(new) = Width(inputs[k]),
         new[1].repr = Repr(inputs[k].kind),
         IsArray(inputs[k]) => new[2].repr = "ulong",
         \A m \in 1..Width(inputs[k]) : new[m].name.stem = inputs[k].name.stem
  PROVE  /\ Len(native \o new) = From(k + 1) - 1
         /\ \A i \in DOMAIN (native \o new) :
              /\ (native \o new)[i].repr = Repr(params[i].kind)
              /\ (native \o new)[i].name.stem = params[i].name.stem
<1> DEFINE s == starts[k]
           w == Width(inputs[k])
<1>1. Stands(k) /\ inputs[k] \in Input /\ w \in {1, 2} /\ (w = 2 <=> IsArray(inputs[k]))
  BY InputTypes DEF FoldInv, TypeOK, Width
<1>2. /\ s \in Nat \ {0} /\ Len(native) = s - 1 /\ From(k + 1) = s + w
      /\ native \in Seq(Slot)
  <2>1. s \in Nat \ {0} /\ From(k + 1) = s + w
    <3>1. s \in DOMAIN params /\ From(k + 1) = s + w
      BY <1>1 DEF Stands
    <3>2. DOMAIN params = 1..Len(params) /\ Len(params) \in Nat
      BY DEF TypeOK
    <3> QED
      BY <3>1, <3>2
  <2>2. From(k) = s /\ Len(native) = From(k) - 1
    BY DEF From, EmitInv
  <2> QED
    BY <2>1, <2>2 DEF TypeOK, Slot
<1> HIDE DEF s, w
<1>3. /\ Len(native \o new) = s - 1 + w
      /\ DOMAIN (native \o new) = 1..(s - 1 + w)
      /\ \A i \in 1..(s - 1) : (native \o new)[i] = native[i]
      /\ \A m \in 1..w : (native \o new)[s - 1 + m] = new[m]
  <2>1. Len(new) = w
    BY DEF w
  <2>2. Len(native) + Len(new) = s - 1 + w
    BY <1>2, <2>1
  <2>3. /\ Len(native \o new) = Len(native) + Len(new)
        /\ DOMAIN (native \o new) = 1..(Len(native) + Len(new))
        /\ \A i \in 1..Len(native) : (native \o new)[i] = native[i]
        /\ \A m \in 1..Len(new) : (native \o new)[Len(native) + m] = new[m]
    <3>1. native \in Seq(Slot) /\ new \in Seq(Slot)
      BY <1>2
    <3> QED
      BY ONLY <3>1, ConcatParts
  <2> QED
    BY ONLY <1>2, <2>1, <2>2, <2>3
<1>4. ASSUME NEW i \in 1..(s - 1 + w)
      PROVE  /\ (native \o new)[i].repr = Repr(params[i].kind)
             /\ (native \o new)[i].name.stem = params[i].name.stem
  <2>1. CASE i \in 1..(s - 1)
    <3>1. i \in DOMAIN native
      BY <1>2, <2>1
    <3> QED
      BY <1>3, <2>1, <3>1 DEF EmitInv
  <2>2. CASE i = s
    <3>1. (native \o new)[i] = new[1]
      BY <1>1, <1>2, <1>3, <2>2
    <3>2. new[1].name.stem = inputs[k].name.stem
      BY <1>1 DEF w
    <3> QED
      BY <1>1, <2>2, <3>1, <3>2, Unfolds DEF s
  <2>3. CASE i = s + 1 /\ w = 2
    <3>1. (native \o new)[i] = new[2]
      BY <1>1, <1>2, <1>3, <2>3
    <3>2. new[2].name.stem = inputs[k].name.stem
      BY <1>1, <2>3 DEF w
    <3> QED
      BY <1>1, <2>3, <3>1, <3>2, Unfolds DEF s
  <2>4. i \in 1..(s - 1) \/ i = s \/ (i = s + 1 /\ w = 2)
    BY <1>1, <1>2
  <2> QED
    BY <2>1, <2>2, <2>3, <2>4
<1>5. Len(native \o new) = From(k + 1) - 1
  BY <1>1, <1>2, <1>3
<1> QED
  BY <1>3, <1>4, <1>5

(* The emitting loops, side by side. *)
LEMMA Emitting == Spec => [](EmitInv /\ CallInv)
<1> DEFINE Inv == EmitInv /\ CallInv
<1>1. Init => Inv
  <2> SUFFICES ASSUME Init PROVE Inv
    OBVIOUS
  <2>1. Edge = 1 /\ From(1) = 1
    BY DEF Init, Edge, One, From
  <2> QED
    BY <2>1 DEF Init, EmitInv, CallInv
<1>2. TypeOK /\ TypeOK' /\ FoldInv /\ FoldInv' /\ Inv /\ [Next]_vars => Inv'
  <2> SUFFICES ASSUME TypeOK, TypeOK', FoldInv, FoldInv', EmitInv, CallInv, [Next]_vars
               PROVE  Inv'
    OBVIOUS
  <2> USE DEF emission
  <2>1. ASSUME k' = 1, native' = <<>>, call' = <<>>, pc' \in {"pair", "refused", "emit"}
        PROVE  Inv'
    <3>1. From(1)' = 1
      BY DEF FoldInv
    <3>2. From(k)' = 1
      BY <2>1, <3>1 DEF From
    <3>3. Len(inputs') \in Nat
      BY DEF TypeOK
    <3> QED
      BY <2>1, <3>2, <3>3 DEF EmitInv, CallInv
  <2>2. ASSUME pc \in {"pair", "refused"} PROVE k = 1 /\ native = <<>> /\ call = <<>>
    BY <2>2 DEF EmitInv
  <2>3. ASSUME Refuse \/ PushArray \/ PushOne \/ PushLast PROVE Inv'
    BY <2>1, <2>2, <2>3 DEF Refuse, PushArray, PushOne, PushLast
  <2>4. ASSUME k \in DOMAIN inputs, k' = k + 1, pc = "emit", pc' = "emit",
               UNCHANGED <<params, inputs, starts>>,
               NEW new \in Seq(Slot), Len(new) = Width(inputs[k]), native' = native \o new,
               new[1].repr = Repr(inputs[k].kind),
               IsArray(inputs[k]) => new[2].repr = "ulong",
               \A m \in 1..Width(inputs[k]) : new[m].name.stem = inputs[k].name.stem
        PROVE  EmitInv'
    <3>1. /\ Len(native') = From(k + 1) - 1
          /\ \A i \in DOMAIN native' : /\ native'[i].repr = Repr(params[i].kind)
                                     /\ native'[i].name.stem = params[i].name.stem
      BY <2>4, EmitStep
    <3>2. Edge' = Edge
      BY <2>4 DEF Edge
    <3>3. \A j : From(j)' = From(j)
      BY <2>4, <3>2 DEF From
    <3>4. k \in 1..Len(inputs) /\ Len(inputs) \in Nat
      <4>1. inputs \in Seq(Input)
        BY DEF TypeOK
      <4> QED
        BY <2>4, <4>1
    <3>5. From(k)' = From(k + 1)
      BY <2>4, <3>2 DEF From
    <3>6. k + 1 \in 1..(Len(inputs) + 1) /\ k + 1 # 1
      BY <3>4
    <3> QED
      BY <2>4, <3>1, <3>5, <3>6 DEF EmitInv
  <2>5. ASSUME EmitParam PROVE Inv'
    <3> DEFINE in == inputs[k]
    <3>1. /\ pc = "emit" /\ pc' = "emit" /\ k \in DOMAIN inputs /\ k' = k + 1
          /\ UNCHANGED <<params, inputs, starts, role>>
          /\ native' = native \o NativeParams(in) /\ in \in Input /\ k \in Nat
      BY <2>5 DEF EmitParam, TypeOK
    <3>2. /\ NativeParams(in) \in Seq(Slot) /\ Len(NativeParams(in)) = Width(in)
          /\ NativeParams(in)[1].repr = Repr(in.kind)
          /\ IsArray(in) => NativeParams(in)[2].repr = "ulong"
          /\ \A m \in 1..Width(in) : NativeParams(in)[m].name.stem = in.name.stem
      BY <3>1, NativeParamsFacts
    <3>3. EmitInv'
      BY <2>4, <3>1, <3>2
    <3>4. CallInv'
      <4> SUFFICES ASSUME role = "function", Wrapped PROVE CallInv'
        BY <3>1 DEF CallInv, Wrapped
      <4>1. call' = call \o CallArgs(in)
        BY <2>5 DEF EmitParam
      <4>2. /\ CallArgs(in) \in Seq(CallArg) /\ Len(CallArgs(in)) = Width(in)
            /\ CallArgs(in)[1].repr = Repr(in.kind)
            /\ IsArray(in) => CallArgs(in)[2].repr = "ulong"
            /\ \A m \in 1..Width(in) : CallArgs(in)[m].of.word.stem = in.name.stem
        BY <3>1, CallArgsFacts
      <4>3. Width(in) = IF IsArray(in) THEN 2 ELSE 1
        BY DEF Width
      <4>4. /\ native \in Seq(Slot) /\ call \in Seq(CallArg) /\ Len(call) = Len(native)
            /\ \A i \in 1..Len(call) : call[i].repr = native[i].repr
                                     /\ call[i].of.word.stem = native[i].name.stem
        <5>1. native \in Seq(Slot) /\ call \in Seq(CallArg)
          BY DEF TypeOK, Slot, CallArg
        <5>2. DOMAIN call = 1..Len(call)
          BY <5>1
        <5> QED
          BY <5>1, <5>2 DEF CallInv
      <4> HIDE DEF in
      <4>5. /\ Len(native') = Len(native) + Width(in)
            /\ \A i \in 1..Len(native) : native'[i] = native[i]
            /\ \A m \in 1..Width(in) : native'[Len(native) + m] = NativeParams(in)[m]
        <5>1. native \in Seq(Slot) /\ NativeParams(in) \in Seq(Slot)
          BY <3>2, <4>4
        <5>2. native' = native \o NativeParams(in) /\ Len(NativeParams(in)) = Width(in)
          BY <3>1, <3>2
        <5>3. \A b \in Seq(Slot) :
                /\ Len(native \o b) = Len(native) + Len(b)
                /\ \A i \in 1..Len(native) : (native \o b)[i] = native[i]
                /\ \A m \in 1..Len(b) : (native \o b)[Len(native) + m] = b[m]
          BY ONLY <5>1, ConcatParts
        <5> QED
          BY ONLY <5>1, <5>2, <5>3
      <4>6. /\ Len(call') = Len(call) + Width(in) /\ DOMAIN call' = 1..(Len(call) + Width(in))
            /\ \A i \in 1..Len(call) : call'[i] = call[i]
            /\ \A m \in 1..Width(in) : call'[Len(call) + m] = CallArgs(in)[m]
        <5>1. call \in Seq(CallArg) /\ CallArgs(in) \in Seq(CallArg)
          BY <4>2, <4>4
        <5>2. call' = call \o CallArgs(in) /\ Len(CallArgs(in)) = Width(in)
          BY <4>1, <4>2
        <5> QED
          BY ONLY <5>1, <5>2, ConcatParts
      <4>7. ASSUME NEW i \in DOMAIN call'
            PROVE  call'[i].repr = native'[i].repr
                   /\ call'[i].of.word.stem = native'[i].name.stem
        <5>1. CASE i \in 1..Len(call)
          BY <4>4, <4>5, <4>6, <5>1
        <5>2. CASE i = Len(call) + 1
          BY <3>2, <4>2, <4>3, <4>4, <4>5, <4>6, <5>2
        <5>3. CASE i = Len(call) + 2 /\ IsArray(in)
          BY <3>2, <4>2, <4>3, <4>4, <4>5, <4>6, <5>3
        <5>4. i \in 1..Len(call) \/ i = Len(call) + 1 \/ (i = Len(call) + 2 /\ IsArray(in))
          BY <4>3, <4>4, <4>6
        <5> QED
          BY <5>1, <5>2, <5>3, <5>4
      <4>8. Len(call') = Len(native')
        BY <4>4, <4>5, <4>6
      <4> QED
        BY <4>7, <4>8 DEF CallInv
    <3> QED
      BY <3>3, <3>4
  <2>6. ASSUME EmitDelegateParam PROVE Inv'
    <3> DEFINE in == inputs[k]
    <3>1. /\ pc = "emit" /\ pc' = "emit" /\ k \in DOMAIN inputs /\ k' = k + 1
          /\ UNCHANGED <<params, inputs, starts>> /\ role' # "function"
          /\ native' = native \o DelegateParams(in) /\ in \in Input
      BY <2>6 DEF EmitDelegateParam, TypeOK
    <3>2. /\ DelegateParams(in) \in Seq(Slot) /\ Len(DelegateParams(in)) = Width(in)
          /\ DelegateParams(in)[1].repr = Repr(in.kind)
          /\ IsArray(in) => DelegateParams(in)[2].repr = "ulong"
          /\ \A m \in 1..Width(in) : DelegateParams(in)[m].name.stem = in.name.stem
      BY <3>1, DelegateParamsFacts
    <3>3. EmitInv'
      BY <2>4, <3>1, <3>2
    <3> QED
      BY <3>1, <3>3 DEF CallInv
  <2>7. ASSUME EmitPanics \/ Emitted \/ UNCHANGED vars PROVE Inv'
    <3>1. /\ UNCHANGED <<params, inputs, starts, k, native, call, role>>
          /\ pc' = "done" => k > Len(inputs) \/ pc = "done"
          /\ pc' \in {"pair", "refused"} => pc = pc'
          /\ pc \in {"pair", "refused"} => pc = pc' /\ next' = next /\ carry' = carry
      BY <2>7 DEF EmitPanics, Emitted, vars
    <3>2. Edge' = Edge
      BY <3>1 DEF Edge, One
    <3>3. \A j : From(j)' = From(j)
      BY <3>1, <3>2 DEF From
    <3>4. Wrapped' <=> Wrapped
      BY <3>1 DEF Wrapped
    <3>5. Len(inputs) \in Nat /\ k \in Nat
      BY DEF TypeOK
    <3>6. CallInv'
      BY <3>1, <3>4 DEF CallInv
    <3>7. EmitInv'
      BY <3>1, <3>3, <3>5 DEF EmitInv
    <3> QED
      BY <3>6, <3>7
  <2> QED
    BY <2>3, <2>5, <2>6, <2>7 DEF Next
<1> QED
  BY <1>1, <1>2, TypeCorrect, Folding, PTL DEF Spec

(* The declaration, or the delegate, has the parameters of the Rust function. *)
THEOREM AbiIsPreserved == Spec => []AbiPreserved
<1>1. TypeOK /\ EmitInv => AbiPreserved
  <2> SUFFICES ASSUME TypeOK, EmitInv, pc = "done"
               PROVE  /\ Len(native) = Len(params)
                      /\ \A i \in DOMAIN params :
                           /\ native[i].repr = Repr(params[i].kind)
                           /\ native[i].name.stem = params[i].name.stem
    BY DEF AbiPreserved
  <2>1. k = Len(inputs) + 1 /\ Len(inputs) \in Nat /\ Len(params) \in Nat
    BY DEF EmitInv, TypeOK
  <2>2. From(k) = Len(params) + 1
    BY <2>1 DEF From, Edge, TypeOK
  <2>3. Len(native) = Len(params)
    BY <2>1, <2>2 DEF EmitInv
  <2> QED
    BY <2>3 DEF EmitInv, TypeOK
<1> QED
  BY <1>1, TypeCorrect, Emitting, PTL

(* The call passes what the declaration declares. *)
THEOREM CallMatches == Spec => []CallMatchesDeclaration
<1>1. CallInv => CallMatchesDeclaration
  BY DEF CallInv, CallMatchesDeclaration
<1> QED
  BY <1>1, Emitting, PTL

-----------------------------------------------------------------------------
(* The position an array is given, as long as none stands before it. *)
LEMMA SizeStep ==
  ASSUME TypeOK, SizeInv, NEW s \in Input, NEW new \in Seq(Slot),
         native' = native \o new, k' = k + 1, role' = role,
         \/ /\ role = "function" /\ IsArray(s) /\ Len(new) = 2
            /\ new[1].name = s.name /\ new[1].sizeIndex = k
            /\ new[2].name = LengthOf(s) /\ new[2].sizeIndex = 0
         \/ role = "function" /\ Len(new) = 1 /\ new[1].sizeIndex = 0
         \/ role = "callback" /\ \A m \in 1..Len(new) : new[m].sizeIndex = 0
  PROVE  SizeInv'
<1>1. PICK n \in Nat, w \in Nat, x \in Nat \ {0} : n = Len(native) /\ w = Len(new) /\ x = k
  <2>1. Len(native) \in Nat /\ Len(new) \in Nat /\ k \in Nat \ {0}
    BY DEF TypeOK
  <2> QED
    BY <2>1
<1>2. /\ DOMAIN native = 1..n /\ DOMAIN native' = 1..(n + w) /\ Len(native') = n + w
      /\ \A i \in 1..n : native'[i] = native[i]
      /\ \A m \in 1..w : native'[n + m] = new[m]
  <2>1. native \in Seq(Slot)
    BY DEF TypeOK, Slot
  <2>2. /\ Len(native \o new) = Len(native) + Len(new)
        /\ DOMAIN (native \o new) = 1..(Len(native) + Len(new))
        /\ \A i \in 1..Len(native) : (native \o new)[i] = native[i]
        /\ \A m \in 1..Len(new) : (native \o new)[Len(native) + m] = new[m]
    BY ONLY <2>1, new \in Seq(Slot), ConcatParts
  <2> QED
    BY <1>1, <2>1, <2>2
<1> DEFINE Sized(sq, i) ==
      /\ sq[i].sizeIndex = i /\ i + 1 \in DOMAIN sq /\ sq[i + 1].name = LengthOf(sq[i])
<1>3. CASE \E i \in 1..n : native[i].sizeIndex # 0
  <2>1. PICK i \in 1..n : native[i].sizeIndex # 0
    BY <1>3
  <2>2. ~(\A j \in DOMAIN native' : native'[j].sizeIndex = 0)
    <3>1. i \in DOMAIN native' /\ native'[i] = native[i]
      BY <1>1, <1>2
    <3> QED
      BY <2>1, <3>1
  <2>3. ASSUME NEW m \in DOMAIN native', native'[m].sizeIndex # 0,
               \A j \in 1..(m - 1) : native'[j].sizeIndex = 0
        PROVE  Sized(native', m)
    <3>1. m \in 1..n
      <4>1. CASE m > n
        <5>1. i \in 1..(m - 1) /\ native'[i] = native[i]
          BY <1>1, <1>2, <4>1
        <5> QED
          BY <2>1, <2>3, <5>1
      <4> QED
        BY <1>1, <1>2, <4>1
    <3>2. \A j \in 1..(m - 1) : native[j].sizeIndex = 0
      <4>1. \A j \in 1..(m - 1) : j \in 1..n
        BY <1>1, <3>1
      <4> QED
        BY <1>2, <2>3, <4>1
    <3>3. native'[m] = native[m]
      BY <1>2, <3>1
    <3>4. /\ native[m].sizeIndex = m /\ m + 1 \in 1..n
          /\ native[m + 1].name = LengthOf(native[m])
      BY <1>2, <2>3, <3>1, <3>2, <3>3 DEF SizeInv
    <3>5. m + 1 \in 1..(n + w)
      BY <1>1, <3>4
    <3> QED
      BY <1>2, <3>3, <3>4, <3>5
  <2>4. k' # 1
    BY <1>1
  <2> QED
    BY <2>2, <2>3, <2>4 DEF SizeInv
<1>4. CASE \A i \in 1..n : native[i].sizeIndex = 0
  <2>1. role = "callback" \/ n = x - 1
    BY <1>1, <1>2, <1>4 DEF SizeInv
  <2>2. ASSUME NEW m \in DOMAIN native', native'[m].sizeIndex # 0
        PROVE  \E l \in 1..w : m = n + l /\ native'[m] = new[l]
    <3>1. ~(m \in 1..n)
      BY <1>2, <1>4, <2>2
    <3>2. m - n \in 1..w /\ m = n + (m - n)
      BY <1>1, <1>2, <3>1
    <3> QED
      BY <1>2, <3>2
  <2>3. CASE role = "callback" /\ \A m \in 1..Len(new) : new[m].sizeIndex = 0
    <3>1. \A m \in DOMAIN native' : native'[m].sizeIndex = 0
      BY <1>1, <2>2, <2>3
    <3>2. k' # 1
      BY <1>1
    <3> QED
      BY <2>3, <3>1, <3>2 DEF SizeInv
  <2>4. CASE role = "function" /\ Len(new) = 1 /\ new[1].sizeIndex = 0
    <3>1. \A m \in DOMAIN native' : native'[m].sizeIndex = 0
      BY <1>1, <2>2, <2>4
    <3>2. Len(native') = k' - 1 /\ k' # 1
      BY <1>1, <1>2, <2>1, <2>4
    <3> QED
      BY <3>1, <3>2 DEF SizeInv
  <2>5. CASE /\ role = "function" /\ IsArray(s) /\ Len(new) = 2
             /\ new[1].name = s.name /\ new[1].sizeIndex = k
             /\ new[2].name = LengthOf(s) /\ new[2].sizeIndex = 0
    <3>1. w = 2 /\ n + 1 = x /\ n + 2 = x + 1 /\ x + 1 \in 1..(n + w) /\ x \in 1..(n + w)
      BY <1>1, <2>1, <2>5
    <3>2. native'[x] = new[1] /\ native'[x + 1] = new[2]
      BY <1>2, <3>1
    <3>3. native'[x].sizeIndex # 0 /\ Sized(native', x)
      <4>1. LengthOf(native'[x]) = LengthOf(s)
        BY <2>5, <3>2 DEF LengthOf
      <4> QED
        BY <1>1, <1>2, <2>5, <3>1, <3>2, <4>1
    <3>4. \A m \in DOMAIN native' : native'[m].sizeIndex # 0 => m = x
      <4>1. \A l \in 1..w : l = 1 \/ l = 2
        BY <3>1
      <4> QED
        BY <2>2, <2>5, <3>1, <4>1
    <3>5. k' # 1
      BY <1>1
    <3> QED
      BY <1>2, <3>1, <3>3, <3>4, <3>5 DEF SizeInv
  <2> QED
    BY <2>3, <2>4, <2>5
<1> QED
  BY <1>3, <1>4

LEMMA Sizing == Spec => []SizeInv
<1>1. Init => SizeInv
  BY DEF Init, SizeInv
<1>2. TypeOK /\ EmitInv /\ SizeInv /\ [Next]_vars => SizeInv'
  <2> SUFFICES ASSUME TypeOK, EmitInv, SizeInv, [Next]_vars PROVE SizeInv'
    OBVIOUS
  <2> USE DEF emission
  <2>1. CASE Refuse \/ PushArray \/ PushOne \/ PushLast \/ EmitPanics \/ Emitted \/ UNCHANGED vars
    BY <2>1 DEF Refuse, PushArray, PushOne, PushLast, EmitPanics, Emitted, vars, SizeInv
  <2>2. CASE EmitParam
    <3>1. PICK s \in Input : s = inputs[k]
      BY <2>2 DEF EmitParam, TypeOK
    <3>2. PICK new : s = inputs[k] /\ new = NativeParams(s)
      BY <3>1
    <3>3. native' = native \o new /\ k' = k + 1 /\ role' = role /\ role = "function" /\ k \in Nat
      BY <2>2, <3>2 DEF EmitParam, TypeOK
    <3>4. new \in Seq(Slot) /\ Len(new) = Width(s)
      BY <3>2, <3>3, NativeParamsFacts
    <3>5. CASE IsArray(s)
      <4>1. new = <<[name |-> s.name, repr |-> "address", sizeIndex |-> k],
                    [name |-> LengthOf(s), repr |-> "ulong", sizeIndex |-> 0]>>
        BY <3>2, <3>5 DEF NativeParams
      <4>2. /\ new[1].name = s.name /\ new[1].sizeIndex = k
            /\ new[2].name = LengthOf(s) /\ new[2].sizeIndex = 0
        BY <4>1
      <4>3. Len(new) = 2
        BY <3>4, <3>5 DEF Width
      <4> QED
        BY <3>3, <3>4, <3>5, <4>2, <4>3, SizeStep
    <3>6. CASE ~IsArray(s)
      <4>1. new = <<[name |-> s.name, repr |-> Repr(s.kind), sizeIndex |-> 0]>>
        BY <3>2, <3>6 DEF NativeParams
      <4>2. new[1].sizeIndex = 0
        BY <4>1
      <4>3. Len(new) = 1
        BY <3>4, <3>6 DEF Width
      <4> QED
        BY <3>3, <3>4, <4>2, <4>3, SizeStep
    <3> QED
      BY <3>5, <3>6
  <2>3. CASE EmitDelegateParam
    <3>1. PICK s \in Input : s = inputs[k]
      BY <2>3 DEF EmitDelegateParam, TypeOK
    <3>2. PICK new : s = inputs[k] /\ new = DelegateParams(s)
      BY <3>1
    <3>3. native' = native \o new /\ k' = k + 1 /\ role' = role /\ role = "callback"
      BY <2>3, <3>2 DEF EmitDelegateParam, TypeOK
    <3>4. new \in Seq(Slot) /\ Len(new) = Width(s)
      BY <3>2, DelegateParamsFacts
    <3>5. \A m \in 1..Len(new) : new[m].sizeIndex = 0
      <4>1. CASE IsArray(s)
        BY <3>2, <3>4, <4>1 DEF DelegateParams, Width
      <4>2. CASE ~IsArray(s)
        BY <3>2, <3>4, <4>2 DEF DelegateParams, Width
      <4> QED
        BY <4>1, <4>2
    <3> QED
      BY <3>2, <3>3, <3>4, <3>5, SizeStep
  <2> QED
    BY <2>1, <2>2, <2>3 DEF Next
<1> QED
  BY <1>1, <1>2, TypeCorrect, Emitting, PTL DEF Spec

(* The marshaller finds the length of the first array where it is told to look. *)
THEOREM FirstArrayIsSized == Spec => []FirstArraySized
<1>1. SizeInv => FirstArraySized
  <2> SUFFICES ASSUME SizeInv, NEW i \in DOMAIN native, native[i].sizeIndex # 0,
                      \A j \in 1..(i - 1) : native[j].sizeIndex = 0
               PROVE  SizedBy(i)
    BY DEF FirstArraySized
  <2>1. /\ native[i].sizeIndex = i /\ i + 1 \in DOMAIN native
        /\ native[i + 1].name = LengthOf(native[i])
    BY DEF SizeInv
  <2> QED
    BY <2>1 DEF SizedBy
<1> QED
  BY <1>1, Sizing, PTL

-----------------------------------------------------------------------------
(* An argument of the call is written for the input it passes. *)
LEMMA ArgsOf ==
  ASSUME NEW s \in Input, NEW m \in 1..Len(CallArgs(s))
  PROVE  IsArg(CallArgs(s)[m], s)
<1>1. CASE IsArray(s)
  <2>1. CallArgs(s) = <<[of |-> Camel(s.name), repr |-> "address"],
                        [of |-> Camel(s.name), repr |-> "ulong"]>>
    BY <1>1 DEF CallArgs
  <2>2. s.kind # "native" /\ ~IsCallback(s)
    BY <1>1 DEF IsArray, IsCallback
  <2>3. ArgName(s) = Camel(s.name)
    BY <2>2 DEF ArgName
  <2>4. m = 1 \/ m = 2
    BY <2>1
  <2>5. CallArgs(s)[m].of = Camel(s.name) /\ CallArgs(s)[m].repr \in {"address", "ulong"}
    BY <2>1, <2>4
  <2> QED
    BY <2>2, <2>3, <2>5 DEF IsArg
<1>2. CASE ~IsArray(s)
  <2>1. CallArgs(s) = <<[of |-> ArgName(s), repr |-> Repr(s.kind)]>>
    BY <1>2 DEF CallArgs, ArgName
  <2>2. Repr(s.kind) = "delegate" <=> s.kind = "callback"
    BY DEF Repr
  <2>3. m = 1
    BY <2>1
  <2>4. CallArgs(s)[m].of = ArgName(s) /\ CallArgs(s)[m].repr = Repr(s.kind)
    BY <2>1, <2>3
  <2> QED
    BY <2>2, <2>4 DEF IsArg, IsCallback
<1> QED
  BY <1>1, <1>2

LEMMA Naming == Spec => []NamesInv
<1>1. Init => NamesInv
  <2> SUFFICES ASSUME Init PROVE NamesInv
    OBVIOUS
  <2>1. k = 1 /\ wrapper = <<>> /\ call = <<>> /\ 1..(k - 1) = {} /\ DOMAIN wrapper = {} /\ DOMAIN call = {}
    BY DEF Init
  <2>2. [i \in {} |-> i] \in [DOMAIN wrapper -> {j \in 1..(k - 1) : Passed(j)}]
    BY <2>1
  <2> QED
    BY <2>1, <2>2 DEF NamesInv
<1>2. TypeOK /\ TypeOK' /\ EmitInv /\ NamesInv /\ [Next]_vars => NamesInv'
  <2> SUFFICES ASSUME TypeOK, TypeOK', EmitInv, NamesInv, [Next]_vars PROVE NamesInv'
    OBVIOUS
  <2> USE DEF emission
  <2>1. CASE Refuse \/ PushArray \/ PushOne \/ PushLast
    <3>1. k = 1 /\ k' = 1 /\ wrapper' = wrapper /\ call' = call
      BY <2>1 DEF Refuse, PushArray, PushOne, PushLast, EmitInv
    <3>2. wrapper' = <<>> /\ call' = <<>> /\ 1..(k' - 1) = {} /\ DOMAIN wrapper' = {} /\ DOMAIN call' = {}
      BY <3>1 DEF NamesInv
    <3>3. [i \in {} |-> i] \in [DOMAIN wrapper' -> {j \in 1..(k' - 1) : Passed(j)'}]
      BY <3>2
    <3> QED
      BY <3>1, <3>2, <3>3 DEF NamesInv
  <2>2. CASE EmitPanics \/ Emitted \/ UNCHANGED vars
    <3>1. UNCHANGED <<inputs, k, role, wrapper, call>>
      BY <2>2 DEF EmitPanics, Emitted, vars
    <3>2. (Wrapped' <=> Wrapped) /\ \A j : Passed(j)' <=> Passed(j)
      BY <3>1 DEF Wrapped, Passed
    <3> QED
      BY <3>1, <3>2 DEF NamesInv
  <2>3. CASE EmitDelegateParam
    <3>1. role' = "callback" /\ k' # 1
      BY <2>3 DEF EmitDelegateParam, TypeOK
    <3> QED
      BY <3>1 DEF NamesInv
  <2>4. CASE EmitParam
    <3>1. /\ role = "function" /\ role' = role /\ k \in DOMAIN inputs /\ k \in Nat \ {0}
          /\ k' = k + 1 /\ inputs' = inputs /\ inputs[k] \in Input
      BY <2>4 DEF EmitParam, TypeOK
    <3>2. (Wrapped' <=> Wrapped) /\ \A j : Passed(j)' <=> Passed(j)
      BY <3>1 DEF Wrapped, Passed
    <3>3. CASE ~Wrapped
      <4>1. k' # 1
        BY <3>1
      <4> QED
        BY <3>2, <3>3, <4>1 DEF NamesInv
    <3>4. CASE Wrapped
      <4>1. wrapper' = wrapper \o WrapperParams(inputs[k]) /\ call' = call \o CallArgs(inputs[k])
        BY <2>4, <3>4 DEF EmitParam
      <4>2. PICK n \in Nat : n = Len(wrapper) /\ DOMAIN wrapper = 1..n
        BY DEF TypeOK
      <4>3. PICK from \in [1..n -> {j \in 1..(k - 1) : Passed(j)}] :
              /\ \A i \in 1..n : wrapper[i] = Camel(inputs[from[i]].name)
              /\ \A i, j \in 1..n : from[i] = from[j] => i = j
              /\ \A j \in 1..(k - 1) : Passed(j) => \E i \in 1..n : from[i] = j
        <5>1. \E from \in [DOMAIN wrapper -> {j \in 1..(k - 1) : Passed(j)}] :
                /\ \A i \in DOMAIN wrapper : wrapper[i] = Camel(inputs[from[i]].name)
                /\ \A i, j \in DOMAIN wrapper : from[i] = from[j] => i = j
                /\ \A j \in 1..(k - 1) : Passed(j) => \E i \in DOMAIN wrapper : from[i] = j
          BY <3>1, <3>4 DEF NamesInv
        <5> QED
          BY <4>2, <5>1
      <4>4. 1..k = 1..(k' - 1) /\ 1..k = 1..(k - 1) \cup {k} /\ k' # 1
        BY <3>1
      <4>5. \E more \in [DOMAIN wrapper' -> {j \in 1..k : Passed(j)}] :
              /\ \A i \in DOMAIN wrapper' : wrapper'[i] = Camel(inputs[more[i]].name)
              /\ \A i, j \in DOMAIN wrapper' : more[i] = more[j] => i = j
              /\ \A j \in 1..k : Passed(j) => \E i \in DOMAIN wrapper' : more[i] = j
        <5>1. CASE Passed(k)
          <6>1. wrapper' = wrapper \o <<Camel(inputs[k].name)>>
            BY <4>1, <5>1 DEF WrapperParams, Passed
          <6>2. DOMAIN wrapper' = 1..(n + 1) /\ wrapper'[n + 1] = Camel(inputs[k].name)
                /\ \A i \in 1..n : wrapper'[i] = wrapper[i]
            BY <4>2, <6>1 DEF TypeOK
          <6>3. PICK S, x : S = {j \in 1..(k - 1) : Passed(j)} /\ x = k
            OBVIOUS
          <6>4. x \notin S /\ S \cup {x} = {j \in 1..k : Passed(j)}
            BY <3>1, <4>4, <5>1, <6>3
          <6>5. /\ from \in [1..n -> S]
                /\ \A i, j \in 1..n : from[i] = from[j] => i = j
                /\ \A j \in S : \E i \in 1..n : from[i] = j
            BY <4>3, <6>3
          <6>6. PICK more \in [1..(n + 1) -> S \cup {x}] :
                  /\ \A i \in 1..n : more[i] = from[i]
                  /\ more[n + 1] = x
                  /\ \A i, j \in 1..(n + 1) : more[i] = more[j] => i = j
                  /\ \A j \in S \cup {x} : \E i \in 1..(n + 1) : more[i] = j
            <7> DEFINE more == [i \in 1..(n + 1) |-> IF i = n + 1 THEN x ELSE from[i]]
            <7>1. \A i \in 1..(n + 1) : i \in 1..n \/ i = n + 1
              OBVIOUS
            <7>2. \A i \in 1..n : i \in 1..(n + 1) /\ i # n + 1 /\ from[i] \in S
              BY <6>5
            <7>3. n + 1 \in 1..(n + 1) /\ x \notin S
              BY <6>4
            <7>4. (\A i \in 1..n : more[i] = from[i]) /\ more[n + 1] = x
              BY <7>2, <7>3
            <7>5. more \in [1..(n + 1) -> S \cup {x}]
              BY <7>1, <7>2
            <7> HIDE DEF more
            <7>6. \A i, j \in 1..(n + 1) : more[i] = more[j] => i = j
              BY <6>5, <7>1, <7>2, <7>3, <7>4
            <7>7. \A j \in S \cup {x} : \E i \in 1..(n + 1) : more[i] = j
              BY <6>5, <7>2, <7>3, <7>4
            <7> QED
              BY <7>4, <7>5, <7>6, <7>7
          <6>7. more \in [DOMAIN wrapper' -> {j \in 1..k : Passed(j)}]
            BY <6>2, <6>4
          <6>8. \A i \in 1..(n + 1) : i \in 1..n \/ i = n + 1
            OBVIOUS
          <6>9. \A i \in 1..(n + 1) : wrapper'[i] = Camel(inputs[more[i]].name)
            BY <4>3, <6>2, <6>3, <6>6, <6>8
          <6>10. /\ \A i \in DOMAIN wrapper' : wrapper'[i] = Camel(inputs[more[i]].name)
                 /\ \A i, j \in DOMAIN wrapper' : more[i] = more[j] => i = j
                 /\ \A j \in 1..k : Passed(j) => \E i \in DOMAIN wrapper' : more[i] = j
            BY <6>2, <6>4, <6>6, <6>9
          <6> QED
            BY <6>7, <6>10
        <5>2. CASE ~Passed(k)
          <6>1. wrapper' = wrapper
            <7>1. WrapperParams(inputs[k]) = <<>>
              BY <5>2 DEF WrapperParams, Passed
            <7> QED
              BY <4>1, <7>1 DEF TypeOK
          <6>2. {j \in 1..k : Passed(j)} = {j \in 1..(k - 1) : Passed(j)}
            BY <4>4, <5>2
          <6>3. DOMAIN wrapper' = 1..n
            BY <4>2, <6>1
          <6>4. from \in [DOMAIN wrapper' -> {j \in 1..k : Passed(j)}]
            BY <4>3, <6>2, <6>3
          <6>5. /\ \A i \in DOMAIN wrapper' : wrapper'[i] = Camel(inputs[from[i]].name)
                /\ \A i, j \in DOMAIN wrapper' : from[i] = from[j] => i = j
            BY <4>3, <6>1, <6>3
          <6>6. \A j \in 1..k : Passed(j) => \E i \in DOMAIN wrapper' : from[i] = j
            <7>1. \A j \in 1..k : Passed(j) => j \in 1..(k - 1)
              BY <4>4, <5>2
            <7> QED
              BY <4>3, <6>3, <7>1
          <6> QED
            BY <6>4, <6>5, <6>6
        <5> QED
          BY <5>1, <5>2
      <4>6. PICK c \in Nat, d \in Nat \ {0} : c = Len(call) /\ d = Len(CallArgs(inputs[k]))
        <5>1. /\ Len(CallArgs(inputs[k])) = Width(inputs[k]) /\ Width(inputs[k]) \in {1, 2}
          BY <3>1, CallArgsFacts, InputTypes
        <5>2. Len(call) \in Nat
          BY DEF TypeOK
        <5> QED
          BY <5>1, <5>2
      <4>7. /\ DOMAIN call = 1..c /\ DOMAIN call' = 1..(c + d)
            /\ \A i \in 1..c : call'[i] = call[i]
            /\ \A m \in 1..d : call'[c + m] = CallArgs(inputs[k])[m]
        <5>1. call \in Seq(CallArg) /\ CallArgs(inputs[k]) \in Seq(CallArg)
          BY <3>1, CallArgsFacts DEF TypeOK, CallArg
        <5>2. LET a == call b == CallArgs(inputs[k])
              IN  /\ Len(a \o b) = Len(a) + Len(b) /\ DOMAIN (a \o b) = 1..(Len(a) + Len(b))
                  /\ \A i \in 1..Len(a) : (a \o b)[i] = a[i]
                  /\ \A m \in 1..Len(b) : (a \o b)[Len(a) + m] = b[m]
          BY ONLY <5>1, ConcatParts
        <5> QED
          BY <4>1, <4>6, <5>1, <5>2
      <4>8. \A m \in 1..d : IsArg(call'[c + m], inputs[k])
        BY <3>1, <4>6, <4>7, ArgsOf
      <4>9. /\ \A i \in 1..c : \E j \in 1..(k - 1) : IsArg(call[i], inputs[j])
            /\ \A j \in 1..(k - 1) : \E i \in 1..c : IsArg(call[i], inputs[j])
        BY <3>1, <3>4, <4>7 DEF NamesInv
      <4>10. \A i \in 1..(c + d) : i \in 1..c \/ \E m \in 1..d : i = c + m
        <5> SUFFICES ASSUME NEW i \in 1..(c + d), i > c PROVE \E m \in 1..d : i = c + m
          OBVIOUS
        <5>1. i - c \in 1..d /\ i = c + (i - c)
          OBVIOUS
        <5> QED
          BY <5>1
      <4>11. \A i \in DOMAIN call' : \E j \in 1..k : IsArg(call'[i], inputs[j])
        <5> SUFFICES ASSUME NEW i \in 1..(c + d) PROVE \E j \in 1..k : IsArg(call'[i], inputs[j])
          BY <4>7
        <5>1. CASE i \in 1..c
          BY <4>4, <4>7, <4>9, <5>1
        <5>2. ASSUME NEW m \in 1..d, i = c + m PROVE IsArg(call'[i], inputs[k])
          BY <4>8, <5>2
        <5> QED
          BY <4>4, <4>10, <5>1, <5>2
      <4>12. \A j \in 1..k : \E i \in DOMAIN call' : IsArg(call'[i], inputs[j])
        <5>1. c + 1 \in 1..(c + d) /\ 1 \in 1..d /\ \A i \in 1..c : i \in 1..(c + d)
          OBVIOUS
        <5> QED
          BY <4>4, <4>7, <4>8, <4>9, <5>1
      <4>13. /\ {j \in 1..k : Passed(j)} = {j \in 1..(k' - 1) : Passed(j)'}
        BY <3>2, <4>4
      <4>14. \E more \in [DOMAIN wrapper' -> {j \in 1..(k' - 1) : Passed(j)'}] :
               /\ \A i \in DOMAIN wrapper' : wrapper'[i] = Camel(inputs'[more[i]].name)
               /\ \A i, j \in DOMAIN wrapper' : more[i] = more[j] => i = j
               /\ \A j \in 1..(k' - 1) : Passed(j)' => \E i \in DOMAIN wrapper' : more[i] = j
        BY <3>1, <3>2, <4>4, <4>5, <4>13
      <4>15. \A i \in DOMAIN call' : \E j \in 1..(k' - 1) : IsArg(call'[i], inputs'[j])
        BY <3>1, <4>4, <4>11
      <4>16. \A j \in 1..(k' - 1) : \E i \in DOMAIN call' : IsArg(call'[i], inputs'[j])
        BY <3>1, <4>4, <4>12
      <4> QED
        BY <4>4, <4>14, <4>15, <4>16 DEF NamesInv, IsArg, IsCallback
    <3> QED
      BY <3>3, <3>4
  <2> QED
    BY <2>1, <2>2, <2>3, <2>4 DEF Next
<1> QED
  BY <1>1, <1>2, TypeCorrect, Emitting, PTL DEF Spec

(* Names in camel case and those of twins are never mistaken for one another; a twin *)
(* is found again where both cases agree.                                             *)
LEMMA Spelling ==
  ASSUME NEW n \in Name, NEW m \in Name
  PROVE  /\ Camel(n) = Camel(m) => n = m
         /\ Camel(n) # Twin(Camel(m)) /\ Camel(n) # Twin(Written(m, "raw"))
         /\ Twin(Camel(n)) = Twin(Written(m, "raw"))
              <=> n = m /\ n.suffix = "none" /\ n.stem \notin Compound
<1>1. /\ Camel(n) \in Form /\ Camel(m) \in Form /\ Written(m, "raw") \in Form
      /\ Camel(n).word = n /\ Camel(m).word = m /\ Written(m, "raw").word = m
      /\ Camel(n).twin = FALSE /\ Camel(m).twin = FALSE
  BY DEF Camel, Written, Form
<1>2. ASSUME NEW w \in Form
      PROVE  Twin(w).word = w.word /\ Twin(w).twin = TRUE /\ Twin(w).form = w.form
  BY <1>2 DEF Twin, Form
<1>3. Camel(n).form = IF n.suffix = "none" /\ n.stem \notin Compound THEN "any" ELSE "camel"
  BY DEF Camel, Written
<1>4. Written(m, "raw").form = IF m.suffix = "none" /\ m.stem \notin Compound THEN "any" ELSE "raw"
  BY DEF Written
<1>5. CASE n = m /\ n.suffix = "none" /\ n.stem \notin Compound
  <2>1. Camel(n) = Written(m, "raw")
    BY <1>5 DEF Camel, Written
  <2> QED
    BY <1>1, <1>2, <1>5, <2>1
<1>6. CASE ~(n = m /\ n.suffix = "none" /\ n.stem \notin Compound)
  <2>1. Twin(Camel(n)).word = n /\ Twin(Written(m, "raw")).word = m
    BY <1>1, <1>2
  <2>2. /\ Twin(Camel(n)).form = Camel(n).form
        /\ Twin(Written(m, "raw")).form = Written(m, "raw").form
    BY <1>1, <1>2
  <2>3. Twin(Camel(n)) # Twin(Written(m, "raw"))
    BY <1>3, <1>4, <1>6, <2>1, <2>2
  <2> QED
    BY <1>1, <1>2, <1>6, <2>3
<1> QED
  BY <1>1, <1>2, <1>5, <1>6

(* What the wrapper declares, and what its call uses, in terms of the inputs. *)
LEMMA Declared ==
  ASSUME TypeOK, EmitInv, NamesInv, pc = "done", role = "function", Wrapped
  PROVE  /\ {wrapper[j] : j \in DOMAIN wrapper}
              = {Camel(inputs[p].name) : p \in {q \in DOMAIN inputs : Passed(q)}}
         /\ (\A i, j \in DOMAIN wrapper : wrapper[i] = wrapper[j] => i = j)
              <=> \A p, q \in DOMAIN inputs :
                     Passed(p) /\ Passed(q) /\ inputs[p].name = inputs[q].name => p = q
         /\ \A S : (\A i \in DOMAIN call : call[i].repr = "delegate" \/ call[i].of \in S)
                     <=> \A j \in DOMAIN inputs : IsCallback(inputs[j]) \/ ArgName(inputs[j]) \in S
<1>1. k = Len(inputs) + 1 /\ 1..(k - 1) = DOMAIN inputs
  BY DEF EmitInv, TypeOK
<1>2. \A p \in DOMAIN inputs : inputs[p].name \in Name
  <2>1. \A p \in DOMAIN inputs : inputs[p] \in Input
    BY DEF TypeOK
  <2> QED
    BY <2>1 DEF Input
<1>3. PICK from \in [DOMAIN wrapper -> {j \in DOMAIN inputs : Passed(j)}] :
        /\ \A i \in DOMAIN wrapper : wrapper[i] = Camel(inputs[from[i]].name)
        /\ \A i, j \in DOMAIN wrapper : from[i] = from[j] => i = j
        /\ \A j \in DOMAIN inputs : Passed(j) => \E i \in DOMAIN wrapper : from[i] = j
  <2>1. \E from \in [DOMAIN wrapper -> {j \in 1..(k - 1) : Passed(j)}] :
          /\ \A i \in DOMAIN wrapper : wrapper[i] = Camel(inputs[from[i]].name)
          /\ \A i, j \in DOMAIN wrapper : from[i] = from[j] => i = j
          /\ \A j \in 1..(k - 1) : Passed(j) => \E i \in DOMAIN wrapper : from[i] = j
    BY DEF NamesInv
  <2> QED
    BY <1>1, <2>1
<1>4. \A i \in DOMAIN wrapper : from[i] \in DOMAIN inputs /\ Passed(from[i])
  BY <1>3
<1>5. {wrapper[j] : j \in DOMAIN wrapper}
        = {Camel(inputs[p].name) : p \in {q \in DOMAIN inputs : Passed(q)}}
  BY <1>3, <1>4
<1>6. ASSUME \A i, j \in DOMAIN wrapper : wrapper[i] = wrapper[j] => i = j,
             NEW p \in DOMAIN inputs, NEW q \in DOMAIN inputs,
             Passed(p), Passed(q), inputs[p].name = inputs[q].name
      PROVE  p = q
  BY <1>3, <1>6
<1>7. ASSUME \A p, q \in DOMAIN inputs :
               Passed(p) /\ Passed(q) /\ inputs[p].name = inputs[q].name => p = q,
             NEW i \in DOMAIN wrapper, NEW j \in DOMAIN wrapper, wrapper[i] = wrapper[j]
      PROVE  i = j
  <2>1. inputs[from[i]].name = inputs[from[j]].name
    BY <1>2, <1>3, <1>4, <1>7, Spelling
  <2> QED
    BY <1>3, <1>4, <1>7, <2>1
<1>8. /\ \A i \in DOMAIN call : \E j \in DOMAIN inputs : IsArg(call[i], inputs[j])
      /\ \A j \in DOMAIN inputs : \E i \in DOMAIN call : IsArg(call[i], inputs[j])
  BY <1>1 DEF NamesInv
<1>9. \A S : (\A i \in DOMAIN call : call[i].repr = "delegate" \/ call[i].of \in S)
               <=> \A j \in DOMAIN inputs : IsCallback(inputs[j]) \/ ArgName(inputs[j]) \in S
  BY <1>8 DEF IsArg
<1> QED
  BY <1>5, <1>6, <1>7, <1>9

(* The names in a wrapper's call are declared once each for the functions described, *)
(* and for no others.                                                                *)
THEOREM CallsAreClosed == Spec => []CallIsClosed
<1>1. TypeOK /\ EmitInv /\ NamesInv => CallIsClosed
  <2> SUFFICES ASSUME TypeOK, EmitInv, NamesInv, pc = "done", role = "function", Wrapped
               PROVE  WellNamed <=> Nameable
    BY DEF CallIsClosed
  <2> DEFINE local(s) == [stem |-> s, suffix |-> "none"]
             W == {Camel(inputs[p].name) : p \in {q \in DOMAIN inputs : Passed(q)}}
  <2>1. \A p \in DOMAIN inputs : inputs[p] \in Input /\ inputs[p].name \in Name
    <3>1. \A p \in DOMAIN inputs : inputs[p] \in Input
      BY DEF TypeOK
    <3> QED
      BY <3>1 DEF Input
  <2>2. local(RetStem) \in Name /\ local(UserDataStem) \in Name /\ local(RetStem) # local(UserDataStem)
    BY StemAssumption DEF Name, Suffix
  <2>3. \A n : n \in Result <=> \/ HasCallback /\ n = Camel(local(UserDataStem))
                                \/ (HasCallback \/ output) /\ n = Camel(local(RetStem))
    BY DEF Result
  <2>4. \A n : n \in Twins <=> \E j \in DOMAIN inputs :
                 inputs[j].kind = "native" /\ n = Twin(Written(inputs[j].name, "raw"))
    BY DEF Twins
  <2>5. {wrapper[j] : j \in DOMAIN wrapper} = W
    BY Declared
  <2>6. \A n : PassedOn(n) <=> \E p \in DOMAIN inputs : Passed(p) /\ inputs[p].name = local(n)
    BY DEF PassedOn
  <2> HIDE DEF local
  <2>7. ASSUME NEW n \in Name
        PROVE  /\ Camel(n) \in W <=> \E p \in DOMAIN inputs : Passed(p) /\ inputs[p].name = n
               /\ Camel(n) \notin Twins
               /\ Twin(Camel(n)) \notin W /\ Twin(Camel(n)) \notin Result
               /\ Camel(n) \in Result <=> \/ HasCallback /\ n = local(UserDataStem)
                                          \/ (HasCallback \/ output) /\ n = local(RetStem)
    <3>1. Camel(n) \in W <=> \E p \in DOMAIN inputs : Passed(p) /\ inputs[p].name = n
      BY <2>1, Spelling
    <3>2. Camel(n) \notin Twins
      BY <2>1, <2>4, Spelling
    <3>3. Twin(Camel(n)) \notin W
      BY <2>1, Spelling
    <3>4. Twin(Camel(n)) \notin Result
      BY <2>2, <2>3, Spelling
    <3>5. Camel(n) \in Result <=> \/ HasCallback /\ n = local(UserDataStem)
                                  \/ (HasCallback \/ output) /\ n = local(RetStem)
      BY <2>2, <2>3, Spelling
    <3> QED
      BY <3>1, <3>2, <3>3, <3>4, <3>5
  <2> HIDE DEF W
  (* the parameters *)
  <2>8. (\A i \in DOMAIN wrapper : wrapper[i] \notin Result \cup Twins)
          <=> /\ PassedOn(RetStem) => ~HasCallback /\ ~output
              /\ PassedOn(UserDataStem) => ~HasCallback
    <3>1. (\A i \in DOMAIN wrapper : wrapper[i] \notin Result \cup Twins)
            <=> \A w \in W : w \notin Result \cup Twins
      BY <2>5
    <3>2. (\A w \in W : w \notin Result \cup Twins)
            <=> \A p \in DOMAIN inputs : Passed(p) => Camel(inputs[p].name) \notin Result \cup Twins
      BY DEF W
    <3>3. \A p \in DOMAIN inputs : Camel(inputs[p].name) \in Result \cup Twins
            <=> \/ HasCallback /\ inputs[p].name = local(UserDataStem)
                \/ (HasCallback \/ output) /\ inputs[p].name = local(RetStem)
      BY <2>1, <2>7
    <3> QED
      BY <2>6, <3>1, <3>2, <3>3
  (* the arguments *)
  <2>9. ASSUME NEW j \in DOMAIN inputs
        PROVE  (IsCallback(inputs[j]) \/ ArgName(inputs[j]) \in W \cup Result \cup Twins)
                 <=> /\ inputs[j].kind = "native" =>
                          inputs[j].name.suffix = "none" /\ inputs[j].name.stem \notin Compound
                     /\ IsUserData(inputs[j]) => HasCallback \/ PassedOn(UserDataStem)
    <3>1. CASE inputs[j].kind = "native"
      <4>1. ~IsCallback(inputs[j]) /\ ~IsUserData(inputs[j])
        BY <3>1 DEF IsCallback, IsUserData
      <4>2. ArgName(inputs[j]) = Twin(Camel(inputs[j].name))
        BY <3>1 DEF ArgName
      <4>3. Twin(Camel(inputs[j].name)) \in Twins
              <=> inputs[j].name.suffix = "none" /\ inputs[j].name.stem \notin Compound
        BY <2>1, <2>4, <3>1, Spelling
      <4> QED
        BY <2>1, <2>7, <3>1, <4>1, <4>2, <4>3
    <3>2. CASE IsUserData(inputs[j])
      <4>1. inputs[j].kind # "native" /\ ~IsCallback(inputs[j]) /\ inputs[j].name = local(UserDataStem)
        BY <3>2 DEF IsUserData, IsCallback, local
      <4>2. ArgName(inputs[j]) = Camel(local(UserDataStem))
        BY <4>1 DEF ArgName
      <4>3. /\ Camel(local(UserDataStem)) \in W <=> PassedOn(UserDataStem)
            /\ Camel(local(UserDataStem)) \in Result <=> HasCallback
            /\ Camel(local(UserDataStem)) \notin Twins
        BY <2>2, <2>6, <2>7
      <4> QED
        BY <3>2, <4>1, <4>2, <4>3
    <3>3. CASE inputs[j].kind # "native" /\ ~IsUserData(inputs[j])
      <4>1. CASE IsCallback(inputs[j])
        BY <3>3, <4>1
      <4>2. CASE ~IsCallback(inputs[j])
        <5>1. Passed(j) /\ ArgName(inputs[j]) = Camel(inputs[j].name)
          BY <3>3, <4>2 DEF Passed, ArgName
        <5>2. ArgName(inputs[j]) \in W
          BY <2>1, <2>7, <5>1
        <5> QED
          BY <3>3, <5>2
      <4> QED
        BY <4>1, <4>2
    <3> QED
      BY <3>1, <3>2, <3>3
  <2>10. (\A i \in DOMAIN call : call[i].repr = "delegate" \/ call[i].of \in W \cup Result \cup Twins)
           <=> \A j \in DOMAIN inputs : IsCallback(inputs[j]) \/ ArgName(inputs[j]) \in W \cup Result \cup Twins
    BY Declared
  <2>11. (\A i, j \in DOMAIN wrapper : wrapper[i] = wrapper[j] => i = j)
           <=> \A p, q \in DOMAIN inputs :
                  Passed(p) /\ Passed(q) /\ inputs[p].name = inputs[q].name => p = q
    BY Declared
  <2>12. WellNamed <=>
           /\ \A j \in DOMAIN inputs : IsCallback(inputs[j]) \/ ArgName(inputs[j]) \in W \cup Result \cup Twins
           /\ \A p, q \in DOMAIN inputs :
                Passed(p) /\ Passed(q) /\ inputs[p].name = inputs[q].name => p = q
           /\ PassedOn(RetStem) => ~HasCallback /\ ~output
           /\ PassedOn(UserDataStem) => ~HasCallback
    BY <2>5, <2>8, <2>10, <2>11 DEF WellNamed
  <2> QED
    BY <2>9, <2>12 DEF Nameable
<1> QED
  BY <1>1, TypeCorrect, Emitting, Naming, PTL
=============================================================================
