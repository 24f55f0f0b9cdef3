------------------------- MODULE CSharpFields_proofs -------------------------
(* Folding the fields of a struct, laying out its native twin and passing it to *)
(* Rust, for every struct with fields of different names.                       *)
EXTENDS CSharpFields, SequenceTheorems, TLAPS

Slot == [name : Name, repr : {"address", "ulong", "delegate", "value"}]

-----------------------------------------------------------------------------
(* What one field becomes. *)
LEMMA FieldFacts ==
  ASSUME NEW d \in Decl, NEW b \in BOOLEAN
  PROVE  /\ Field(d, b) \in Output /\ ~IsArray(Field(d, b)) /\ Width(Field(d, b)) = 1
         /\ Field(d, b).name = d.name /\ Field(d, b).kind = d.kind
         /\ Field(ArrayOf(d), b) \in Output /\ IsArray(Field(ArrayOf(d), b))
         /\ Width(Field(ArrayOf(d), b)) = (IF b THEN 3 ELSE 2)
         /\ Field(ArrayOf(d), b).name.stem = d.name.stem
         /\ Field(ArrayOf(d), b).has_cap = b /\ Field(d, b).has_cap = b
BY DEF Decl, Kind, Name, Suffix, Field, Output, IsArray, ArrayOf, Width

LEMMA Three ==
  ASSUME NEW a, NEW b, NEW c
  PROVE  <<a, b>> \o <<c>> = <<a, b, c>>
<1>1. <<a, b>> \in Seq({a, b, c}) /\ <<c>> \in Seq({a, b, c}) /\ <<a, b, c>> \in Seq({a, b, c})
  OBVIOUS
<1>2. /\ Len(<<a, b>> \o <<c>>) = 3
      /\ (<<a, b>> \o <<c>>)[1] = a /\ (<<a, b>> \o <<c>>)[2] = b /\ (<<a, b>> \o <<c>>)[3] = c
  OBVIOUS
<1>3. <<a, b>> \o <<c>> \in Seq({a, b, c})
  BY <1>1
<1>4. Len(<<a, b, c>>) = 3 /\ 1..3 = {1, 2, 3}
  OBVIOUS
<1>5. PICK s, t : s = <<a, b>> \o <<c>> /\ t = <<a, b, c>>
  OBVIOUS
<1>6. /\ s \in Seq({a, b, c}) /\ t \in Seq({a, b, c}) /\ Len(s) = Len(t)
      /\ \A i \in 1..Len(s) : s[i] = t[i]
  BY <1>1, <1>2, <1>3, <1>4, <1>5
<1>7. s = t
  BY ONLY <1>6, SeqEqual
<1> QED
  BY <1>5, <1>7

LEMMA NativeFieldsFacts ==
  ASSUME NEW f \in Output
  PROVE  /\ Width(f) \in 1..3 /\ NativeFields(f) \in Seq(Slot) /\ Len(NativeFields(f)) = Width(f)
         /\ NativeFields(f)[1].repr = Repr(f.kind)
         /\ IsArray(f) => NativeFields(f)[2].repr = "ulong"
         /\ IsArray(f) /\ f.has_cap => NativeFields(f)[3].repr = "ulong"
         /\ \A m \in 1..Width(f) : NativeFields(f)[m].name.stem = f.name.stem
         /\ Assigned(f) = {NativeFields(f)[m].name : m \in 1..Width(f)}
<1> DEFINE slot(name, repr) == [name |-> name, repr |-> repr]
           ptr == slot(Member(f, "ptr"), "address")
           len == slot(Member(f, "len"), "ulong")
           cap == slot(Member(f, "cap"), "ulong")
<1>1. /\ f.name \in Name /\ f.has_cap \in BOOLEAN
      /\ \A s \in Suffix : Member(f, s) \in Name /\ Member(f, s).stem = f.name.stem
  BY DEF Output, Name, Member
<1>2. Repr(f.kind) \in {"address", "ulong", "delegate", "value"}
  BY DEF Repr
<1>3. ptr \in Slot /\ len \in Slot /\ cap \in Slot
  BY <1>1 DEF Slot, Suffix
<1>4. CASE IsArray(f) /\ f.has_cap
  <2>1. NativeFields(f) = <<ptr, len, cap>>
    <3>1. NativeFields(f) = <<ptr, len>> \o <<cap>>
      BY <1>4 DEF NativeFields
    <3> QED
      BY ONLY <3>1, Three
  <2>2. Width(f) = 3 /\ Repr(f.kind) = "address"
    BY <1>4 DEF Width, IsArray, Repr
  <2>3. Assigned(f) = {Member(f, "ptr"), Member(f, "len"), Member(f, "cap")}
    BY <1>4 DEF Assigned, Copied, List
  <2>4. 1..3 = {1, 2, 3}
    OBVIOUS
  <2> QED
    BY <1>1, <1>3, <1>4, <2>1, <2>2, <2>3, <2>4 DEF Suffix
<1>5. CASE IsArray(f) /\ ~f.has_cap
  <2>1. NativeFields(f) = <<ptr, len>>
    BY <1>5 DEF NativeFields
  <2>2. Width(f) = 2 /\ Repr(f.kind) = "address"
    BY <1>5 DEF Width, IsArray, Repr
  <2>3. Assigned(f) = {Member(f, "ptr"), Member(f, "len")}
    BY <1>5 DEF Assigned, Copied, List
  <2>4. 1..2 = {1, 2}
    OBVIOUS
  <2> QED
    BY <1>1, <1>3, <1>5, <2>1, <2>2, <2>3, <2>4 DEF Suffix
<1>6. CASE ~IsArray(f)
  <2>1. NativeFields(f) = <<slot(f.name, Repr(f.kind))>>
    BY <1>6 DEF NativeFields
  <2>2. Width(f) = 1 /\ Assigned(f) = {f.name}
    BY <1>6 DEF Width, Assigned, Copied
  <2>3. slot(f.name, Repr(f.kind)) \in Slot
    BY <1>1, <1>2 DEF Slot
  <2>4. 1..1 = {1}
    OBVIOUS
  <2> QED
    BY <1>1, <1>6, <2>1, <2>2, <2>3, <2>4
<1> QED
  BY <1>1, <1>4, <1>5, <1>6

LEMMA NamesOf ==
  ASSUME NEW f \in Output
  PROVE  /\ Assigned(f) \subseteq Name /\ Copied(f) \subseteq Assigned(f) /\ Freed(f) \subseteq Copied(f)
         /\ Owns(f) => Owner(f) \in Assigned(f) /\ Owner(f) \in Freed(f)
BY DEF Output, Name, Suffix, Assigned, Copied, Freed, List, Member, Owns, Owner

-----------------------------------------------------------------------------
(* The types of all variables, in every state. *)
LEMMA PushType ==
  ASSUME TypeOK, pc = "pair", NEW f \in Output, Push(f)
  PROVE  output' \in Seq(Output) /\ starts' \in Seq(Nat)
BY DEF TypeOK, Push

LEMMA Folds ==
  ASSUME TypeOK, PushArray, pc' # "panicked"
  PROVE  /\ pc = "pair" /\ Given(field0 + 1) /\ Pairs(fields[field0], fields[field0 + 1])
         /\ \E b \in BOOLEAN :
              /\ Push(Field(ArrayOf(fields[field0]), b))
              /\ GoOn(field0 + (IF b THEN 3 ELSE 2))
              /\ field0 + (IF b THEN 3 ELSE 2) <= Len(fields) + 1
              /\ b => Given(field0 + 2) /\ IsCapacity(fields[field0 + 2], fields[field0].name.stem)
         /\ UNCHANGED <<fields, emission, memory>>
<1>1. /\ pc = "pair" /\ Given(next) /\ Pairs(fields[field0], fields[next])
      /\ UNCHANGED <<fields, emission, memory>>
  BY DEF PushArray
<1>2. field0 \in Nat /\ next = field0 + 1 /\ next + 1 = field0 + 2 /\ next + 2 = field0 + 3
      /\ Len(fields) \in Nat
  BY <1>1 DEF TypeOK
<1>3. CASE /\ Given(next + 1) /\ IsCapacity(fields[next + 1], fields[field0].name.stem)
           /\ Push(Field(ArrayOf(fields[field0]), TRUE)) /\ GoOn(next + 1 + 1)
  <2>1. GoOn(field0 + 3)
    BY <1>2, <1>3 DEF GoOn
  <2>2. /\ field0 + 3 <= Len(fields) + 1
        /\ Given(field0 + 2) /\ IsCapacity(fields[field0 + 2], fields[field0].name.stem)
    BY <1>2, <1>3 DEF Given
  <2> QED
    BY <1>1, <1>2, <1>3, <2>1, <2>2
<1>4. CASE Push(Field(ArrayOf(fields[field0]), FALSE)) /\ GoOn(next + 1)
  <2>1. GoOn(field0 + 2)
    BY <1>2, <1>4 DEF GoOn
  <2>2. field0 + 2 <= Len(fields) + 1
    BY <1>1, <1>2, <1>4 DEF Given
  <2> QED
    BY <1>1, <1>2, <1>4, <2>1, <2>2
<1> QED
  BY <1>3, <1>4 DEF PushArray

THEOREM TypeCorrect == Spec => []TypeOK
<1>1. Init => TypeOK
  BY StructsAssumption DEF Init, TypeOK
<1>2. TypeOK /\ [Next]_vars => TypeOK'
  <2> SUFFICES ASSUME TypeOK, [Next]_vars PROVE TypeOK'
    OBVIOUS
  <2> USE DEF emission, memory, folded, generated, Emitting
  <2>1. CASE Start
    BY <2>1 DEF Start, TypeOK, Given
  <2>2. CASE PushField
    <3>1. pc = "pair" /\ fields[field0] \in Decl
      BY <2>2 DEF PushField, TypeOK
    <3>2. output' \in Seq(Output) /\ starts' \in Seq(Nat)
      BY <2>2, <3>1, FieldFacts, PushType DEF PushField
    <3>3. Len(output) \in Nat /\ Len(output') = Len(output) + 1 /\ DOMAIN output \subseteq DOMAIN output'
      BY <2>2 DEF PushField, Push, TypeOK
    <3>4. Len(fields) \in Nat /\ field0 \in Nat /\ field0 + 1 <= Len(fields) + 1
      BY <2>2 DEF PushField, TypeOK, Given
    <3>5. /\ field0' = field0 + 1 /\ next' = field0' + 1
          /\ pc' = IF field0' <= Len(fields) THEN "pair" ELSE "emit"
      BY <2>2, <3>4 DEF PushField, TypeOK, GoOn, Given
    <3>6. /\ field0' \in Nat \ {0} /\ field0' <= Len(fields) + 1 /\ pc' \in {"pair", "emit"}
          /\ pc' = "pair" => field0' <= Len(fields)
      BY <3>4, <3>5
    <3>7. UNCHANGED <<fields, emission, memory>> /\ pc' \notin {"convert", "native", "free"}
      BY <2>2, <3>6 DEF PushField
    <3>8. heap' \subseteq DOMAIN output'
      BY <3>3, <3>7 DEF TypeOK
    <3>9. pc' = "pair" => field0' \in DOMAIN fields' /\ next' = field0' + 1
      BY <3>5, <3>6, <3>7 DEF TypeOK
    <3>10. next' \in Nat
      BY <3>5, <3>6
    <3> QED
      BY <3>2, <3>6, <3>7, <3>8, <3>9, <3>10 DEF TypeOK
  <2>3. CASE PushArray
    <3>1. CASE pc' = "panicked"
      BY <2>3, <3>1 DEF PushArray, TypeOK, GoOn
    <3>2. CASE pc' # "panicked"
      <4>1. pc = "pair" /\ fields[field0] \in Decl /\ UNCHANGED <<fields, emission, memory>>
        BY <2>3, <3>2, Folds DEF TypeOK
      <4>2. PICK b \in BOOLEAN :
              /\ Push(Field(ArrayOf(fields[field0]), b))
              /\ GoOn(field0 + (IF b THEN 3 ELSE 2))
              /\ field0 + (IF b THEN 3 ELSE 2) <= Len(fields) + 1
        BY <2>3, <3>2, Folds
      <4>3. output' \in Seq(Output) /\ starts' \in Seq(Nat)
        BY <4>1, <4>2, FieldFacts, PushType
      <4>4. Len(output) \in Nat /\ Len(output') = Len(output) + 1 /\ DOMAIN output \subseteq DOMAIN output'
        BY <4>2 DEF Push, TypeOK
      <4>5. PICK third \in Nat : third = field0 + (IF b THEN 3 ELSE 2)
        BY <4>1 DEF TypeOK
      <4>6. /\ third <= Len(fields) + 1 /\ third # 0
            /\ field0' = third /\ next' = third + 1
            /\ pc' = IF third <= Len(fields) THEN "pair" ELSE "emit"
        BY <4>1, <4>2, <4>5 DEF TypeOK, GoOn, Given
      <4>7. /\ pc' \in {"pair", "emit"} /\ next' \in Nat /\ field0' \in Nat
            /\ pc' = "pair" => field0' \in 1..Len(fields) /\ next' = field0' + 1
        BY <4>6
      <4>8. DOMAIN fields = 1..Len(fields)
        BY DEF TypeOK
      <4> HIDE DEF emission, memory
      <4>9. heap' \subseteq DOMAIN output'
        BY <4>1, <4>4 DEF TypeOK, memory
      <4> QED
        BY <4>1, <4>3, <4>7, <4>8, <4>9 DEF TypeOK, emission, memory
    <3> QED
      BY <3>1, <3>2
  <2>4. CASE EmitField
    <3>1. k \in DOMAIN output /\ output[k] \in Output
      BY <2>4 DEF EmitField, TypeOK
    <3>2. NativeFields(output[k]) \in Seq(Slot)
      BY ONLY <3>1, NativeFieldsFacts
    <3>3. native' \in Seq(Slot)
      BY <2>4, <3>2 DEF EmitField, TypeOK, Slot
    <3>4. Freed(output[k]) \subseteq Name /\ Copied(output[k]) \subseteq Name /\ Assigned(output[k]) \subseteq Name
      BY <3>1, NamesOf
    <3> QED
      BY <2>4, <3>3, <3>4 DEF EmitField, TypeOK, Slot
  <2>5. CASE EmitPanics
    BY <2>5 DEF EmitPanics, TypeOK
  <2>6. CASE Emitted
    BY <2>6 DEF Emitted, TypeOK
  <2>7. CASE Pass
    BY <2>7, CountAssumption DEF Pass, TypeOK
  <2>8. CASE Convert
    BY <2>8 DEF Convert, TypeOK
  <2>9. CASE Throw
    BY <2>9 DEF Throw, TypeOK
  <2>10. CASE CallNative
    BY <2>10 DEF CallNative, TypeOK
  <2>11. CASE NativeReturns
    BY <2>11 DEF NativeReturns, TypeOK
  <2>12. CASE Free
    BY <2>12 DEF Free, TypeOK
  <2>13. CASE Return
    BY <2>13 DEF Return, TypeOK
  <2>14. CASE UNCHANGED vars
    BY <2>14 DEF vars, TypeOK
  <2> QED
    BY <2>1, <2>2, <2>3, <2>4, <2>5, <2>6, <2>7, <2>8, <2>9, <2>10, <2>11, <2>12, <2>13, <2>14 DEF Next
<1> QED
  BY <1>1, <1>2, PTL DEF Spec

-----------------------------------------------------------------------------
(* What one more field of the output changes. *)
Fits(i, f) ==
    IF IsArray(f)
    THEN /\ Given(i + 1) /\ Pairs(fields[i], fields[i + 1])
         /\ f = Field(ArrayOf(fields[i]), f.has_cap)
         /\ f.has_cap => Given(i + 2) /\ IsCapacity(fields[i + 2], f.name.stem)
    ELSE f = Field(fields[i], FALSE)

LEMMA PushFold ==
  ASSUME TypeOK, FoldInv, pc = "pair", NEW f \in Output, Push(f), Fits(field0, f),
         NEW third \in Nat, third = field0 + Width(f), third <= Len(fields) + 1, GoOn(third),
         fields' = fields
  PROVE  FoldInv'
<1>1. PICK m \in Nat : m = Len(output)
  BY DEF TypeOK
<1>2. Width(f) \in Nat \ {0} /\ field0 \in DOMAIN fields /\ Len(fields) \in Nat /\ field0 \in Nat
  <2>1. Width(f) \in 1..3
    BY ONLY f \in Output, NativeFieldsFacts
  <2>2. field0 \in DOMAIN fields /\ Len(fields) \in Nat /\ field0 \in Nat
    BY DEF TypeOK
  <2>3. 1..3 \subseteq Nat \ {0}
    OBVIOUS
  <2> QED
    BY <2>1, <2>2, <2>3
<1>3. /\ DOMAIN output = 1..m /\ DOMAIN starts = 1..m
      /\ From(1) = 1
      /\ \A j \in 1..m : Stands(j)
      /\ \A i, j \in 1..m : i < j => starts[i] + Width(output[i]) <= starts[j]
      /\ \A i \in 1..m : starts[i] + Width(output[i]) <= field0
  BY <1>1 DEF FoldInv, TypeOK, Edge
<1>4. /\ DOMAIN output' = 1..(m + 1) /\ DOMAIN starts' = 1..(m + 1)
      /\ output'[m + 1] = f /\ starts'[m + 1] = field0
      /\ \A j \in 1..m : output'[j] = output[j] /\ starts'[j] = starts[j]
  <2>1. Len(starts) = m
    BY <1>1, <1>3 DEF TypeOK
  <2> QED
    BY <1>1, <2>1 DEF Push, TypeOK
<1>5. Edge' = third
  <2>1. CASE third <= Len(fields)
    BY <2>1 DEF GoOn, Given, Edge
  <2>2. CASE third = Len(fields) + 1
    <3>1. ~Given(third)
      BY <1>2, <2>2 DEF Given
    <3> QED
      BY <2>2, <3>1 DEF GoOn, Edge
  <2> QED
    BY <1>2, <2>1, <2>2
<1>6. /\ \A j \in 1..m : From(j)' = From(j)
      /\ From(m + 1) = field0 /\ From(m + 1)' = field0 /\ From(m + 2)' = third
  BY <1>1, <1>3, <1>4, <1>5 DEF From, Edge
<1>7. From(1)' = 1
  <2>1. CASE m = 0
    BY <1>3, <1>6, <2>1
  <2>2. CASE m # 0
    BY <1>1, <1>3, <1>6, <2>2
  <2> QED
    BY <2>1, <2>2
<1>8. ASSUME NEW j \in 1..(m + 1) PROVE Stands(j)'
  <2>1. CASE j \in 1..m
    <3>1. From(j + 1)' = From(j + 1)
      <4>1. j + 1 \in 1..m \/ j = m
        BY <1>1, <2>1
      <4> QED
        BY <1>6, <4>1
    <3> QED
      BY <1>3, <1>4, <2>1, <3>1 DEF Stands, Given
  <2>2. CASE j = m + 1
    <3>1. /\ starts'[j] = field0 /\ output'[j] = f /\ j + 1 = m + 2
          /\ From(j + 1)' = field0 + Width(f)
      BY <1>1, <1>4, <1>6, <2>2
    <3> QED
      BY <1>2, <3>1 DEF Stands, Fits, Given
  <2> QED
    BY <1>1, <2>1, <2>2
<1>9. ASSUME NEW j \in 1..m
      PROVE  /\ Width(output[j]) \in Nat /\ starts[j] \in Nat
             /\ starts[j] + Width(output[j]) <= field0
  <2>1. output[j] \in Output
    BY <1>1 DEF TypeOK
  <2>2. Width(output[j]) \in 1..3
    BY ONLY <2>1, NativeFieldsFacts
  <2>3. starts[j] \in Nat
    BY <1>3 DEF TypeOK
  <2> QED
    BY <1>3, <2>2, <2>3
<1>10. ASSUME NEW i \in 1..(m + 1)
       PROVE  starts'[i] + Width(output'[i]) <= third
  <2>1. CASE i = m + 1
    BY <1>2, <1>4, <2>1
  <2>2. CASE i \in 1..m
    <3>1. starts'[i] = starts[i] /\ output'[i] = output[i]
      BY <1>4, <2>2
    <3>2. /\ Width(output[i]) \in Nat /\ starts[i] \in Nat
          /\ starts[i] + Width(output[i]) <= field0
      BY <1>9, <2>2
    <3>3. field0 <= third
      BY <1>2
    <3> QED
      BY <1>2, <3>1, <3>3, <3>2
  <2> QED
    BY <1>1, <2>1, <2>2
<1>11. ASSUME NEW i \in 1..(m + 1), NEW j \in 1..(m + 1), i < j
       PROVE  starts'[i] + Width(output'[i]) <= starts'[j]
  <2>1. i \in 1..m
    BY <1>1, <1>11
  <2>2. CASE j = m + 1
    BY <1>4, <1>9, <2>1, <2>2
  <2>3. CASE j \in 1..m
    BY <1>3, <1>4, <1>11, <2>1, <2>3
  <2> QED
    BY <1>1, <2>2, <2>3
<1> QED
  BY <1>4, <1>5, <1>7, <1>8, <1>10, <1>11 DEF FoldInv

(* The output up to here is folded from the fields up to here. *)
LEMMA Folding == Spec => []FoldInv
<1>1. Init => FoldInv
  BY DEF Init, FoldInv, From, Edge
<1>2. TypeOK /\ TypeOK' /\ FoldInv /\ [Next]_vars => FoldInv'
  <2> SUFFICES ASSUME TypeOK, TypeOK', FoldInv, [Next]_vars,
                      pc' \notin {"refused", "panicked"}
               PROVE  FoldInv'
    BY DEF FoldInv
  <2> USE DEF emission, memory, folded, generated
  <2>1. CASE Start
    <3>1. pc = "start" /\ UNCHANGED <<fields, output, starts>> /\ field0' = 1
      BY <2>1 DEF Start
    <3>2. pc' = IF 1 <= Len(fields) THEN "pair" ELSE "emit"
      BY <2>1 DEF Start, Given
    <3>3. Edge = 1 /\ Edge' = 1
      <4>1. Len(fields) \in Nat
        BY DEF TypeOK
      <4> QED
        BY <3>1, <3>2, <4>1 DEF Edge
    <3> QED
      BY <3>1, <3>3 DEF FoldInv, From, Stands, Given
  <2>2. CASE PushField
    <3>1. /\ pc = "pair" /\ fields[field0] \in Decl /\ field0 \in DOMAIN fields
          /\ next = field0 + 1 /\ fields' = fields
      BY <2>2 DEF PushField, TypeOK
    <3>2. PICK f \in Output : f = Field(fields[field0], FALSE) /\ ~IsArray(f) /\ Width(f) = 1
      BY <3>1, FieldFacts
    <3>3. Push(f) /\ GoOn(next)
      BY <2>2, <3>2 DEF PushField
    <3>4. next \in Nat /\ next <= Len(fields) + 1 /\ next = field0 + Width(f)
      <4>1. next = field0 + 1 /\ field0 \in 1..Len(fields) /\ Len(fields) \in Nat
        BY <3>1 DEF TypeOK
      <4>2. Width(f) = 1
        BY <3>2
      <4> QED
        BY <4>1, <4>2
    <3>5. Fits(field0, f)
      BY <3>2 DEF Fits
    <3> QED
      BY <3>1, <3>3, <3>4, <3>5, PushFold
  <2>3. CASE PushArray
    <3>1. /\ pc = "pair" /\ Given(field0 + 1) /\ Pairs(fields[field0], fields[field0 + 1])
          /\ UNCHANGED <<fields, emission, memory>>
      BY <2>3, Folds
    <3>2. PICK b \in BOOLEAN :
              /\ Push(Field(ArrayOf(fields[field0]), b))
              /\ GoOn(field0 + (IF b THEN 3 ELSE 2))
              /\ field0 + (IF b THEN 3 ELSE 2) <= Len(fields) + 1
              /\ b => Given(field0 + 2) /\ IsCapacity(fields[field0 + 2], fields[field0].name.stem)
      BY <2>3, Folds
    <3>3. PICK f : f = Field(ArrayOf(fields[field0]), b)
      OBVIOUS
    <3>4. /\ f \in Output /\ IsArray(f) /\ Width(f) = (IF b THEN 3 ELSE 2)
          /\ f.has_cap = b /\ f.name.stem = fields[field0].name.stem
      <4>1. fields[field0] \in Decl
        BY <3>1 DEF TypeOK
      <4> QED
        BY <3>3, <4>1, FieldFacts
    <3>5. PICK third \in Nat : third = field0 + (IF b THEN 3 ELSE 2)
      BY <3>1 DEF TypeOK
    <3>6. Push(f) /\ GoOn(third) /\ third = field0 + Width(f) /\ third <= Len(fields) + 1
      BY <3>2, <3>3, <3>4, <3>5
    <3>7. Fits(field0, f)
      BY <3>1, <3>2, <3>3, <3>4 DEF Fits
    <3> QED
      BY <3>1, <3>4, <3>5, <3>6, <3>7, PushFold
  <2>4. CASE EmitField \/ EmitPanics \/ Emitted \/ Pass \/ Convert \/ Throw \/ CallNative
             \/ NativeReturns \/ Free \/ Return \/ UNCHANGED vars
    <3>1. /\ UNCHANGED <<fields, output, starts>> /\ pc \notin {"refused", "panicked"}
          /\ \/ UNCHANGED <<pc, field0>>
             \/ pc \notin {"start", "pair"} /\ pc' \notin {"start", "pair"}
      BY <2>4 DEF EmitField, EmitPanics, Emitted, Pass, Convert, Throw, CallNative,
                  NativeReturns, Free, Return, vars
    <3>2. Edge' = Edge
      BY <3>1 DEF Edge
    <3> QED
      BY <3>1, <3>2 DEF FoldInv, From, Stands, Given
  <2> QED
    BY <2>1, <2>2, <2>3, <2>4 DEF Next
<1> QED
  BY <1>1, <1>2, TypeCorrect, PTL DEF Spec

-----------------------------------------------------------------------------
(* A field of the output unfolds into fields like those that it was made from. *)
LEMMA Unfolds ==
  ASSUME TypeOK, NEW j \in DOMAIN output, Stands(j), NEW m \in 1..Width(output[j])
  PROVE  /\ starts[j] + m - 1 \in DOMAIN fields
         /\ NativeFields(output[j])[m].repr = Repr(fields[starts[j] + m - 1].kind)
         /\ NativeFields(output[j])[m].name.stem = fields[starts[j] + m - 1].name.stem
<1> DEFINE i == starts[j]
<1>1. PICK f \in Output : f = output[j]
  BY DEF TypeOK
<1>2. /\ NativeFields(f)[1].repr = Repr(f.kind)
      /\ IsArray(f) => NativeFields(f)[2].repr = "ulong"
      /\ IsArray(f) /\ f.has_cap => NativeFields(f)[3].repr = "ulong"
      /\ \A n \in 1..Width(f) : NativeFields(f)[n].name.stem = f.name.stem
  BY NativeFieldsFacts
<1>3. i \in 1..Len(fields) /\ Len(fields) \in Nat /\ DOMAIN fields = 1..Len(fields)
  BY DEF TypeOK, Stands
<1>4. NativeFields(f)[m].name.stem = f.name.stem
  BY <1>1, <1>2
<1>5. CASE ~IsArray(f)
  <2>1. m = 1 /\ i + m - 1 = i
    BY <1>1, <1>3, <1>5 DEF Width
  <2>2. f = Field(fields[i], FALSE)
    BY <1>1, <1>5 DEF Stands
  <2>3. f.kind = fields[i].kind /\ f.name = fields[i].name
    BY <2>2 DEF Field
  <2> QED
    BY <1>1, <1>2, <1>3, <1>4, <2>1, <2>3
<1>6. CASE IsArray(f)
  <2>1. /\ Given(i + 1) /\ Pairs(fields[i], fields[i + 1])
        /\ f = Field(ArrayOf(fields[i]), f.has_cap)
        /\ f.has_cap => Given(i + 2) /\ IsCapacity(fields[i + 2], f.name.stem)
    BY <1>1, <1>6 DEF Stands
  <2>2. f.name.stem = fields[i].name.stem
    BY <2>1 DEF Field, ArrayOf
  <2>3. Repr(f.kind) = "address" /\ Repr(fields[i].kind) = "address"
    BY <1>6, <2>1 DEF IsArray, Pairs, IsPointer, Repr
  <2>4. CASE m = 1
    <3>1. i + m - 1 = i
      BY <1>3, <2>4
    <3> QED
      BY <1>1, <1>2, <1>3, <1>4, <2>2, <2>3, <2>4, <3>1
  <2>5. CASE m = 2
    <3>1. i + m - 1 = i + 1
      BY <1>3, <2>5
    <3>2. i + 1 \in DOMAIN fields
      BY <1>3, <2>1 DEF Given
    <3>3. Repr(fields[i + 1].kind) = "ulong" /\ fields[i + 1].name.stem = fields[i].name.stem
      BY <2>1 DEF Pairs, Repr
    <3> QED
      BY <1>1, <1>2, <1>4, <1>6, <2>2, <2>5, <3>1, <3>2, <3>3
  <2>6. CASE m = 3 /\ f.has_cap
    <3>1. i + m - 1 = i + 2
      BY <1>3, <2>6
    <3>2. i + 2 \in DOMAIN fields
      BY <1>3, <2>1, <2>6 DEF Given
    <3>3. Repr(fields[i + 2].kind) = "ulong" /\ fields[i + 2].name.stem = f.name.stem
      <4>1. IsCapacity(fields[i + 2], f.name.stem)
        BY <2>1, <2>6
      <4> QED
        BY <4>1 DEF IsCapacity, Repr
    <3> QED
      BY <1>1, <1>2, <1>4, <1>6, <2>6, <3>1, <3>2, <3>3
  <2>7. m = 1 \/ m = 2 \/ (m = 3 /\ f.has_cap)
    <3>1. CASE f.has_cap
      BY <1>1, <1>6, <3>1 DEF Width
    <3>2. CASE ~f.has_cap
      BY <1>1, <1>6, <3>2 DEF Width
    <3> QED
      BY <3>1, <3>2
  <2> QED
    BY <2>4, <2>5, <2>6, <2>7
<1> QED
  BY <1>5, <1>6

LEMMA ConcatParts ==
  ASSUME NEW S, NEW a \in Seq(S), NEW b \in Seq(S)
  PROVE  /\ Len(a \o b) = Len(a) + Len(b) /\ DOMAIN (a \o b) = 1..(Len(a) + Len(b))
         /\ \A i \in 1..Len(a) : (a \o b)[i] = a[i]
         /\ \A m \in 1..Len(b) : (a \o b)[Len(a) + m] = b[m]
<1>1. \A m \in 1..Len(b) : (a \o b)[Len(a) + m] = b[m]
  <2>1. ASSUME NEW m \in 1..Len(b)
        PROVE  Len(a) + m \in 1..(Len(a) + Len(b)) /\ ~(Len(a) + m <= Len(a))
               /\ Len(a) + m - Len(a) = m
    OBVIOUS
  <2> QED
    BY <2>1, ConcatProperties
<1> QED
  BY <1>1, ConcatProperties

(* One field is emitted: the native struct reaches the first field of the next. *)
LEMMA LayStep ==
  ASSUME TypeOK, FoldInv, EmitInv, pc = "emit", k \in DOMAIN output, EmitField
  PROVE  /\ Len(native') = From(k + 1) - 1
         /\ \A i \in DOMAIN native' : /\ native'[i].repr = Repr(fields[i].kind)
                                    /\ native'[i].name.stem = fields[i].name.stem
         /\ NativeNames' = NativeNames \cup Assigned(output[k])
<1>1. PICK f \in Output : f = output[k]
  BY DEF TypeOK
<1>2. PICK new, s, w : f = output[k] /\ new = NativeFields(f) /\ s = starts[k] /\ w = Width(f)
  BY <1>1
<1>3. Stands(k)
  BY DEF FoldInv, Emitting
<1>4. /\ w \in 1..3 /\ new \in Seq(Slot) /\ Len(new) = w
      /\ Assigned(f) = {new[m].name : m \in 1..w}
  BY <1>2, NativeFieldsFacts
<1>5. /\ s \in Nat \ {0} /\ Len(native) = s - 1 /\ From(k + 1) = s + w /\ native \in Seq(Slot)
      /\ native' = native \o new
  <2>1. s \in Nat \ {0}
    BY <1>2, <1>3 DEF Stands, TypeOK
  <2>2. From(k + 1) = s + w
    BY <1>2, <1>3 DEF Stands
  <2>3. From(k) = s /\ Len(native) = From(k) - 1
    BY <1>2 DEF From, EmitInv, Reached
  <2>4. native \in Seq(Slot) /\ native' = native \o new
    BY <1>2 DEF TypeOK, Slot, EmitField
  <2> QED
    BY <2>1, <2>2, <2>3, <2>4
<1>6. /\ Len(native') = Len(native) + Len(new) /\ DOMAIN native' = 1..(Len(native) + Len(new))
      /\ \A i \in 1..Len(native) : native'[i] = native[i]
      /\ \A m \in 1..Len(new) : native'[Len(native) + m] = new[m]
  BY ONLY <1>4, <1>5, ConcatParts
<1>7. /\ Len(native') = s - 1 + w /\ DOMAIN native' = 1..(s - 1 + w)
      /\ DOMAIN native = 1..(s - 1)
      /\ \A i \in 1..(s - 1) : native'[i] = native[i]
      /\ \A m \in 1..w : native'[s - 1 + m] = new[m]
  BY <1>4, <1>5, <1>6
<1>8. ASSUME NEW m \in 1..w
      PROVE  /\ s + m - 1 \in 1..(s - 1 + w) /\ s - 1 + m = s + m - 1
             /\ new[m].repr = Repr(fields[s + m - 1].kind)
             /\ new[m].name.stem = fields[s + m - 1].name.stem
  <2>1. s + m - 1 \in 1..(s - 1 + w) /\ s - 1 + m = s + m - 1
    BY <1>4, <1>5
  <2> QED
    BY <1>2, <1>3, <2>1, Unfolds
<1>9. ASSUME NEW i \in 1..(s - 1 + w)
      PROVE  i \in 1..(s - 1) \/ \E m \in 1..w : i = s + m - 1
  <2>1. CASE i >= s
    <3>1. i - s + 1 \in 1..w /\ i = s + (i - s + 1) - 1
      BY <1>4, <1>5, <2>1
    <3> QED
      BY <3>1
  <2>2. CASE i < s
    BY <1>4, <1>5, <2>2
  <2> QED
    BY <1>4, <1>5, <2>1, <2>2
<1>10. ASSUME NEW i \in 1..(s - 1 + w)
       PROVE  native'[i].repr = Repr(fields[i].kind) /\ native'[i].name.stem = fields[i].name.stem
  <2>1. CASE i \in 1..(s - 1)
    BY <1>7, <2>1 DEF EmitInv
  <2>2. ASSUME NEW m \in 1..w, i = s + m - 1
        PROVE  native'[i].repr = Repr(fields[i].kind) /\ native'[i].name.stem = fields[i].name.stem
    BY <1>7, <1>8, <2>2
  <2> QED
    BY <1>9, <2>1, <2>2
<1>11. NativeNames' = NativeNames \cup Assigned(f)
  <2>1. NativeNames' \subseteq NativeNames \cup Assigned(f)
    <3> SUFFICES ASSUME NEW i \in 1..(s - 1 + w) PROVE native'[i].name \in NativeNames \cup Assigned(f)
      BY <1>7 DEF NativeNames
    <3>1. CASE i \in 1..(s - 1)
      BY <1>7, <3>1 DEF NativeNames
    <3>2. ASSUME NEW m \in 1..w, i = s + m - 1 PROVE native'[i].name \in Assigned(f)
      BY <1>4, <1>7, <1>8, <3>2
    <3> QED
      BY <1>9, <3>1, <3>2
  <2>2. NativeNames \subseteq NativeNames'
    <3>1. 1..(s - 1) \subseteq 1..(s - 1 + w)
      BY <1>4, <1>5
    <3> QED
      BY <1>7, <3>1 DEF NativeNames
  <2>3. Assigned(f) \subseteq NativeNames'
    BY <1>4, <1>7, <1>8 DEF NativeNames
  <2> QED
    BY <2>1, <2>2, <2>3
<1>12. Len(native') = From(k + 1) - 1
  BY <1>4, <1>5, <1>7
<1> QED
  BY <1>2, <1>7, <1>10, <1>11, <1>12

(* What is emitted follows the output. *)
LEMMA Laying == Spec => []EmitInv
<1>1. Init => EmitInv
  <2> SUFFICES ASSUME Init PROVE EmitInv
    OBVIOUS
  <2>1. From(1) = 1 /\ Reached = 1 /\ Len(output) = 0
    BY DEF Init, From, Edge, Reached
  <2> QED
    BY <2>1 DEF Init, EmitInv, NativeNames
<1>2. TypeOK /\ TypeOK' /\ FoldInv /\ FoldInv' /\ EmitInv /\ [Next]_vars => EmitInv'
  <2> SUFFICES ASSUME TypeOK, TypeOK', FoldInv, FoldInv', EmitInv, [Next]_vars,
                      pc' \notin {"refused", "panicked"}
               PROVE  EmitInv'
    BY DEF EmitInv
  <2> USE DEF emission, memory, folded, generated
  <2>1. CASE Start \/ PushField \/ PushArray
    <3>1. /\ pc \in {"start", "pair"} /\ pc' \in {"pair", "emit"}
          /\ UNCHANGED emission
      BY <2>1 DEF Start, PushField, PushArray, GoOn
    <3>2. k = 1 /\ Reached = 1 /\ Reached' = 1
      BY <3>1 DEF EmitInv, Reached
    <3>3. From(1) = 1 /\ From(1)' = 1
      BY <3>1 DEF FoldInv
    <3>4. Len(output') \in Nat
      BY DEF TypeOK
    <3>5. Len(native) = 0 /\ native = <<>>
      BY <3>1, <3>2, <3>3 DEF EmitInv, TypeOK
    <3>6. assigned = {} /\ copied = {} /\ freed = {} /\ NativeNames' = {} /\ 1..(1 - 1) = {}
      <4>1. NativeNames = {} /\ NativeNames' = {} /\ 1..(1 - 1) = {}
        BY <3>1, <3>5 DEF NativeNames
      <4>2. \A n \in Name : n \notin copied /\ n \notin freed
        BY <3>1, <3>2, <4>1 DEF EmitInv
      <4>3. copied \subseteq Name /\ freed \subseteq Name
        BY DEF TypeOK
      <4>4. assigned = NativeNames
        BY <3>1 DEF EmitInv
      <4> QED
        BY <4>1, <4>2, <4>3, <4>4
    <3> QED
      BY <3>1, <3>2, <3>3, <3>4, <3>5, <3>6 DEF EmitInv
  <2>2. CASE EmitField
    <3>1. /\ pc = "emit" /\ pc' = "emit" /\ k \in DOMAIN output /\ k' = k + 1
          /\ UNCHANGED <<fields, output, starts>>
          /\ freed' = freed \cup Freed(output[k])
          /\ copied' = copied \cup Copied(output[k])
          /\ assigned' = assigned \cup Assigned(output[k])
      BY <2>2 DEF EmitField, TypeOK
    <3>2. /\ Len(native') = From(k + 1) - 1
          /\ \A i \in DOMAIN native' : /\ native'[i].repr = Repr(fields[i].kind)
                                     /\ native'[i].name.stem = fields[i].name.stem
          /\ NativeNames' = NativeNames \cup Assigned(output[k])
      BY <2>2, <3>1, LayStep
    <3>3. /\ Reached = k /\ Reached' = k + 1 /\ k \in 1..Len(output) /\ Len(output) \in Nat
          /\ Reached' \in 1..(Len(output) + 1)
      BY <3>1 DEF Reached, TypeOK
    <3>4. From(Reached)' = From(k + 1)
      BY <3>1, <3>3 DEF From, Edge
    <3>5. 1..(Reached' - 1) = 1..(k - 1) \cup {k}
      BY <3>3
    <3>6. assigned = NativeNames /\ assigned' = NativeNames'
      BY <3>1, <3>2 DEF EmitInv
    <3>7. ASSUME NEW n \in Name
          PROVE  /\ n \in assigned' <=> \E j \in 1..(Reached' - 1) : n \in Assigned(output'[j])
                 /\ n \in copied' <=> \E j \in 1..(Reached' - 1) : n \in Copied(output'[j])
                 /\ n \in freed' <=> \E j \in 1..(Reached' - 1) : n \in Freed(output'[j])
      <4>1. /\ n \in assigned <=> \E j \in 1..(k - 1) : n \in Assigned(output[j])
            /\ n \in copied <=> \E j \in 1..(k - 1) : n \in Copied(output[j])
            /\ n \in freed <=> \E j \in 1..(k - 1) : n \in Freed(output[j])
        BY <3>1, <3>3 DEF EmitInv
      <4>2. PICK I, J : I = 1..(k - 1) /\ J = 1..(Reached' - 1) /\ J = I \cup {k}
        BY <3>5
      <4> QED
        BY <3>1, <4>1, <4>2
    <3> QED
      <4>1. pc' \notin {"start", "pair"} /\ Len(native') = From(Reached)' - 1
        BY <3>1, <3>2, <3>4
      <4> QED
        BY <3>1, <3>2, <3>3, <3>6, <3>7, <4>1 DEF EmitInv
  <2>3. CASE EmitPanics \/ Emitted \/ Pass \/ Convert \/ Throw \/ CallNative
             \/ NativeReturns \/ Free \/ Return \/ UNCHANGED vars
    <3>1. /\ UNCHANGED <<fields, output, starts, native, freed, copied, assigned>>
          /\ pc \notin {"refused", "panicked"}
          /\ \/ UNCHANGED <<pc, field0, k>>
             \/ pc = "emit" /\ pc' = "done" /\ k > Len(output) /\ UNCHANGED k
             \/ pc \notin {"start", "pair", "emit"} /\ pc' \notin {"start", "pair", "emit"}
      BY <2>3 DEF EmitPanics, Emitted, Pass, Convert, Throw, CallNative,
                  NativeReturns, Free, Return, vars
    <3>2. Reached' = Reached
      <4>1. Reached \in 1..(Len(output) + 1) /\ Len(output) \in Nat
        BY <3>1 DEF EmitInv, TypeOK
      <4> QED
        BY <3>1, <4>1 DEF Reached
    <3>3. From(Reached)' = From(Reached)
      BY <3>1, <3>2 DEF From, Edge
    <3>4. pc' \in {"start", "pair"} => k' = 1
      BY <3>1 DEF EmitInv
    <3> QED
      BY <3>1, <3>2, <3>3, <3>4 DEF EmitInv, NativeNames
  <2> QED
    BY <2>1, <2>2, <2>3 DEF Next
<1> QED
  BY <1>1, <1>2, TypeCorrect, Folding, PTL DEF Spec

(* The native struct has the fields of the Rust struct, in number, order and kind. *)
THEOREM LayoutIsPreserved == Spec => []LayoutPreserved
<1>1. TypeOK /\ EmitInv => LayoutPreserved
  <2> SUFFICES ASSUME TypeOK, EmitInv, pc = "done"
               PROVE  /\ Len(native) = Len(fields)
                      /\ \A i \in DOMAIN fields :
                           /\ native[i].repr = Repr(fields[i].kind)
                           /\ native[i].name.stem = fields[i].name.stem
    BY DEF LayoutPreserved
  <2>1. Reached = Len(output) + 1 /\ Len(output) \in Nat /\ Len(fields) \in Nat
    BY DEF Reached, TypeOK
  <2>2. From(Reached) = Len(fields) + 1
    BY <2>1 DEF From, Edge, TypeOK
  <2>3. Len(native) = Len(fields)
    BY <2>1, <2>2 DEF EmitInv
  <2> QED
    BY <2>3 DEF EmitInv, TypeOK
<1> QED
  BY <1>1, TypeCorrect, Laying, PTL

(* The fields are those of one of the structs, whose names are different. *)
LEMMA FieldsGiven == Spec => [](fields \in Structs)
<1>1. Init => fields \in Structs
  BY DEF Init
<1>2. fields \in Structs /\ [Next]_vars => (fields \in Structs)'
  BY DEF Next, Start, PushField, PushArray, EmitField, EmitPanics, Emitted, Pass, Convert, Throw,
         CallNative, NativeReturns, Free, Return, generated, vars
<1> QED
  BY <1>1, <1>2, PTL DEF Spec

(* A capacity that was folded into an array is no field of its own besides. *)
LEMMA CapacityNotCopied ==
  ASSUME TypeOK, FoldInv, fields \in Structs, pc = "done",
         NEW j \in DOMAIN output, output[j].has_cap, NEW i \in DOMAIN output
  PROVE  IsArray(output[j]) /\ Member(output[j], "cap") \notin Copied(output[i])
<1>1. Stands(i) /\ Stands(j) /\ output[i] \in Output /\ output[j] \in Output
  BY DEF FoldInv, TypeOK
<1>2. IsArray(output[j])
  BY <1>1 DEF Stands, Field
<1>3. CASE IsArray(output[i])
  BY <1>2, <1>3 DEF Copied, List, Member
<1>4. CASE ~IsArray(output[i]) /\ Member(output[j], "cap") = output[i].name
  <2>1. PICK a, b : a = output[i] /\ b = output[j]
    OBVIOUS
  <2>2. PICK x \in Nat, y \in Nat, n \in Nat : x = starts[i] /\ y = starts[j] /\ n = Len(fields)
    <3>1. DOMAIN starts = DOMAIN output
      BY DEF FoldInv
    <3>2. starts[i] \in Nat /\ starts[j] \in Nat /\ Len(fields) \in Nat
      BY <3>1 DEF TypeOK
    <3> QED
      BY <3>2
  <2>3. x \in 1..n /\ y \in 1..n /\ DOMAIN fields = 1..n
    BY <1>1, <2>1, <2>2 DEF Stands, TypeOK
  <2>4. a.name = fields[x].name
    BY <1>1, <1>4, <2>1, <2>2 DEF Stands, Field
  <2>5. Given(y + 2) /\ IsCapacity(fields[y + 2], b.name.stem)
    BY <1>1, <1>2, <2>1, <2>2 DEF Stands
  <2>6. fields[y + 2].name = Member(b, "cap") /\ y + 2 \in 1..n
    BY <2>1, <2>2, <2>3, <2>5 DEF IsCapacity, Member, Given
  <2>7. x = y + 2
    BY <1>4, <2>1, <2>2, <2>3, <2>4, <2>6, NamesAssumption
  <2>8. i # j /\ i \in Nat /\ j \in Nat
    BY <1>2, <1>4 DEF TypeOK
  <2>9. Width(a) = 1 /\ Width(b) = 3
    BY <1>2, <1>4, <2>1, <2>2 DEF Width
  <2>10. CASE i < j
    <3>1. x + Width(a) <= y
      BY <2>1, <2>2, <2>10 DEF FoldInv
    <3> QED
      BY <2>7, <2>9, <3>1
  <2>11. CASE j < i
    <3>1. y + Width(b) <= x
      BY <2>1, <2>2, <2>11 DEF FoldInv
    <3> QED
      BY <2>7, <2>9, <3>1
  <2> QED
    BY <2>8, <2>10, <2>11
<1> QED
  BY <1>2, <1>3, <1>4 DEF Copied

(* ToNative sets all the native struct has, and only capacities are forgotten. *)
THEOREM AllInitialised == Spec => []NothingUninitialised
<1>1. TypeOK /\ FoldInv /\ EmitInv /\ fields \in Structs => NothingUninitialised
  <2> SUFFICES ASSUME TypeOK, FoldInv, EmitInv, fields \in Structs, pc = "done"
               PROVE  /\ assigned = NativeNames
                      /\ copied \subseteq NativeNames /\ freed \subseteq copied
                      /\ NativeNames \ copied = {Member(output[j], "cap") :
                                                  j \in {i \in DOMAIN output : output[i].has_cap}}
    BY DEF NothingUninitialised
  <2>1. /\ assigned = NativeNames
        /\ assigned \subseteq Name /\ copied \subseteq Name /\ freed \subseteq Name
    BY DEF EmitInv, TypeOK
  <2>2. Reached = Len(output) + 1 /\ 1..(Reached - 1) = DOMAIN output
    BY DEF Reached, TypeOK
  <2>3. ASSUME NEW n \in Name
        PROVE  /\ n \in assigned <=> \E j \in DOMAIN output : n \in Assigned(output[j])
               /\ n \in copied <=> \E j \in DOMAIN output : n \in Copied(output[j])
               /\ n \in freed <=> \E j \in DOMAIN output : n \in Freed(output[j])
    BY <2>2 DEF EmitInv
  <2>4. ASSUME NEW j \in DOMAIN output
        PROVE  /\ Assigned(output[j]) \subseteq Name
               /\ Copied(output[j]) \subseteq Assigned(output[j])
               /\ Freed(output[j]) \subseteq Copied(output[j])
    <3>1. output[j] \in Output
      BY DEF TypeOK
    <3> QED
      BY <3>1, NamesOf
  <2>5. copied \subseteq assigned /\ freed \subseteq copied
    BY <2>1, <2>3, <2>4
  <2>6. ASSUME NEW n \in assigned \ copied
        PROVE  \E j \in DOMAIN output : output[j].has_cap /\ n = Member(output[j], "cap")
    <3>1. n \in Name
      BY <2>1, <2>6
    <3>2. PICK j \in DOMAIN output : n \in Assigned(output[j])
      BY <2>3, <2>6, <3>1
    <3>3. n \notin Copied(output[j])
      BY <2>3, <2>6, <3>1
    <3> QED
      BY <3>2, <3>3 DEF Assigned
  <2>7. ASSUME NEW j \in DOMAIN output, output[j].has_cap
        PROVE  Member(output[j], "cap") \in assigned \ copied
    <3>1. IsArray(output[j]) /\ \A i \in DOMAIN output : Member(output[j], "cap") \notin Copied(output[i])
      BY <2>7, CapacityNotCopied
    <3>2. Member(output[j], "cap") \in Assigned(output[j])
      BY <2>7, <3>1 DEF Assigned
    <3>3. Member(output[j], "cap") \in Name
      BY <2>4, <3>2
    <3> QED
      BY <2>3, <3>1, <3>2, <3>3
  <2>8. assigned \ copied = {Member(output[j], "cap") : j \in {i \in DOMAIN output : output[i].has_cap}}
    BY <2>6, <2>7
  <2> QED
    BY <2>1, <2>5, <2>8
<1> QED
  BY <1>1, TypeCorrect, Folding, Laying, FieldsGiven, PTL

-----------------------------------------------------------------------------
(* What a field owns is allocated by ToNative and released by Free. *)
LEMMA OwnersCovered ==
  ASSUME TypeOK, EmitInv, pc \in {"convert", "free"}, NEW j \in DOMAIN output, Owns(output[j])
  PROVE  Owner(output[j]) \in assigned /\ Owner(output[j]) \in freed
<1>1. output[j] \in Output
  BY DEF TypeOK
<1>2. /\ Owner(output[j]) \in Assigned(output[j]) /\ Owner(output[j]) \in Freed(output[j])
      /\ Owner(output[j]) \in Name
  BY <1>1, NamesOf
<1>3. j \in 1..(Reached - 1)
  BY DEF Reached, TypeOK
<1> QED
  BY <1>2, <1>3 DEF EmitInv

LEMMA Memory == Spec => []HeapInv
<1>1. Init => HeapInv
  BY DEF Init, HeapInv
<1>2. TypeOK /\ TypeOK' /\ EmitInv /\ HeapInv /\ [Next]_vars => HeapInv'
  <2> SUFFICES ASSUME TypeOK, TypeOK', EmitInv, HeapInv, [Next]_vars PROVE HeapInv'
    OBVIOUS
  <2> DEFINE owners == {i \in DOMAIN output : Owns(output[i])}
  <2> USE DEF emission, memory, folded, generated
  <2>1. CASE Start \/ PushField \/ PushArray \/ EmitField \/ EmitPanics \/ Emitted
    <3>1. /\ pc \in {"start", "pair", "emit"} /\ pc' \in {"refused", "panicked", "pair", "emit", "done"}
          /\ UNCHANGED memory
      BY <2>1 DEF Start, PushField, PushArray, GoOn, EmitField, EmitPanics, Emitted
    <3> QED
      BY <3>1 DEF HeapInv
  <2>2. CASE Pass
    <3>1. pc = "done" /\ pc' = "convert" /\ k' = 1 /\ UNCHANGED <<output, heap>> /\ heap = {}
      BY <2>2 DEF Pass, HeapInv
    <3>2. \A i \in DOMAIN output : ~(i < 1)
      BY DEF TypeOK
    <3> QED
      BY <3>1, <3>2 DEF HeapInv
  <2>3. CASE Convert
    <3>1. /\ pc = "convert" /\ pc' = "convert" /\ k \in DOMAIN output /\ k' = k + 1
          /\ UNCHANGED output
          /\ heap' = heap \cup {i \in {k} : Owns(output[i]) /\ Owner(output[i]) \in assigned}
          /\ heap = {i \in owners : i < k}
      BY <2>3 DEF Convert, HeapInv, TypeOK
    <3>2. Owns(output[k]) => Owner(output[k]) \in assigned
      BY <3>1, OwnersCovered
    <3>3. k \in Nat /\ output \in Seq(Output)
      BY DEF TypeOK
    <3>4. DOMAIN output \subseteq Nat
      BY <3>3
    <3>5. \A i \in DOMAIN output : i < k + 1 <=> i < k \/ i = k
      BY <3>3, <3>4
    <3>6. heap' = {i \in owners : i < k + 1}
      BY <3>1, <3>2, <3>5
    <3> QED
      BY <3>1, <3>6 DEF HeapInv
  <2>4. CASE Throw
    <3>1. /\ pc = "convert" /\ pc' = "thrown" /\ k \in DOMAIN output /\ Empty(k)
          /\ UNCHANGED <<output, count>>
      BY <2>4 DEF Throw, TypeOK
    <3>2. k \in owners
      BY <3>1 DEF Empty
    <3> QED
      BY <3>1, <3>2 DEF HeapInv, Empty
  <2>5. CASE CallNative
    <3>1. /\ pc = "convert" /\ pc' = "native" /\ k > Len(output) /\ UNCHANGED <<output, heap>>
          /\ heap = {i \in owners : i < k}
      BY <2>5 DEF CallNative, HeapInv
    <3>2. \A i \in DOMAIN output : i < k
      BY <3>1 DEF TypeOK
    <3>3. heap = owners
      BY <3>1, <3>2
    <3> QED
      BY <3>1, <3>3 DEF HeapInv
  <2>6. CASE NativeReturns
    <3>1. pc = "native" /\ pc' = "free" /\ k' = 1 /\ UNCHANGED <<output, heap>> /\ heap = owners
      BY <2>6 DEF NativeReturns, HeapInv
    <3>2. \A i \in DOMAIN output : i >= 1
      BY DEF TypeOK
    <3> QED
      BY <3>1, <3>2 DEF HeapInv
  <2>7. CASE Free
    <3>1. /\ pc = "free" /\ pc' = "free" /\ k \in DOMAIN output /\ k' = k + 1
          /\ UNCHANGED output
          /\ heap' = heap \ {i \in {k} : Owns(output[i]) /\ Owner(output[i]) \in freed}
          /\ heap = {i \in owners : i >= k}
      BY <2>7 DEF Free, HeapInv, TypeOK
    <3>2. Owns(output[k]) => Owner(output[k]) \in freed
      BY <3>1, OwnersCovered
    <3>3. k \in Nat /\ output \in Seq(Output)
      BY DEF TypeOK
    <3>4. DOMAIN output \subseteq Nat
      BY <3>3
    <3>5. \A i \in DOMAIN output : i >= k + 1 <=> i >= k /\ i # k
      BY <3>3, <3>4
    <3>6. heap' = {i \in owners : i >= k + 1}
      BY <3>1, <3>2, <3>5
    <3> QED
      BY <3>1, <3>6 DEF HeapInv
  <2>8. CASE Return
    <3>1. /\ pc = "free" /\ pc' = "returned" /\ k > Len(output) /\ UNCHANGED <<output, heap>>
          /\ heap = {i \in owners : i >= k}
      BY <2>8 DEF Return, HeapInv
    <3>2. \A i \in DOMAIN output : ~(i >= k)
      BY <3>1 DEF TypeOK
    <3>3. heap = {}
      BY <3>1, <3>2
    <3> QED
      BY <3>1, <3>3 DEF HeapInv
  <2>9. CASE UNCHANGED vars
    BY <2>9 DEF vars, HeapInv, Empty
  <2> QED
    BY <2>1, <2>2, <2>3, <2>4, <2>5, <2>6, <2>7, <2>8, <2>9 DEF Next
<1> QED
  BY <1>1, <1>2, TypeCorrect, Laying, PTL DEF Spec

(* The twin's memory is there during the call and gone after it; a pass that ends *)
(* before the call does so for an empty list.                                     *)
THEOREM HeapIsBalanced == Spec => []HeapBalanced
<1>1. HeapInv => HeapBalanced
  BY DEF HeapInv, HeapBalanced
<1> QED
  BY <1>1, Memory, PTL
=============================================================================
