-------------------------- MODULE JavaMarshal_proofs --------------------------
(* Theorems about what crosses JNI, for every list of parameters, every map of types *)
(* and every struct.                                                                 *)
EXTENDS JavaMarshal, WellFoundedInduction, TLAPS

LEMMA Concatenated ==
  ASSUME NEW D, NEW q \in Seq(D), NEW r \in Seq(D)
  PROVE  /\ q \o r \in Seq(D) /\ Len(q \o r) = Len(q) + Len(r)
         /\ \A n \in 1..Len(q) : (q \o r)[n] = q[n]
         /\ \A n \in 1..Len(r) : (q \o r)[Len(q) + n] = r[n]
OBVIOUS

(* Structs: the two conversions. *)
FieldsInv == S!TypeOK /\ S!SortInv /\ S!EmitInv

LEMMA SortFieldStep ==
  ASSUME FieldsInv, S!SortField
  PROVE  FieldsInv'
<1> USE DEF FieldsInv
<1>1. /\ at = "sort" /\ k \in Nat /\ k <= Len(fields)
      /\ sorted' = Append(sorted, S!StructField(fields[k])) /\ k' = k + 1
      /\ UNCHANGED <<fields, at, declared, bound, read, set>>
  BY DEF S!SortField, S!TypeOK
<1>2. /\ fields \in Seq(S!Field) /\ sorted \in Seq({"Array", "String", "StructPtr", "LenField", "Primitive"})
      /\ Len(sorted) = k - 1
  BY <1>1, StructsAssumption DEF S!TypeOK, S!SortInv, S!StructsAssumption
<1>3. \A f : S!StructField(f) \in {"Array", "String", "StructPtr", "LenField", "Primitive"}
             /\ S!StructField(f)' = S!StructField(f)
  BY <1>1 DEF S!StructField, S!HasLen, S!Names, S!IsArrayMeta
<1>4. S!TypeOK'
  <2>1. sorted' \in Seq({"Array", "String", "StructPtr", "LenField", "Primitive"})
    BY <1>1, <1>2, <1>3
  <2>2. k' \in 1..(Len(fields') + 1)
    BY <1>1, <1>2 DEF S!TypeOK
  <2> QED
    BY <1>1, <2>1, <2>2 DEF S!TypeOK
<1>5. S!SortInv'
  <2>1. Len(sorted') = k' - 1
    BY <1>1, <1>2
  <2>2. ASSUME NEW i \in DOMAIN sorted' PROVE sorted'[i] = S!StructField(fields[i])
    <3>1. CASE i = k
      BY <1>1, <1>2, <3>1
    <3>2. CASE i # k
      <4>1. i \in DOMAIN sorted /\ sorted'[i] = sorted[i]
        BY <1>1, <1>2, <3>2
      <4> QED
        BY <4>1 DEF S!SortInv
    <3> QED
      BY <3>1, <3>2
  <2> QED
    BY <1>1, <1>3, <2>1, <2>2 DEF S!SortInv
<1>6. S!EmitInv'
  BY <1>1 DEF S!EmitInv, S!BoundNames, S!SortInv
<1> QED
  BY <1>4, <1>5, <1>6

LEMMA SortedAllStep ==
  ASSUME FieldsInv, S!SortedAll
  PROVE  FieldsInv'
<1> USE DEF FieldsInv
<1>1. /\ at = "sort" /\ k > Len(fields) /\ at' = "emit" /\ k' = 1
      /\ UNCHANGED <<fields, sorted, declared, bound, read, set>>
  BY DEF S!SortedAll
<1>2. fields \in Seq(S!Field) /\ k = Len(fields) + 1
  BY <1>1, StructsAssumption DEF S!TypeOK, S!StructsAssumption
<1>3. \A f : S!StructField(f)' = S!StructField(f)
  BY <1>1 DEF S!StructField, S!HasLen, S!Names, S!IsArrayMeta
<1>4. S!TypeOK'
  BY <1>1, <1>2 DEF S!TypeOK
<1>5. S!SortInv'
  BY <1>1, <1>2, <1>3 DEF S!SortInv
<1>6. S!EmitInv'
  BY <1>1, <1>2 DEF S!EmitInv, S!BoundNames, S!SortInv
<1> QED
  BY <1>4, <1>5, <1>6

(* What a field leaves behind: its own name unless it is skipped, and the length and  *)
(* capacity of an array.                                                             *)
LEMMA FieldOutput ==
  ASSUME fields \in Seq(S!Field), NEW i \in DOMAIN fields,
         NEW s, s = S!StructField(fields[i])
  PROVE  /\ S!Bindings(fields[i], s) \in Seq(S!Name)
         /\ S!Sets(fields[i], s) \subseteq [name : S!Name, camel : BOOLEAN]
         /\ S!Reads(fields[i], s) \subseteq [name : S!Name, camel : BOOLEAN]
         /\ S!Camel(fields[i].name) \in [name : S!Name, camel : BOOLEAN]
         /\ s = "Array" =>
              /\ S!Part(fields[i], "len") \in S!Names
              /\ \A n : S!Binds(fields[i], n) <=>
                    \/ n \in {fields[i].name, S!Part(fields[i], "len")}
                    \/ S!HasCap(fields[i]) /\ n = S!Part(fields[i], "cap")
              /\ \A n : (\E m \in S!Sets(fields[i], s) : m.name = n) <=>
                    n \in {fields[i].name, S!Part(fields[i], "len")}
         /\ s # "Array" =>
              /\ \A n : S!Binds(fields[i], n) <=> ~S!Skipped(fields[i], s) /\ n = fields[i].name
              /\ \A n : (\E m \in S!Sets(fields[i], s) : m.name = n) <=>
                    ~S!Skipped(fields[i], s) /\ n = fields[i].name
<1> DEFINE f == fields[i]
<1>1. f \in S!Field /\ f.name \in S!Names /\ f.name \in S!Name /\ f.name.suffix \in {"none", "ptr", "len", "cap"}
  <2>1. f \in S!Field
    OBVIOUS
  <2>2. f.name \in S!Name
    BY <2>1 DEF S!Field
  <2>3. f.name \in S!Names
    BY DEF S!Names
  <2> QED
    BY <2>1, <2>2, <2>3 DEF S!Name
<1>2. /\ S!Part(f, "len") \in S!Name /\ S!Part(f, "cap") \in S!Name
  BY <1>1 DEF S!Part, S!Name
<1>3. s = "Array" => S!Part(f, "len") \in S!Names
  BY DEF S!StructField, S!HasLen, S!Part, S!IsArrayMeta
<1>4. S!HasCap(f) => S!Part(f, "cap") \in S!Names
  BY DEF S!HasCap, S!Part
<1>5. s \in {"Array", "String", "StructPtr", "LenField", "Primitive"}
  BY DEF S!StructField
<1>6. \A n \in S!Name : S!Camel(n) \in [name : S!Name, camel : BOOLEAN] /\ S!Camel(n).name = n
                        /\ S!Snake(n) \in [name : S!Name, camel : BOOLEAN] /\ S!Snake(n).name = n
  BY DEF S!Camel, S!Snake
<1> HIDE DEF f
<1>7. CASE s = "Array"
  <2> DEFINE len == S!Part(f, "len")
             cap == S!Part(f, "cap")
  <2>1. S!Bindings(f, s) = <<len>> \o (IF S!HasCap(f) THEN <<cap>> ELSE <<>>) \o <<f.name>>
    BY <1>7 DEF S!Bindings, S!Skipped
  <2>2. S!Sets(f, s) = {S!Camel(f.name), S!Camel(len)} /\ S!Reads(f, s) = {S!Snake(f.name)}
    BY <1>7 DEF S!Sets, S!Reads, S!Skipped
  <2> HIDE DEF len, cap
  <2>3. len \in S!Name /\ cap \in S!Name /\ len \in S!Names /\ (S!HasCap(f) => cap \in S!Names)
    BY <1>2, <1>3, <1>4, <1>7 DEF len, cap
  <2>4. /\ S!Sets(f, s) \subseteq [name : S!Name, camel : BOOLEAN]
        /\ S!Reads(f, s) \subseteq [name : S!Name, camel : BOOLEAN]
        /\ S!Camel(f.name) \in [name : S!Name, camel : BOOLEAN]
        /\ \A n : (\E m \in S!Sets(f, s) : m.name = n) <=> n \in {f.name, len}
    BY <1>1, <1>6, <2>2, <2>3
  <2>5. CASE S!HasCap(f)
    <3>1. S!Bindings(f, s) = <<len>> \o <<cap>> \o <<f.name>>
      BY <2>1, <2>5
    <3> DEFINE b == <<len>> \o <<cap>>
    <3>2. b \in Seq(S!Name) /\ Len(b) = 2 /\ b[1] = len /\ b[2] = cap
      BY <2>3
    <3> HIDE DEF b
    <3> DEFINE c == b \o <<f.name>>
    <3>3. c \in Seq(S!Name) /\ Len(c) = 3 /\ c[1] = len /\ c[2] = cap /\ c[3] = f.name
      <4>1. f.name \in S!Name
        BY <1>1
      <4>2. ASSUME NEW e \in S!Name, NEW q \in Seq(S!Name), Len(q) = 2
            PROVE  LET d == q \o <<e>>
                   IN  d \in Seq(S!Name) /\ Len(d) = 3 /\ d[1] = q[1] /\ d[2] = q[2] /\ d[3] = e
        <5>1. <<e>> \in Seq(S!Name) /\ Len(<<e>>) = 1 /\ <<e>>[1] = e
          OBVIOUS
        <5>2. 1 \in 1..Len(q) /\ 2 \in 1..Len(q) /\ 1 \in 1..Len(<<e>>) /\ Len(q) + 1 = 3
          BY <4>2, <5>1
        <5>3. (q \o <<e>>)[Len(q) + 1] = <<e>>[1]
          BY <5>1, <5>2, Concatenated
        <5>4. q \o <<e>> \in Seq(S!Name) /\ Len(q \o <<e>>) = Len(q) + Len(<<e>>)
          BY <5>1, Concatenated
        <5>5. (q \o <<e>>)[1] = q[1] /\ (q \o <<e>>)[2] = q[2]
          BY <5>1, <5>2, Concatenated
        <5>6. (q \o <<e>>)[3] = e
          BY <5>1, <5>2, <5>3
        <5> QED
          BY <4>2, <5>1, <5>4, <5>5, <5>6
      <4> QED
        BY <3>2, <4>1, <4>2
    <3>4. /\ S!Bindings(f, s)[1] = len /\ S!Bindings(f, s)[2] = cap /\ S!Bindings(f, s)[3] = f.name
          /\ DOMAIN S!Bindings(f, s) = {1, 2, 3} /\ S!Bindings(f, s) \in Seq(S!Name)
      BY <3>1, <3>3 DEF b
    <3>5. \A n : S!Binds(f, n) <=> n \in {f.name, len, cap}
      BY <1>7, <3>4 DEF S!Binds, f
    <3>6. S!Bindings(f, s) \in Seq(S!Name)
      BY <3>4
    <3> QED
      BY <1>7, <2>3, <2>5, <2>4, <3>5, <3>6 DEF f, len, cap
  <2>6. CASE ~S!HasCap(f)
    <3>1. S!Bindings(f, s) = <<len>> \o <<>> \o <<f.name>>
      BY <2>1, <2>6
    <3> DEFINE b == <<len>> \o <<>>
    <3>2. b \in Seq(S!Name) /\ Len(b) = 1 /\ b[1] = len
      BY <2>3
    <3> HIDE DEF b
    <3> DEFINE c == b \o <<f.name>>
    <3>3. c \in Seq(S!Name) /\ Len(c) = 2 /\ c[1] = len /\ c[2] = f.name
      <4>1. f.name \in S!Name
        BY <1>1
      <4>2. ASSUME NEW e \in S!Name, NEW q \in Seq(S!Name), Len(q) = 1
            PROVE  LET d == q \o <<e>>
                   IN  d \in Seq(S!Name) /\ Len(d) = 2 /\ d[1] = q[1] /\ d[2] = e
        <5>1. <<e>> \in Seq(S!Name) /\ Len(<<e>>) = 1 /\ <<e>>[1] = e
          OBVIOUS
        <5> QED
          BY <4>2, <5>1, Concatenated
      <4> QED
        BY <3>2, <4>1, <4>2
    <3>4. /\ S!Bindings(f, s)[1] = len /\ S!Bindings(f, s)[2] = f.name
          /\ DOMAIN S!Bindings(f, s) = {1, 2} /\ S!Bindings(f, s) \in Seq(S!Name)
      BY <3>1, <3>3 DEF b
    <3>5. \A n : S!Binds(f, n) <=> n \in {f.name, len}
      BY <1>7, <3>4 DEF S!Binds, f
    <3>6. S!Bindings(f, s) \in Seq(S!Name)
      BY <3>4
    <3> QED
      BY <1>7, <2>3, <2>6, <2>4, <3>5, <3>6 DEF f, len, cap
  <2> QED
    BY <2>5, <2>6
<1>8. CASE S!Skipped(f, s)
  <2>1. s # "Array" /\ s \notin {"StructPtr", "String"}
    BY <1>8 DEF S!Skipped
  <2>2. S!Bindings(f, s) = <<>> /\ S!Sets(f, s) = {} /\ S!Reads(f, s) = {}
    BY <1>8, <2>1 DEF S!Bindings, S!Sets, S!Reads
  <2>3. S!Camel(f.name) \in [name : S!Name, camel : BOOLEAN]
    BY <1>1, <1>6
  <2>4. S!Bindings(f, s) \in Seq(S!Name) /\ DOMAIN S!Bindings(f, s) = {}
    BY <2>2
  <2>5. \A n : ~S!Binds(f, n)
    BY <2>4 DEF S!Binds, f
  <2> QED
    BY <1>8, <2>1, <2>2, <2>3, <2>4, <2>5 DEF f
<1>9. CASE s # "Array" /\ ~S!Skipped(f, s)
  <2>1. /\ S!Bindings(f, s) = <<f.name>>
        /\ S!Sets(f, s) \in {{S!Snake(f.name)}, {S!Camel(f.name)}}
        /\ S!Reads(f, s) \in {{S!Snake(f.name)}, {S!Camel(f.name)}}
    BY <1>9 DEF S!Bindings, S!Sets, S!Reads
  <2>2. /\ S!Bindings(f, s)[1] = f.name /\ DOMAIN S!Bindings(f, s) = {1}
        /\ S!Bindings(f, s) \in Seq(S!Name)
    BY <1>1, <2>1
  <2>3. \A n : S!Binds(f, n) <=> n = f.name
    BY <2>2 DEF S!Binds, f
  <2>4. /\ S!Sets(f, s) \subseteq [name : S!Name, camel : BOOLEAN]
        /\ S!Reads(f, s) \subseteq [name : S!Name, camel : BOOLEAN]
        /\ S!Camel(f.name) \in [name : S!Name, camel : BOOLEAN]
        /\ \A n : (\E m \in S!Sets(f, s) : m.name = n) <=> n = f.name
    BY <1>1, <1>6, <2>1
  <2> QED
    BY <1>9, <2>2, <2>3, <2>4 DEF f
<1> QED
  BY <1>7, <1>8, <1>9 DEF f

(* No step but those of the two loops changes what is said of the fields.             *)
LEMMA SameFields ==
  ASSUME UNCHANGED fields
  PROVE  /\ \A g : S!StructField(g)' = S!StructField(g)
         /\ \A g, t : S!Bindings(g, t)' = S!Bindings(g, t) /\ S!Sets(g, t)' = S!Sets(g, t)
         /\ \A g, n : S!Binds(g, n)' = S!Binds(g, n)
         /\ \A g : S!Camel(g)' = S!Camel(g)
<1>1. \A g : S!StructField(g)' = S!StructField(g)
  BY DEF S!StructField, S!HasLen, S!Names, S!IsArrayMeta
<1>2. \A g, t : S!Bindings(g, t)' = S!Bindings(g, t) /\ S!Sets(g, t)' = S!Sets(g, t)
  BY DEF S!Bindings, S!HasCap, S!Names, S!Part, S!Sets, S!Camel, S!Snake, S!Skipped
<1>3. \A g, n : S!Binds(g, n)' = S!Binds(g, n)
  BY <1>1, <1>2 DEF S!Binds
<1> QED
  BY <1>1, <1>2, <1>3 DEF S!Camel

LEMMA EmitFieldStep ==
  ASSUME FieldsInv, S!EmitField
  PROVE  FieldsInv'
<1> USE DEF FieldsInv
<1> DEFINE f == fields[k]
           s == sorted[k]
<1>1. /\ at = "emit" /\ k \in Nat /\ k <= Len(fields) /\ k >= 1
      /\ UNCHANGED <<fields, sorted>>
      /\ fields \in Seq(S!Field) /\ k \in DOMAIN fields /\ DOMAIN sorted = DOMAIN fields
  BY StructsAssumption DEF S!EmitField, S!TypeOK, S!StructsAssumption, S!SortInv
<1>2. s = S!StructField(f)
  BY <1>1 DEF S!SortInv
<1>3. /\ \A g : S!StructField(g)' = S!StructField(g)
      /\ \A g, t : S!Sets(g, t)' = S!Sets(g, t)
      /\ \A g, n : S!Binds(g, n)' = S!Binds(g, n)
      /\ \A g : S!Camel(g)' = S!Camel(g)
  BY <1>1, SameFields
<1>4. CASE f.type = "other"
  <2>1. at' = "refused" /\ UNCHANGED <<k, declared, bound, read, set>>
    BY <1>4 DEF S!EmitField
  <2>2. S!TypeOK' /\ S!SortInv'
    BY <1>1, <1>3, <2>1 DEF S!TypeOK, S!SortInv
  <2>3. S!EmitInv'
    BY <1>1, <1>3, <2>1 DEF S!EmitInv, S!BoundNames
  <2> QED
    BY <2>2, <2>3
<1>5. CASE f.type # "other"
  <2> DEFINE b == S!Bindings(f, s)
             sets == S!Sets(f, s)
  <2>1. /\ declared' = declared \cup {S!Camel(f.name)} /\ bound' = bound \o b
        /\ read' = read \cup S!Reads(f, s) /\ set' = set \cup sets
        /\ k' = k + 1 /\ at' = at
    BY <1>5 DEF S!EmitField
  <2>2. /\ b \in Seq(S!Name)
        /\ sets \subseteq [name : S!Name, camel : BOOLEAN]
        /\ S!Reads(f, s) \subseteq [name : S!Name, camel : BOOLEAN]
        /\ S!Camel(f.name) \in [name : S!Name, camel : BOOLEAN]
    BY <1>1, <1>2, FieldOutput
  <2> HIDE DEF b, sets
  <2>3. S!TypeOK'
    <3>1. bound' \in Seq(S!Name)
      BY <2>1, <2>2 DEF S!TypeOK
    <3>2. k' \in 1..(Len(fields') + 1)
      BY <1>1, <2>1
    <3> QED
      BY <1>1, <2>1, <2>2, <3>1, <3>2 DEF S!TypeOK
  <2>4. S!SortInv'
    BY <1>1, <1>3, <2>1 DEF S!SortInv
  <2>5. bound \in Seq(S!Name)
    BY DEF S!TypeOK
  <2>6. \A n : n \in S!BoundNames' <=> n \in S!BoundNames \/ \E j \in DOMAIN b : n = b[j]
    <3>1. ASSUME NEW j \in DOMAIN bound' PROVE \/ \E l \in DOMAIN bound : bound'[j] = bound[l]
                                               \/ \E l \in DOMAIN b : bound'[j] = b[l]
      <4>1. CASE j <= Len(bound)
        BY <2>1, <2>2, <2>5, <4>1
      <4>2. CASE j > Len(bound)
        <5>1. j - Len(bound) \in DOMAIN b /\ bound'[j] = b[j - Len(bound)]
          BY <2>1, <2>2, <2>5, <4>2
        <5> QED
          BY <5>1
      <4> QED
        BY <2>1, <2>2, <2>5, <4>1, <4>2
    <3>2. ASSUME NEW l \in DOMAIN bound PROVE l \in DOMAIN bound' /\ bound'[l] = bound[l]
      BY <2>1, <2>2, <2>5
    <3>3. ASSUME NEW l \in DOMAIN b PROVE \E j \in DOMAIN bound' : bound'[j] = b[l]
      <4>1. Len(bound) + l \in DOMAIN bound' /\ bound'[Len(bound) + l] = b[l]
        BY <2>1, <2>2, <2>5
      <4> QED
        BY <4>1
    <3> QED
      BY <3>1, <3>2, <3>3 DEF S!BoundNames
  <2>7. \A n : S!Binds(f, n) <=> \E m \in DOMAIN b : n = b[m]
    BY <1>2 DEF S!Binds, b
  <2>8. sets = S!Sets(f, S!StructField(f))
    BY <1>2 DEF sets
  <2>9. S!EmitInv'
    <3>1. ASSUME NEW n \in S!BoundNames' PROVE \E i \in DOMAIN fields : S!Binds(fields[i], n)
      BY <1>1, <2>6, <2>7 DEF S!EmitInv
    <3>2. ASSUME NEW m \in set'
          PROVE  \E i \in DOMAIN fields : m \in S!Sets(fields[i], S!StructField(fields[i]))
      BY <1>1, <2>1, <2>8 DEF S!EmitInv
    <3>3. ASSUME NEW i \in DOMAIN fields, i < k + 1
          PROVE  /\ \A n \in S!Name : S!Binds(fields[i], n) => n \in S!BoundNames'
                 /\ S!Sets(fields[i], S!StructField(fields[i])) \subseteq set'
                 /\ S!Camel(fields[i].name) \in declared'
      <4>1. CASE i = k
        BY <2>1, <2>6, <2>7, <2>8, <4>1
      <4>2. CASE i # k
        <5>1. i < k
          BY <1>1, <3>3, <4>2
        <5> QED
          BY <1>1, <2>1, <2>6, <5>1 DEF S!EmitInv
      <4> QED
        BY <4>1, <4>2
    <3> QED
      BY <1>1, <1>3, <2>1, <3>1, <3>2, <3>3 DEF S!EmitInv
  <2> QED
    BY <2>3, <2>4, <2>9
<1> QED
  BY <1>4, <1>5

LEMMA EmittedAllStep ==
  ASSUME FieldsInv, S!EmittedAll
  PROVE  FieldsInv'
<1> USE DEF FieldsInv
<1>1. /\ at = "emit" /\ k > Len(fields) /\ at' = "done"
      /\ UNCHANGED <<fields, k, sorted, declared, bound, read, set>>
  BY DEF S!EmittedAll
<1>2. k = Len(fields) + 1
  <2>1. fields \in Seq(S!Field)
    BY StructsAssumption DEF S!TypeOK, S!StructsAssumption
  <2>2. k \in 1..(Len(fields) + 1) /\ Len(fields) \in Nat
    BY <2>1 DEF S!TypeOK
  <2> QED
    BY <1>1, <2>2
<1>3. /\ \A g : S!StructField(g)' = S!StructField(g)
      /\ \A g, t : S!Sets(g, t)' = S!Sets(g, t)
      /\ \A g, n : S!Binds(g, n)' = S!Binds(g, n)
      /\ \A g : S!Camel(g)' = S!Camel(g)
  BY <1>1, SameFields
<1>4. S!TypeOK'
  BY <1>1 DEF S!TypeOK
<1>5. S!SortInv'
  BY <1>1, <1>2, <1>3 DEF S!SortInv
<1>6. S!EmitInv'
  BY <1>1, <1>3 DEF S!EmitInv, S!BoundNames
<1> QED
  BY <1>4, <1>5, <1>6

(* The struct's side of the instance moves as JavaFields says. *)
LEMMA MarshalFields == MarshalSpec => S!Spec
<1>1. MarshalInit => S!Init
  BY DEF MarshalInit
<1>2. [MarshalNext]_<<vars, structVars>> => [S!Next]_(S!vars)
  BY DEF MarshalNext, structVars, S!vars
<1> QED
  BY <1>1, <1>2, PTL DEF MarshalSpec, S!Spec

LEMMA FieldsInvariant == S!Spec => []FieldsInv
<1>1. S!Init => FieldsInv
  <2> SUFFICES ASSUME S!Init PROVE FieldsInv
    OBVIOUS
  <2>1. fields \in Seq(S!Field) /\ fields \in Structs
    BY StructsAssumption DEF S!Init, S!StructsAssumption
  <2>2. S!TypeOK
    BY <2>1 DEF S!Init, S!TypeOK
  <2> QED
    BY <2>2 DEF FieldsInv, S!Init, S!SortInv, S!EmitInv, S!BoundNames
<1>2. FieldsInv /\ [S!Next]_(S!vars) => FieldsInv'
  <2>1. ASSUME FieldsInv, UNCHANGED S!vars PROVE FieldsInv'
    <3>1. /\ \A g : S!StructField(g)' = S!StructField(g)
          /\ \A g, t : S!Sets(g, t)' = S!Sets(g, t)
          /\ \A g, n : S!Binds(g, n)' = S!Binds(g, n)
          /\ \A g : S!Camel(g)' = S!Camel(g)
      BY <2>1, SameFields DEF S!vars
    <3>2. S!TypeOK' /\ S!SortInv'
      BY <2>1, <3>1 DEF FieldsInv, S!vars, S!TypeOK, S!SortInv
    <3>3. S!EmitInv'
      BY <2>1, <3>1 DEF FieldsInv, S!vars, S!EmitInv, S!BoundNames
    <3> QED
      BY <3>2, <3>3 DEF FieldsInv
  <2> QED
    BY <2>1, SortFieldStep, SortedAllStep, EmitFieldStep, EmittedAllStep DEF S!Next
<1> QED
  BY <1>1, <1>2, PTL DEF S!Spec

(* When the loop is done: what is bound and set is what some field leaves behind.     *)
LEMMA FieldsDone ==
  ASSUME FieldsInv, at = "done"
  PROVE  /\ fields \in Seq(S!Field)
         /\ \A i, j \in DOMAIN fields : fields[i].name = fields[j].name => i = j
         /\ \A n \in S!Name : n \in S!BoundNames <=> \E i \in DOMAIN fields : S!Binds(fields[i], n)
         /\ S!BoundNames \subseteq S!Name
         /\ \A m : m \in set <=> \E i \in DOMAIN fields : m \in S!Sets(fields[i], S!StructField(fields[i]))
         /\ \A i \in DOMAIN fields : S!Camel(fields[i].name) \in declared
<1>1. fields \in Seq(S!Field) /\ \A i, j \in DOMAIN fields : fields[i].name = fields[j].name => i = j
  BY StructsAssumption DEF FieldsInv, S!TypeOK, S!StructsAssumption
<1>2. \A i \in DOMAIN fields : i < k
  BY <1>1 DEF FieldsInv, S!SortInv
<1>3. /\ \A i \in DOMAIN fields : \A n \in S!Name : S!Binds(fields[i], n) => n \in S!BoundNames
      /\ \A i \in DOMAIN fields : S!Sets(fields[i], S!StructField(fields[i])) \subseteq set
      /\ \A i \in DOMAIN fields : S!Camel(fields[i].name) \in declared
      /\ \A n \in S!BoundNames : \E i \in DOMAIN fields : S!Binds(fields[i], n)
      /\ \A m \in set : \E i \in DOMAIN fields : m \in S!Sets(fields[i], S!StructField(fields[i]))
  BY <1>2 DEF FieldsInv, S!EmitInv
<1>4. S!BoundNames \subseteq S!Name
  BY DEF FieldsInv, S!TypeOK, S!BoundNames
<1> QED
  BY <1>1, <1>3, <1>4

(* How a name comes to be bound or set: it is that of a field that is not skipped, or  *)
(* the length or capacity of an array.                                                *)
LEMMA WhoseName ==
  ASSUME fields \in Seq(S!Field), NEW i \in DOMAIN fields
  PROVE  /\ fields[i].name \in S!Name /\ fields[i].name \in S!Names
         /\ fields[i].name = [stem |-> fields[i].name.stem, suffix |-> fields[i].name.suffix]
         /\ S!StructField(fields[i]) = "Array" <=>
               fields[i].type \in S!Pointer /\ S!HasLen(fields[i])
         /\ S!StructField(fields[i]) # "Array" =>
               (S!Skipped(fields[i], S!StructField(fields[i])) <=> S!Unconverted(fields[i]))
         /\ S!StructField(fields[i]) = "Array" => ~S!Unconverted(fields[i])
<1>1. fields[i] \in S!Field
  OBVIOUS
<1>2. fields[i].name \in S!Name /\ fields[i].name \in S!Names
  BY <1>1 DEF S!Field, S!Names
<1>3. fields[i].name = [stem |-> fields[i].name.stem, suffix |-> fields[i].name.suffix]
  BY <1>2 DEF S!Name
<1>4. fields[i].type \in S!Pointer \cup S!Path \cup {"fn", "other"}
  BY <1>1 DEF S!Field
<1> QED
  BY <1>2, <1>3, <1>4
     DEF S!StructField, S!Skipped, S!Unconverted, S!IsArrayMeta, S!Pointer, S!Path

(* The length or capacity of an array is what an array binds.                         *)
LEMMA ArrayParts ==
  ASSUME fields \in Seq(S!Field), NEW i \in DOMAIN fields
  PROVE  S!OfArray(fields[i].name) <=>
            \E j \in DOMAIN fields :
               /\ S!StructField(fields[j]) = "Array"
               /\ \/ fields[i].name = S!Part(fields[j], "len")
                  \/ S!HasCap(fields[j]) /\ fields[i].name = S!Part(fields[j], "cap")
<1> DEFINE n == fields[i].name
<1>1. n \in S!Names /\ n = [stem |-> n.stem, suffix |-> n.suffix]
  BY WhoseName
<1>2. ASSUME S!OfArray(n)
      PROVE  \E j \in DOMAIN fields :
               /\ S!StructField(fields[j]) = "Array"
               /\ \/ n = S!Part(fields[j], "len")
                  \/ S!HasCap(fields[j]) /\ n = S!Part(fields[j], "cap")
  <2>1. PICK j \in DOMAIN fields :
          /\ n.suffix \in {"len", "cap"}
          /\ fields[j].type \in S!Pointer /\ fields[j].name.stem = n.stem
          /\ fields[j].name.suffix \in {"none", "ptr"} /\ S!Part(fields[j], "len") \in S!Names
    BY <1>2 DEF S!OfArray
  <2> HIDE DEF n
  <2>2. S!StructField(fields[j]) = "Array"
    BY <2>1, WhoseName DEF S!HasLen, S!Part
  <2>3. n = S!Part(fields[j], n.suffix)
    BY <1>1, <2>1 DEF S!Part
  <2>4. n.suffix = "cap" => S!HasCap(fields[j])
    BY <1>1, <2>1 DEF S!HasCap
  <2> QED
    BY <2>1, <2>2, <2>3, <2>4
<1>3. ASSUME NEW j \in DOMAIN fields, S!StructField(fields[j]) = "Array",
             n \in {S!Part(fields[j], "len"), S!Part(fields[j], "cap")}
      PROVE  S!OfArray(n)
  <2>1. fields[j].type \in S!Pointer /\ S!HasLen(fields[j])
    BY <1>3, WhoseName
  <2> HIDE DEF n
  <2>2. n.stem = fields[j].name.stem /\ n.suffix \in {"len", "cap"}
    BY <1>3 DEF S!Part
  <2> QED
    BY <2>1, <2>2 DEF S!OfArray, S!HasLen, S!Part
<1> QED
  BY <1>2, <1>3

(* For every struct: the fields of the Rust struct for which from_java has a value     *)
(* are all but function pointers and the lengths and capacities that belong to no      *)
(* pointer, and it binds nothing else.                                                *)
THEOREM EveryFieldIsBound == MarshalSpec => []FieldsBound
<1>1. FieldsInv => FieldsBound
  <2> SUFFICES ASSUME FieldsInv, at = "done" PROVE FieldsBound
    BY DEF FieldsBound, S!FieldsBound
  <2>1. fields \in Seq(S!Field) /\ \A i, j \in DOMAIN fields : fields[i].name = fields[j].name => i = j
    BY FieldsDone
  <2>2. /\ S!BoundNames \subseteq S!Name
        /\ \A n \in S!Name : n \in S!BoundNames <=> \E i \in DOMAIN fields : S!Binds(fields[i], n)
    BY FieldsDone
  <2>3. ASSUME NEW n \in S!BoundNames PROVE n \in S!Names
    <3>1. PICK i \in DOMAIN fields : S!Binds(fields[i], n)
      BY <2>2
    <3>2. \/ n = fields[i].name
          \/ n = S!Part(fields[i], "len") /\ n \in S!Names
          \/ n = S!Part(fields[i], "cap") /\ S!HasCap(fields[i])
      BY <2>1, <3>1, FieldOutput
    <3> QED
      BY <3>2 DEF S!Names, S!HasCap, S!Part
  <2>4. ASSUME NEW i \in DOMAIN fields
        PROVE  fields[i].name \in S!BoundNames <=> ~S!Unconverted(fields[i]) \/ S!OfArray(fields[i].name)
    <3>1. fields[i].name \in S!BoundNames <=>
            \E j \in DOMAIN fields : S!Binds(fields[j], fields[i].name)
      BY <2>1, <2>2, WhoseName
    <3>2. ASSUME NEW j \in DOMAIN fields
          PROVE  S!Binds(fields[j], fields[i].name) <=>
                   \/ j = i /\ ~S!Unconverted(fields[i])
                   \/ /\ S!StructField(fields[j]) = "Array"
                      /\ \/ fields[i].name = S!Part(fields[j], "len")
                         \/ S!HasCap(fields[j]) /\ fields[i].name = S!Part(fields[j], "cap")
      <4>1. fields[i].name = fields[j].name <=> j = i
        BY <2>1
      <4>2. S!StructField(fields[j]) = "Array" => ~S!Unconverted(fields[j])
        BY <2>1, WhoseName
      <4>3. S!StructField(fields[j]) # "Array" =>
              (S!Skipped(fields[j], S!StructField(fields[j])) <=> S!Unconverted(fields[j]))
        BY <2>1, WhoseName
      <4>4. S!StructField(fields[j]) = "Array" =>
              (S!Binds(fields[j], fields[i].name) <=>
                 \/ fields[i].name \in {fields[j].name, S!Part(fields[j], "len")}
                 \/ S!HasCap(fields[j]) /\ fields[i].name = S!Part(fields[j], "cap"))
        BY <2>1, FieldOutput
      <4>5. S!StructField(fields[j]) # "Array" =>
              (S!Binds(fields[j], fields[i].name) <=>
                 ~S!Skipped(fields[j], S!StructField(fields[j])) /\ fields[i].name = fields[j].name)
        BY <2>1, FieldOutput
      <4> QED
        BY <4>1, <4>2, <4>3, <4>4, <4>5
    <3> QED
      BY <2>1, <3>1, <3>2, ArrayParts
  <2> QED
    BY <2>3, <2>4 DEF FieldsBound, S!FieldsBound
<1> QED
  BY <1>1, MarshalFields, FieldsInvariant, PTL

(* For every struct: to_java sets each member of the Java class but function pointers, *)
(* capacities, and lengths that belong to no pointer, and none that the class has not. *)
THEOREM EveryMemberIsSet == MarshalSpec => []MembersSet
<1>1. FieldsInv => MembersSet
  <2> SUFFICES ASSUME FieldsInv, at = "done" PROVE MembersSet
    BY DEF MembersSet, S!MembersSet
  <2> DEFINE assigned == {m.name : m \in set}
             Sets(i) == S!Sets(fields[i], S!StructField(fields[i]))
  <2>1. fields \in Seq(S!Field) /\ \A i, j \in DOMAIN fields : fields[i].name = fields[j].name => i = j
    BY FieldsDone
  <2>2. \A n : n \in assigned <=> \E i \in DOMAIN fields : \E m \in Sets(i) : m.name = n
    <3>1. \A m : m \in set <=> \E i \in DOMAIN fields : m \in Sets(i)
      BY FieldsDone
    <3> HIDE DEF Sets
    <3> QED
      BY <3>1
  <2>3. ASSUME NEW i \in DOMAIN fields, NEW n
        PROVE  (\E m \in Sets(i) : m.name = n) <=>
                 \/ n = fields[i].name /\ ~S!Unconverted(fields[i])
                 \/ S!StructField(fields[i]) = "Array" /\ n = S!Part(fields[i], "len")
    <3>1. /\ S!StructField(fields[i]) = "Array" => ~S!Unconverted(fields[i])
          /\ S!StructField(fields[i]) # "Array" =>
               (S!Skipped(fields[i], S!StructField(fields[i])) <=> S!Unconverted(fields[i]))
      BY <2>1, WhoseName
    <3>2. S!StructField(fields[i]) = "Array" =>
            ((\E m \in Sets(i) : m.name = n) <=> n \in {fields[i].name, S!Part(fields[i], "len")})
      BY <2>1, FieldOutput
    <3>3. S!StructField(fields[i]) # "Array" =>
            ((\E m \in Sets(i) : m.name = n) <=>
               ~S!Skipped(fields[i], S!StructField(fields[i])) /\ n = fields[i].name)
      <4> DEFINE s == S!StructField(fields[i])
      <4>1. s # "Array" =>
              \A x : (\E m \in S!Sets(fields[i], s) : m.name = x) <=>
                        ~S!Skipped(fields[i], s) /\ x = fields[i].name
        BY <2>1, FieldOutput, Zenon
      <4> HIDE DEF s
      <4>2. s # "Array" =>
              ((\E m \in S!Sets(fields[i], s) : m.name = n) <=>
                 ~S!Skipped(fields[i], s) /\ n = fields[i].name)
        BY <4>1
      <4> QED
        BY <4>2 DEF s
    <3> QED
      BY <3>1, <3>2, <3>3
  <2> HIDE DEF Sets, assigned
  <2>4. assigned \subseteq {m.name : m \in declared}
    <3> SUFFICES ASSUME NEW n \in assigned PROVE \E d \in declared : d.name = n
      OBVIOUS
    <3>1. PICK i \in DOMAIN fields : \E m \in Sets(i) : m.name = n
      BY <2>2
    <3>2. n \in S!Names
      <4>1. S!StructField(fields[i]) = "Array" => S!Part(fields[i], "len") \in S!Names
        BY <2>1, FieldOutput
      <4>2. fields[i].name \in S!Names
        BY <2>1, WhoseName
      <4>3. (\E m \in Sets(i) : m.name = n) =>
               \/ n = fields[i].name
               \/ S!StructField(fields[i]) = "Array" /\ n = S!Part(fields[i], "len")
        BY <2>3
      <4> QED
        BY <3>1, <4>1, <4>2, <4>3
    <3>3. PICK j \in DOMAIN fields : n = fields[j].name
      BY <3>2 DEF S!Names
    <3>4. S!Camel(fields[j].name).name = fields[j].name
      BY DEF S!Camel
    <3> QED
      BY <3>3, <3>4, FieldsDone
  <2>5. ASSUME NEW i \in DOMAIN fields
        PROVE  fields[i].name \in assigned <=>
                 \/ ~S!Unconverted(fields[i])
                 \/ fields[i].name.suffix = "len" /\ S!OfArray(fields[i].name)
    <3> DEFINE n == fields[i].name
    <3>1. n \in assigned <=>
            \/ ~S!Unconverted(fields[i])
            \/ \E j \in DOMAIN fields :
                  S!StructField(fields[j]) = "Array" /\ n = S!Part(fields[j], "len")
      <4>1. \A j \in DOMAIN fields : n = fields[j].name <=> j = i
        BY <2>1
      <4> HIDE DEF n
      <4>2. n \in assigned <=> \E j \in DOMAIN fields : \E m \in Sets(j) : m.name = n
        BY <2>2
      <4>3. \A j \in DOMAIN fields : (\E m \in Sets(j) : m.name = n) <=>
               \/ n = fields[j].name /\ ~S!Unconverted(fields[j])
               \/ S!StructField(fields[j]) = "Array" /\ n = S!Part(fields[j], "len")
        BY <2>3
      <4> QED
        BY <4>1, <4>2, <4>3
    <3>2. ASSUME NEW j \in DOMAIN fields
          PROVE  /\ fields[i].name = S!Part(fields[j], "len") => fields[i].name.suffix = "len"
                 /\ fields[i].name = S!Part(fields[j], "cap") => fields[i].name.suffix = "cap"
      BY DEF S!Part
    <3> QED
      BY <2>1, <3>1, <3>2, ArrayParts
  <2> QED
    BY <2>4, <2>5 DEF MembersSet, S!MembersSet, assigned
<1> QED
  BY <1>1, MarshalFields, FieldsInvariant, PTL

-----------------------------------------------------------------------------
(* Parameters: the loops.                                                            *)
LEMMA Least ==
  ASSUME NEW P, P \subseteq Nat, P # {}
  PROVE  First(P) \in P /\ \A j \in P : First(P) <= j
<1>1. \E i \in P : \A j \in P : i <= j
  <2>1. PICK i \in P : \A j \in P : <<j, i>> \notin OpToRel(<, Nat)
    BY NatLessThanWellFounded, WFMin
  <2>2. ASSUME NEW j \in P PROVE i <= j
    <3>1. i \in Nat /\ j \in Nat
      OBVIOUS
    <3>2. ~(j < i)
      BY <2>1, <3>1 DEF OpToRel
    <3> QED
      BY <3>1, <3>2
  <2> QED
    BY <2>2
<1> QED
  BY <1>1 DEF First

(* What the loop takes next, and where it goes on.                                   *)
LEMMA Places ==
  ASSUME params \in Seq(Param), next \in Nat, Rest # {}
  PROVE  /\ Arg \in DOMAIN params /\ Arg >= next /\ ~IsUserData(params[Arg])
         /\ \A n \in DOMAIN params : next <= n /\ n < Arg => IsUserData(params[n])
         /\ Rest # {Arg} =>
              /\ NextArg \in DOMAIN params /\ NextArg > Arg /\ ~IsUserData(params[NextArg])
              /\ \A n \in DOMAIN params : Arg < n /\ n < NextArg => IsUserData(params[n])
<1>1. Rest \subseteq Nat
  BY DEF Rest
<1>2. Arg \in Rest /\ \A j \in Rest : Arg <= j
  BY <1>1, Least DEF Arg
<1>3. ASSUME Rest # {Arg}
      PROVE  NextArg \in Rest \ {Arg} /\ \A j \in Rest \ {Arg} : NextArg <= j
  <2>1. Rest \ {Arg} # {} /\ Rest \ {Arg} \subseteq Nat
    BY <1>1, <1>2, <1>3
  <2> QED
    BY <2>1, Least DEF NextArg
<1> HIDE DEF Arg, NextArg
<1>4. DOMAIN params \subseteq Nat
  OBVIOUS
<1>5. \A n \in DOMAIN params : n \in Rest <=> n >= next /\ ~IsUserData(params[n])
  BY DEF Rest
<1>6. Rest \subseteq DOMAIN params
  BY DEF Rest
<1>7. Arg \in DOMAIN params /\ Arg >= next /\ ~IsUserData(params[Arg])
  BY <1>2, <1>5, <1>6
<1>8. \A n \in DOMAIN params : next <= n /\ n < Arg => IsUserData(params[n])
  BY <1>2, <1>4, <1>5, <1>7
<1>9. ASSUME Rest # {Arg}
      PROVE  /\ NextArg \in DOMAIN params /\ NextArg > Arg /\ ~IsUserData(params[NextArg])
             /\ \A n \in DOMAIN params : Arg < n /\ n < NextArg => IsUserData(params[n])
  <2>1. NextArg \in DOMAIN params /\ ~IsUserData(params[NextArg]) /\ NextArg # Arg /\ Arg <= NextArg
    BY <1>2, <1>3, <1>5, <1>6, <1>9
  <2>2. ASSUME NEW n \in DOMAIN params, Arg < n, n < NextArg PROVE IsUserData(params[n])
    BY <1>3, <1>4, <1>5, <1>7, <1>9, <2>1, <2>2
  <2> QED
    BY <1>4, <1>7, <2>1, <2>2
<1> QED
  BY <1>7, <1>8, <1>9

LEMMA ArrayIsSized ==
  ASSUME params \in Seq(Param), next \in Nat, Rest # {}
  PROVE  /\ IsArray <=> IsSized(Arg)
         /\ IsArray => LengthOf(Arg, NextArg)
<1>1. /\ Arg \in DOMAIN params /\ ~IsUserData(params[Arg])
      /\ Rest # {Arg} =>
              /\ NextArg \in DOMAIN params /\ NextArg > Arg /\ ~IsUserData(params[NextArg])
              /\ \A n \in DOMAIN params : Arg < n /\ n < NextArg => IsUserData(params[n])
  BY Places
<1>2. Arg \in Rest /\ \A n \in DOMAIN params : n >= next /\ ~IsUserData(params[n]) => n \in Rest
  BY Places DEF Rest
<1>3. DOMAIN params = 1..Len(params) /\ Len(params) \in Nat
  OBVIOUS
<1> HIDE DEF Arg, NextArg, Rest
<1>4. ASSUME IsArray PROVE LengthOf(Arg, NextArg)
  <2>1. /\ NextArg \in DOMAIN params /\ NextArg > Arg
        /\ \A n \in (Arg + 1)..(NextArg - 1) : IsUserData(params[n])
    BY <1>1, <1>3, <1>4 DEF IsArray
  <2> QED
    BY <1>1, <1>4, <2>1 DEF IsArray, LengthOf
<1>5. ASSUME NEW j \in DOMAIN params, LengthOf(Arg, j) PROVE IsArray
  <2>1. ~IsUserData(params[j]) /\ Arg < j
    BY <1>5 DEF LengthOf, IsLen, IsUserData
  <2>2. j \in Rest
    BY <1>1, <1>2, <1>3, <2>1, Places
  <2>3. Rest # {Arg}
    BY <1>1, <1>3, <2>1, <2>2
  <2>4. ~(j < NextArg)
    BY <1>1, <1>3, <2>1, <2>3
  <2>5. ~(NextArg < j)
    BY <1>1, <1>3, <1>5, <2>3 DEF LengthOf
  <2>6. j = NextArg
    BY <1>1, <1>3, <2>3, <2>4, <2>5
  <2> QED
    BY <1>5, <2>3, <2>6 DEF IsArray, LengthOf
<1>6. IsArray => NextArg \in DOMAIN params
  BY <1>1 DEF IsArray
<1> QED
  BY <1>4, <1>5, <1>6 DEF IsSized

(* One step takes one parameter that a Java caller sees, and no length is left over. *)
LEMMA Advanced ==
  ASSUME params \in Seq(Param), next \in 1..(Len(params) + 1), Rest # {}, LoopInv,
         Advance, params' = params
  PROVE  /\ next' \in 1..(Len(params) + 1) /\ next <= Arg /\ Arg < next'
         /\ LoopInv' /\ Arg \in Seen
         /\ \A i \in Seen : next <= i /\ i < next' => i = Arg
<1>1. DOMAIN params = 1..Len(params) /\ Len(params) \in Nat /\ next \in Nat
  OBVIOUS
<1>2. /\ Arg \in DOMAIN params /\ Arg >= next /\ ~IsUserData(params[Arg])
      /\ \A n \in DOMAIN params : next <= n /\ n < Arg => IsUserData(params[n])
      /\ Rest # {Arg} =>
              /\ NextArg \in DOMAIN params /\ NextArg > Arg /\ ~IsUserData(params[NextArg])
              /\ \A n \in DOMAIN params : Arg < n /\ n < NextArg => IsUserData(params[n])
  BY <1>1, Places
<1>3. /\ IsArray <=> IsSized(Arg)
      /\ IsArray => LengthOf(Arg, NextArg) /\ Rest # {Arg} /\ IsLen(params[NextArg])
  BY <1>1, ArrayIsSized DEF IsArray
<1>4. next' = IF IsArray THEN NextArg + 1 ELSE Arg + 1
  BY DEF Advance
<1> HIDE DEF Arg, NextArg, Rest, IsArray
<1>5. \A i, j \in DOMAIN params : LengthOf(i, j) =>
        /\ i < j /\ ~IsUserData(params[i]) /\ ~IsLen(params[i]) /\ IsLen(params[j])
        /\ \A n \in DOMAIN params : i < n /\ n < j => IsUserData(params[n])
  <2> SUFFICES ASSUME NEW i \in DOMAIN params, NEW j \in DOMAIN params, LengthOf(i, j)
               PROVE  /\ i < j /\ ~IsUserData(params[i]) /\ ~IsLen(params[i]) /\ IsLen(params[j])
                      /\ \A n \in DOMAIN params : i < n /\ n < j => IsUserData(params[n])
    OBVIOUS
  <2>1. /\ i < j /\ \A n \in (i + 1)..(j - 1) : IsUserData(params[n])
        /\ IsPointer(params[i]) /\ ~IsUserData(params[i]) /\ IsLen(params[j])
    BY DEF LengthOf
  <2>2. ~IsLen(params[i])
    BY <2>1 DEF IsLen, IsPointer
  <2>3. \A n \in DOMAIN params : i < n /\ n < j => IsUserData(params[n])
    BY <1>1, <2>1
  <2> QED
    BY <2>1, <2>2, <2>3
<1>6. next' \in 1..(Len(params) + 1) /\ next <= Arg /\ Arg < next'
  <2>1. CASE IsArray
    <3>1. NextArg \in 1..Len(params) /\ NextArg > Arg
      BY <1>1, <1>2, <1>3, <2>1
    <3> QED
      BY <1>1, <1>2, <1>4, <2>1, <3>1
  <2>2. CASE ~IsArray
    BY <1>1, <1>2, <1>4, <2>2
  <2> QED
    BY <2>1, <2>2
<1>7. ASSUME NEW i \in DOMAIN params, NEW j \in DOMAIN params, i < next', next' <= j, LengthOf(i, j)
      PROVE  FALSE
  <2>1. \A n \in DOMAIN params : i < n /\ n < j => IsUserData(params[n])
    BY <1>5, <1>7
  <2>2. Arg <= i
    BY <1>1, <1>2, <1>6, <1>7, <2>1
  <2>3. CASE IsArray
    <3>1. /\ NextArg \in DOMAIN params /\ ~IsUserData(params[NextArg]) /\ IsLen(params[NextArg])
          /\ next' = NextArg + 1
      BY <1>2, <1>3, <1>4, <2>3
    <3>2. i # NextArg
      BY <1>5, <1>7, <3>1
    <3>3. i < NextArg /\ NextArg < j
      BY <1>1, <1>7, <3>1, <3>2
    <3> QED
      BY <2>1, <3>1, <3>3
  <2>4. CASE ~IsArray
    <3>1. i = Arg
      BY <1>1, <1>2, <1>4, <1>7, <2>2, <2>4
    <3> QED
      BY <1>3, <1>7, <2>4, <3>1 DEF IsSized
  <2> QED
    BY <2>3, <2>4
<1>8. LoopInv'
  BY <1>7 DEF LoopInv, LengthOf
<1>9. Arg \in Seen
  <2> SUFFICES ASSUME NEW j \in DOMAIN params, LengthOf(j, Arg) PROVE FALSE
    BY <1>2 DEF Seen
  <2>1. j < Arg /\ ~IsUserData(params[j])
    BY <1>2, <1>5
  <2>2. j < next
    BY <1>1, <1>2, <2>1
  <2> QED
    BY <1>2, <2>2 DEF LoopInv
<1>10. ASSUME NEW i \in Seen, next <= i, i < next', i # Arg PROVE FALSE
  <2>1. i \in DOMAIN params /\ ~IsUserData(params[i]) /\ ~LengthOf(Arg, i)
    BY <1>2 DEF Seen
  <2>2. i > Arg
    BY <1>1, <1>2, <1>10, <2>1
  <2>3. IsArray /\ next' = NextArg + 1 /\ NextArg \in DOMAIN params
    BY <1>1, <1>2, <1>3, <1>4, <1>10, <2>1, <2>2
  <2>4. ~(i < NextArg)
    BY <1>2, <1>3, <2>1, <2>2, <2>3
  <2>5. i = NextArg
    BY <1>1, <1>10, <2>1, <2>3, <2>4
  <2> QED
    BY <1>3, <2>1, <2>3, <2>5
<1> QED
  BY <1>6, <1>8, <1>9, <1>10

(* Taken, of a loop that has come to a place.                                        *)
TakenTo(list, place) ==
    /\ \A n \in DOMAIN list : list[n].of \in Seen /\ list[n].of < place
    /\ \A i \in Seen : i < place => \E n \in DOMAIN list : list[n].of = i
    /\ \A m, n \in DOMAIN list : m < n => list[m].of < list[n].of

(* A list with one element more has taken what the loop has passed.                  *)
LEMMA TakenOne ==
  ASSUME params \in Seq(Param), next \in 1..(Len(params) + 1), Rest # {}, LoopInv,
         Advance, params' = params,
         NEW D, NEW list \in Seq(D), NEW e \in D, Taken(list), e.of = Arg
  PROVE  TakenTo(Append(list, e), next')
<1> DEFINE more == Append(list, e)
<1>1. DOMAIN params = 1..Len(params) /\ Len(params) \in Nat /\ next \in Nat
  OBVIOUS
<1>2. /\ next' \in 1..(Len(params) + 1) /\ next <= Arg /\ Arg < next'
      /\ Arg \in Seen /\ \A i \in Seen : next <= i /\ i < next' => i = Arg
  BY Advanced
<1>3. Seen \subseteq DOMAIN params
  BY DEF Seen
<1>4. /\ DOMAIN more = 1..(Len(list) + 1) /\ Len(list) \in Nat /\ DOMAIN list = 1..Len(list)
      /\ \A n \in DOMAIN list : more[n] = list[n]
      /\ more[Len(list) + 1] = e
  OBVIOUS
<1> HIDE DEF Arg, more
<1>5. ASSUME NEW n \in DOMAIN more
      PROVE  /\ n \in DOMAIN list => more[n].of \in Seen /\ more[n].of < next
             /\ n \notin DOMAIN list => n = Len(list) + 1 /\ more[n].of = Arg
  BY <1>4 DEF Taken
<1>6. ASSUME NEW n \in DOMAIN more PROVE more[n].of \in Seen /\ more[n].of < next'
  BY <1>1, <1>2, <1>3, <1>5
<1>7. ASSUME NEW i \in Seen, i < next' PROVE \E n \in DOMAIN more : more[n].of = i
  <2>1. CASE i < next
    <3>1. PICK n \in DOMAIN list : list[n].of = i
      BY <2>1 DEF Taken
    <3> QED
      BY <1>4, <3>1
  <2>2. CASE ~(i < next)
    <3>1. i = Arg
      BY <1>1, <1>2, <1>3, <1>7, <2>2
    <3> QED
      BY <1>4, <3>1
  <2> QED
    BY <2>1, <2>2
<1>8. ASSUME NEW m \in DOMAIN more, NEW n \in DOMAIN more, m < n PROVE more[m].of < more[n].of
  <2>1. m \in DOMAIN list
    BY <1>4, <1>8
  <2>2. CASE n \in DOMAIN list
    BY <1>4, <1>8, <2>1, <2>2 DEF Taken
  <2>3. CASE n \notin DOMAIN list
    BY <1>1, <1>2, <1>3, <1>5, <2>1, <2>3
  <2> QED
    BY <2>2, <2>3
<1>9. TakenTo(more, next')
  BY <1>6, <1>7, <1>8 DEF TakenTo
<1> QED
  BY <1>9 DEF more

(* The second loop takes the parameter of the element at which the first one was.    *)
LEMMA KeepsStep ==
  ASSUME params \in Seq(Param), next \in 1..(Len(params) + 1), Rest # {}, LoopInv, Advance,
         params' = params, NEW F, java \in Seq(F), Presents(java),
         NEW D, NEW list \in Seq(D), NEW e \in D, Taken(list), InStep(list), e.of = Arg
  PROVE  InStep(Append(list, e))
<1> DEFINE more == Append(list, e)
<1>1. DOMAIN params = 1..Len(params) /\ Len(params) \in Nat /\ next \in Nat
  OBVIOUS
<1>2. next <= Arg /\ Arg \in Seen
  BY Advanced
<1>3. Seen \subseteq DOMAIN params /\ \A n \in Seen : ~IsUserData(params[n])
  BY DEF Seen
<1>4. \A n \in DOMAIN params : next <= n /\ n < Arg => IsUserData(params[n])
  BY <1>1, Places
<1> HIDE DEF Arg, more
<1>5. /\ DOMAIN more = 1..(Len(list) + 1) /\ Len(list) \in Nat /\ DOMAIN list = 1..Len(list)
      /\ Len(more) = Len(list) + 1
      /\ \A n \in DOMAIN list : more[n] = list[n]
      /\ more[Len(list) + 1] = e
  BY DEF more
<1>6. /\ DOMAIN java = 1..Len(java) /\ Len(java) \in Nat
      /\ \A n \in DOMAIN java : java[n].of \in Seen
      /\ \A i \in Seen : \E n \in DOMAIN java : java[n].of = i
      /\ \A m, n \in DOMAIN java : m < n => java[m].of < java[n].of
  BY DEF Presents
<1>7. PICK m \in DOMAIN java : java[m].of = Arg
  BY <1>2, <1>6
<1>8. ASSUME m <= Len(list) PROVE FALSE
  <2>1. m \in DOMAIN list
    BY <1>5, <1>6, <1>8
  <2>2. list[m].of = Arg /\ list[m].of < next
    BY <1>7, <2>1 DEF InStep, Taken
  <2> QED
    BY <1>1, <1>2, <1>3, <2>2
<1> DEFINE l == Len(list) + 1
<1>9. l \in DOMAIN java /\ m >= l
  BY <1>5, <1>6, <1>8
<1>10. ASSUME m # l PROVE FALSE
  <2>1. m \in DOMAIN java /\ l \in DOMAIN java /\ l < m
    BY <1>5, <1>6, <1>9, <1>10
  <2>2. java[l].of < Arg /\ java[l].of \in Seen
    BY <1>6, <1>7, <2>1
  <2>3. java[l].of < next
    BY <1>1, <1>2, <1>3, <1>4, <2>2
  <2>4. PICK n \in DOMAIN list : list[n].of = java[l].of
    BY <2>2, <2>3 DEF Taken
  <2>5. n \in DOMAIN java /\ n < l /\ java[n].of = java[l].of
    BY <1>5, <1>6, <1>9, <2>4 DEF InStep
  <2>6. java[n].of < java[l].of /\ java[l].of \in Nat
    BY <1>1, <1>3, <1>6, <1>9, <2>5
  <2> QED
    BY <2>5, <2>6
<1>11. Len(more) <= Len(java)
  BY <1>5, <1>6, <1>9
<1>12. ASSUME NEW n \in DOMAIN more PROVE more[n].of = java[n].of
  <2>1. CASE n \in DOMAIN list
    BY <1>5, <2>1 DEF InStep
  <2>2. CASE n \notin DOMAIN list
    <3>1. n = l
      BY <1>5, <2>2
    <3> QED
      BY <1>5, <1>7, <1>10, <3>1
  <2> QED
    BY <2>1, <2>2
<1>13. InStep(more)
  BY <1>11, <1>12 DEF InStep
<1> QED
  BY <1>13 DEF more

(* At the end of a loop its list has an element for each of them.                    *)
LEMMA TakenAll ==
  ASSUME params \in Seq(Param), next \in 1..(Len(params) + 1), Rest = {},
         NEW D, NEW list \in Seq(D), Taken(list)
  PROVE  Presents(list)
<1>1. ASSUME NEW i \in Seen PROVE i < next
  <2>1. i \in DOMAIN params /\ ~IsUserData(params[i])
    BY DEF Seen
  <2> QED
    BY <2>1 DEF Rest
<1>2. {list[n].of : n \in DOMAIN list} \subseteq Seen
  BY DEF Taken
<1>3. ASSUME NEW i \in Seen PROVE i \in {list[n].of : n \in DOMAIN list}
  <2>1. \E n \in DOMAIN list : list[n].of = i
    BY <1>1 DEF Taken
  <2> QED
    BY <2>1
<1> QED
  BY <1>2, <1>3 DEF Presents, Taken

LEMMA StepKept ==
  ASSUME params \in Seq(Param), next \in 1..(Len(params) + 1), Rest = {},
         NEW F, java \in Seq(F), Presents(java),
         NEW D, NEW list \in Seq(D), Taken(list), InStep(list)
  PROVE  Len(list) = Len(java)
<1>1. DOMAIN params = 1..Len(params) /\ Len(params) \in Nat /\ next \in Nat
  OBVIOUS
<1>2. /\ DOMAIN java = 1..Len(java) /\ Len(java) \in Nat
      /\ \A n \in DOMAIN java : java[n].of \in Seen
      /\ \A m, n \in DOMAIN java : m < n => java[m].of < java[n].of
      /\ DOMAIN list = 1..Len(list) /\ Len(list) \in Nat
  BY DEF Presents
<1>3. Seen \subseteq DOMAIN params
  BY DEF Seen
<1> DEFINE l == Len(list) + 1
<1>4. ASSUME l <= Len(java) PROVE FALSE
  <2>1. l \in DOMAIN java /\ java[l].of \in Seen
    BY <1>2, <1>4
  <2>2. Presents(list)
    BY TakenAll
  <2>3. PICK n \in DOMAIN list : list[n].of = java[l].of
    BY <2>1, <2>2 DEF Presents
  <2>4. n \in DOMAIN java /\ n < l /\ java[n].of = java[l].of
    BY <1>2, <1>4, <2>3 DEF InStep
  <2>5. java[n].of < java[l].of /\ java[l].of \in Nat
    BY <1>1, <1>2, <1>3, <2>1, <2>4
  <2> QED
    BY <2>4, <2>5
<1>5. Len(list) <= Len(java)
  BY DEF InStep
<1>6. Len(list) \in Nat /\ Len(java) \in Nat /\ ~(Len(list) + 1 <= Len(java))
  BY <1>2, <1>4
<1> QED
  BY <1>5, <1>6

LEMMA ArrayTyped ==
  ASSUME NEW t \in JavaType
  PROVE  ArrayTy(t) \in JavaType /\ ArrayTy(t).elem = t.elem /\ ArrayTy(t).dims = t.dims + 1
BY DEF ArrayTy, JavaType

LEMMA Typed ==
  ASSUME typeMap \in TypeMaps, params \in Lists, NEW i \in DOMAIN params
  PROVE  /\ params \in Seq(Param) /\ params[i] \in Param
         /\ RustToJava(params[i]) \in JavaType /\ TypeAt(i, RustToJava(params[i])) \in JavaType
         /\ Signature(params[i]) \in JavaType /\ TypeAt(i, Signature(params[i])) \in JavaType
         /\ \A t \in JavaType : ValueAt(i, t) \in JavaType
         /\ JniInput(params[i]) \in RustType
<1>1. params \in Seq(Param) /\ params[i] \in Param
  BY ListsAssumption
<1> DEFINE p == params[i]
<1>2. \A e \in JavaElem : JavaTy(e, 0) \in JavaType
  BY DEF JavaTy, JavaType
<1>3. p.base \in Base
  <2>1. params[i] \in Param
    BY <1>1
  <2> QED
    BY <2>1 DEF Param
<1>4. \A b \in DOMAIN typeMap : typeMap[b] \in JavaType
  <2>1. typeMap \in [DOMAIN typeMap -> [elem : {"byte", "int", "long", "boolean", "double"}, dims : Nat]]
    BY TypeMapsAssumption
  <2>2. [elem : {"byte", "int", "long", "boolean", "double"}, dims : Nat] \subseteq JavaType
    BY DEF JavaType, JavaElem
  <2> QED
    BY <2>1, <2>2
<1>5. \A b \in DOMAIN Primitive : Primitive[b] \in JavaElem
  BY DEF Primitive, JavaElem
<1> HIDE DEF p
<1>6. RustToJava(p) \in JavaType
  <2>1. {"interface", "String", "byte", "void"} \subseteq JavaElem /\ p.base \in JavaElem
    BY <1>3 DEF JavaElem
  <2> QED
    BY <1>2, <1>4, <1>5, <2>1 DEF RustToJava
<1>7. Signature(p) \in JavaType
  <2>1. {"java/lang/Object", "String", "java/lang/Boolean"} \subseteq JavaElem /\ p.base \in JavaElem
    BY <1>3 DEF JavaElem
  <2>2. {"u8", "usize"} \subseteq DOMAIN Primitive
    BY DEF Primitive
  <2> QED
    BY <1>2, <1>4, <1>5, <2>1, <2>2 DEF Signature
<1>8. \A t \in JavaType : ValueAt(i, t) \in JavaType
  <2>1. JavaTy("long", 0) \in JavaType
    BY <1>2 DEF JavaElem
  <2> QED
    BY <2>1 DEF ValueAt
<1>9. JniInput(p) \in RustType
  BY <1>3 DEF JniInput, RustType
<1> QED
  BY <1>1, <1>6, <1>7, <1>8, <1>9, ArrayTyped DEF TypeAt, p

(* The two sides of a parameter: what the Java method declares and the JNI function  *)
(* expects, and what the handler looks up and passes.                                *)
LEMMA FunctionSides ==
  ASSUME typeMap \in TypeMaps, params \in Lists, NEW i \in DOMAIN params
  PROVE  JniInput(params[i]) \in JvmPasses(TypeAt(i, RustToJava(params[i]))) <=> ServedByFunctions(i)
<1> DEFINE p == params[i]
<1>1. p \in Param /\ RustToJava(p) \in JavaType
  BY Typed
<1>2. /\ p.base \in Base /\ p.wrap \in {"none", "const", "mut"}
      /\ p.base = "callback" => p.wrap = "none"
  BY <1>1 DEF Param
<1>3. IsSized(i) => IsPointer(p)
  BY DEF IsSized, LengthOf
<1>4. /\ DOMAIN typeMap \subseteq Opaque \cup {"Struct"}
      /\ \A b \in DOMAIN typeMap : typeMap[b] \in [elem : {"byte", "int", "long", "boolean", "double"}, dims : Nat]
  BY TypeMapsAssumption
<1>5. /\ DOMAIN Primitive = {"u8", "usize", "bool", "f64"}
      /\ Primitive["u8"] = "byte" /\ Primitive["usize"] = "long"
      /\ Primitive["bool"] = "boolean" /\ Primitive["f64"] = "double"
  BY DEF Primitive
<1>6. /\ DOMAIN JPrimitive = {"byte", "int", "long", "boolean", "double"}
      /\ JPrimitive["byte"] = "jbyte" /\ JPrimitive["int"] = "jint" /\ JPrimitive["long"] = "jlong"
      /\ JPrimitive["boolean"] = "bool" /\ JPrimitive["double"] = "f64"
  BY DEF JPrimitive
<1>7. ASSUME NEW t \in JavaType
      PROVE  /\ t.elem = "void" => JvmPasses(t) = {}
             /\ t.dims = 0 /\ t.elem \in DOMAIN JPrimitive => JvmPasses(t) = {JPrimitive[t.elem]}
             /\ t.elem # "void" /\ (t.dims # 0 \/ t.elem \notin DOMAIN JPrimitive) =>
                   JvmPasses(t) = {"JObject", "JString"}
  BY <1>6 DEF JvmPasses
<1> HIDE DEF p
<1> DEFINE j == RustToJava(p)
           a == TypeAt(i, j)
<1>8. /\ a \in JavaType /\ a.elem = j.elem /\ (IsSized(i) => a.dims = j.dims + 1) /\ (~IsSized(i) => a.dims = j.dims)
      /\ j.dims \in Nat
  BY <1>1, ArrayTyped DEF TypeAt, JavaType
<1> HIDE DEF a
<1>9. \A e, d : JavaTy(e, d).elem = e /\ JavaTy(e, d).dims = d
  BY DEF JavaTy
<1>10. CASE p.base \in {"u8", "usize", "bool", "f64"}
  <2>1. j.elem = Primitive[p.base] /\ j.dims = 0
    BY <1>4, <1>5, <1>9, <1>10 DEF RustToJava, Opaque
  <2>2. j.elem # "void" /\ j.elem \in DOMAIN JPrimitive
    BY <1>5, <1>6, <1>10, <2>1
  <2>3. p.base \notin Opaque \cup {"c_void", "c_char", "FfiResult", "Struct", "callback"}
    BY <1>10 DEF Opaque
  <2>4. CASE IsSized(i)
    <3>1. JvmPasses(a) = {"JObject", "JString"} /\ JniInput(p) = "JObject"
      BY <1>3, <1>7, <1>8, <2>1, <2>2, <2>3, <2>4 DEF JniInput
    <3>2. ServedByFunctions(i)
      BY <1>3, <2>3, <2>4 DEF ServedByFunctions, p
    <3> QED
      BY <3>1, <3>2 DEF a, p
  <2>5. CASE ~IsSized(i)
    <3>1. JvmPasses(a) = {JPrimitive[Primitive[p.base]]}
      BY <1>7, <1>8, <2>1, <2>2, <2>5
    <3>2. ServedByFunctions(i) <=> ~IsPointer(p)
      BY <1>5, <1>10, <2>3, <2>5 DEF ServedByFunctions, p
    <3>3. JniInput(p) = JPrimitive[Primitive[p.base]] <=> ~IsPointer(p)
      BY <1>5, <1>6, <1>10, <2>3 DEF JniInput
    <3> QED
      BY <3>1, <3>2, <3>3 DEF a, p
  <2> QED
    BY <2>4, <2>5
<1>11. CASE p.base = "c_char"
  <2>1. j.elem = (IF IsPointer(p) THEN "String" ELSE "byte") /\ j.dims = 0
    BY <1>4, <1>5, <1>9, <1>11 DEF RustToJava, Opaque
  <2>2. p.base \notin DOMAIN typeMap /\ p.base \notin Opaque
    BY <1>4, <1>11 DEF Opaque
  <2>3. ServedByFunctions(i)
    BY <1>3, <1>11, <2>2 DEF ServedByFunctions, MappedTo, p
  <2>4. CASE IsPointer(p)
    <3>1. JvmPasses(a) = {"JObject", "JString"}
      BY <1>6, <1>7, <1>8, <2>1, <2>4
    <3>2. JniInput(p) = "JString"
      BY <1>11, <2>2, <2>4 DEF JniInput
    <3> QED
      BY <2>3, <3>1, <3>2 DEF a, p
  <2>5. CASE ~IsPointer(p)
    <3>1. JvmPasses(a) = {"jbyte"}
      BY <1>3, <1>6, <1>7, <1>8, <2>1, <2>5
    <3>2. JniInput(p) = "jbyte"
      BY <1>11, <2>5 DEF JniInput
    <3> QED
      BY <2>3, <3>1, <3>2 DEF a, p
  <2> QED
    BY <2>4, <2>5
<1>12. CASE p.base = "c_void"
  <2>1. j.elem = "void"
    BY <1>4, <1>5, <1>9, <1>12 DEF RustToJava, Opaque
  <2>2. JvmPasses(a) = {}
    BY <1>7, <1>8, <2>1
  <2>3. ~ServedByFunctions(i)
    BY <1>5, <1>12 DEF ServedByFunctions, p, Opaque
  <2> QED
    BY <2>2, <2>3 DEF a, p
<1>13. CASE p.base = "callback"
  <2>1. j.elem = "interface" /\ j.dims = 0 /\ ~IsPointer(p)
    BY <1>2, <1>4, <1>5, <1>9, <1>13 DEF RustToJava, IsPointer, Opaque
  <2>2. JvmPasses(a) = {"JObject", "JString"}
    BY <1>6, <1>7, <1>8, <2>1
  <2>3. JniInput(p) = "JObject" /\ ServedByFunctions(i)
    BY <1>13, <2>1 DEF JniInput, ServedByFunctions, p
  <2> QED
    BY <2>2, <2>3 DEF a, p
<1>14. CASE p.base = "FfiResult"
  <2>1. p.base \notin DOMAIN typeMap /\ p.base \notin Opaque /\ p.base \notin DOMAIN Primitive
    BY <1>4, <1>5, <1>14 DEF Opaque
  <2>2. j.elem = "FfiResult"
    BY <1>9, <1>14, <2>1 DEF RustToJava
  <2>3. JvmPasses(a) = {"JObject", "JString"}
    BY <1>6, <1>7, <1>8, <2>2
  <2>4. JniInput(p) = IF IsPointer(p) THEN "JObject" ELSE "FfiResult"
    BY <1>14, <2>1 DEF JniInput
  <2>5. ServedByFunctions(i) <=> IsPointer(p)
    BY <1>14, <2>1 DEF ServedByFunctions, MappedTo, p
  <2> QED
    BY <2>3, <2>4, <2>5 DEF a, p
<1>15. CASE p.base = "Struct"
  <2>1. p.base \notin Opaque /\ p.base \notin DOMAIN Primitive
    BY <1>5, <1>15 DEF Opaque
  <2>2. JniInput(p) = IF IsPointer(p) THEN "JObject" ELSE "Struct"
    BY <1>15, <2>1 DEF JniInput
  <2>3. ServedByFunctions(i) <=>
           IsPointer(p) /\ (IsSized(i) \/ ~MappedTo("Struct", Scalar))
    BY <1>3, <1>15, <2>1 DEF ServedByFunctions, p
  <2>4. "JObject" \notin {"jbyte", "jint", "jlong", "bool", "f64"}
        /\ "Struct" \notin {"jbyte", "jint", "jlong", "bool", "f64", "JObject", "JString"}
    OBVIOUS
  <2>5. CASE "Struct" \in DOMAIN typeMap
    <3>1. j = typeMap["Struct"] /\ j.elem \in DOMAIN JPrimitive
      BY <1>4, <1>6, <1>15, <2>1, <2>5 DEF RustToJava
    <3>2. MappedTo("Struct", Scalar) <=> j.dims = 0
      <4>1. ASSUME j.dims = 0 PROVE j = JavaTy(j.elem, 0)
        BY <1>1, <4>1 DEF JavaType, JavaTy
      <4> QED
        BY <1>9, <2>5, <3>1, <4>1 DEF MappedTo, Scalar
    <3>3. /\ a.dims = 0 => JvmPasses(a) \subseteq {"jbyte", "jint", "jlong", "bool", "f64"}
          /\ a.dims # 0 => JvmPasses(a) = {"JObject", "JString"}
      BY <1>6, <1>7, <1>8, <3>1
    <3>4. a.dims = 0 <=> ~IsSized(i) /\ j.dims = 0
      BY <1>8
    <3> QED
      BY <2>2, <2>3, <2>4, <3>2, <3>3, <3>4 DEF a, p
  <2>6. CASE "Struct" \notin DOMAIN typeMap
    <3>1. j.elem = "Struct"
      BY <1>9, <1>15, <2>1, <2>6 DEF RustToJava
    <3>2. JvmPasses(a) = {"JObject", "JString"}
      BY <1>6, <1>7, <1>8, <3>1
    <3>3. ~MappedTo("Struct", Scalar)
      BY <2>6 DEF MappedTo
    <3> QED
      BY <2>2, <2>3, <2>4, <3>2, <3>3 DEF a, p
  <2> QED
    BY <2>5, <2>6
<1>16. CASE p.base \in Opaque
  <2>1. p.base \in {"App", "Authenticator"} /\ p.base \notin DOMAIN Primitive
    BY <1>5, <1>16 DEF Opaque
  <2>2. JniInput(p) = IF IsPointer(p) THEN "jlong" ELSE p.base
    BY <1>16, <2>1 DEF JniInput
  <2>3. ServedByFunctions(i) <=>
           IsPointer(p) /\ ~IsSized(i) /\ MappedTo(p.base, {JavaTy("long", 0)})
    BY <1>3, <1>16, <2>1 DEF ServedByFunctions, p
  <2>4. p.base \notin {"jbyte", "jint", "jlong", "bool", "f64", "JObject", "JString"}
    BY <2>1
  <2>5. CASE p.base \in DOMAIN typeMap
    <3>1. j = typeMap[p.base] /\ j.elem \in DOMAIN JPrimitive
      BY <1>4, <1>6, <1>16, <2>1, <2>5 DEF RustToJava
    <3>2. MappedTo(p.base, {JavaTy("long", 0)}) <=> j.elem = "long" /\ j.dims = 0
      <4>1. ASSUME j.elem = "long", j.dims = 0 PROVE j = JavaTy("long", 0)
        BY <1>1, <4>1 DEF JavaType, JavaTy
      <4> QED
        BY <1>9, <2>5, <3>1, <4>1 DEF MappedTo
    <3>3. /\ a.dims = 0 => JvmPasses(a) = {JPrimitive[j.elem]}
          /\ a.dims # 0 => JvmPasses(a) = {"JObject", "JString"}
      BY <1>6, <1>7, <1>8, <3>1
    <3>4. a.dims = 0 <=> ~IsSized(i) /\ j.dims = 0
      BY <1>8
    <3>5. /\ JPrimitive[j.elem] \in {"jbyte", "jint", "jlong", "bool", "f64"}
          /\ JPrimitive[j.elem] = "jlong" <=> j.elem = "long"
      BY <1>6, <3>1
    <3> QED
      BY <2>2, <2>3, <2>4, <3>2, <3>3, <3>4, <3>5 DEF a, p
  <2>6. CASE p.base \notin DOMAIN typeMap
    <3>1. j.elem = p.base
      BY <1>9, <2>1, <2>6 DEF RustToJava
    <3>2. JvmPasses(a) = {"JObject", "JString"}
      BY <1>6, <1>7, <1>8, <2>1, <3>1
    <3>3. ~MappedTo(p.base, {JavaTy("long", 0)})
      BY <2>6 DEF MappedTo
    <3> QED
      BY <2>2, <2>3, <2>4, <3>2, <3>3 DEF a, p
  <2> QED
    BY <2>5, <2>6
<1> QED
  BY <1>2, <1>10, <1>11, <1>12, <1>13, <1>14, <1>15, <1>16 DEF Base

LEMMA CallbackSides ==
  ASSUME typeMap \in TypeMaps, params \in Lists, NEW i \in DOMAIN params
  PROVE  LET java_ty == TypeAt(i, RustToJava(params[i]))
             type == TypeAt(i, Signature(params[i]))
         IN  (type = java_ty /\ ValueAt(i, type) = java_ty) <=> ServedByCallbacks(i)
<1> DEFINE p == params[i]
           j == RustToJava(p)
           s == Signature(p)
           tj == TypeAt(i, j)
           ts == TypeAt(i, s)
<1>1. p \in Param /\ j \in JavaType /\ s \in JavaType
  BY Typed
<1>2. /\ p.base \in Base /\ p.wrap \in {"none", "const", "mut"}
      /\ p.base = "callback" => p.wrap = "none"
  BY <1>1 DEF Param
<1>3. /\ DOMAIN typeMap \subseteq Opaque \cup {"Struct"}
      /\ \A b \in DOMAIN typeMap : typeMap[b].elem \in {"byte", "int", "long", "boolean", "double"}
  BY TypeMapsAssumption
<1>4. /\ DOMAIN Primitive = {"u8", "usize", "bool", "f64"}
      /\ Primitive["u8"] = "byte" /\ Primitive["usize"] = "long"
      /\ Primitive["bool"] = "boolean" /\ Primitive["f64"] = "double"
  BY DEF Primitive
<1>5. \A e, d : JavaTy(e, d).elem = e /\ JavaTy(e, d).dims = d
  BY DEF JavaTy
<1>6. ts = tj <=> s = j
  <2>1. ASSUME ArrayTy(s) = ArrayTy(j) PROVE s = j
    <3>1. s.elem = j.elem /\ s.dims + 1 = j.dims + 1 /\ s.dims \in Nat /\ j.dims \in Nat
      BY <1>1, <2>1, ArrayTyped DEF JavaType
    <3> HIDE DEF s, j
    <3>2. s.elem = j.elem /\ s.dims = j.dims
      BY <3>1
    <3> QED
      BY <1>1, <3>2 DEF JavaType
  <2> QED
    BY <2>1 DEF TypeAt
<1> HIDE DEF p, tj, ts
<1> DEFINE fits == /\ p.base \notin {"callback", "bool", "f64", "c_void"}
                   /\ p.base = "c_char" => IsPointer(p)
                   /\ p.base \in DOMAIN typeMap => typeMap[p.base] \in {JavaTy("long", 0), JavaTy("byte", 1)}
<1>7. s = j <=> fits
  <2>1. CASE p.base \in {"u8", "usize"}
    <3>1. s = JavaTy(Primitive[p.base], 0) /\ j = JavaTy(Primitive[p.base], 0)
      BY <1>3, <1>4, <2>1 DEF Signature, RustToJava, Opaque
    <3> QED
      BY <1>3, <2>1, <3>1 DEF Opaque
  <2>2. CASE p.base = "bool"
    <3>1. s.elem = "java/lang/Boolean" /\ j.elem = "boolean"
      BY <1>3, <1>4, <1>5, <2>2 DEF Signature, RustToJava, Opaque
    <3> QED
      BY <2>2, <3>1
  <2>3. CASE p.base = "f64"
    <3>1. s.elem = "f64" /\ j.elem = "double"
      BY <1>3, <1>4, <1>5, <2>3 DEF Signature, RustToJava, Opaque
    <3> QED
      BY <2>3, <3>1
  <2>4. CASE p.base = "c_char"
    <3>1. /\ s.elem = IF IsPointer(p) THEN "String" ELSE "c_char"
          /\ j.elem = IF IsPointer(p) THEN "String" ELSE "byte"
          /\ IsPointer(p) => s = j
      BY <1>3, <1>4, <1>5, <2>4 DEF Signature, RustToJava, Opaque
    <3> QED
      BY <1>3, <2>4, <3>1 DEF Opaque
  <2>5. CASE p.base = "c_void"
    <3>1. s.elem = "c_void" /\ j.elem = "void"
      BY <1>3, <1>4, <1>5, <2>5 DEF Signature, RustToJava, Opaque
    <3> QED
      BY <2>5, <3>1
  <2>6. CASE p.base = "callback"
    <3>1. s.elem = "java/lang/Object" /\ j.elem = "interface"
      BY <1>3, <1>4, <1>5, <2>6 DEF Signature, RustToJava, Opaque
    <3> QED
      BY <2>6, <3>1
  <2>7. CASE p.base \in Opaque \cup {"Struct", "FfiResult"}
    <3>1. p.base \notin DOMAIN Primitive \cup {"callback", "bool", "f64", "c_void", "c_char", "u8", "usize"}
      BY <1>4, <2>7 DEF Opaque
    <3>2. CASE p.base \in DOMAIN typeMap
      <4>1. j = typeMap[p.base]
        BY <1>4, <3>1, <3>2 DEF RustToJava
      <4>2. j.elem # p.base
        BY <1>3, <2>7, <3>2, <4>1 DEF Opaque
      <4>3. s = IF j \in {JavaTy("long", 0), JavaTy("byte", 1)} THEN j ELSE JavaTy(p.base, 0)
        BY <3>1, <3>2, <4>1 DEF Signature
      <4> QED
        BY <1>5, <3>1, <3>2, <4>1, <4>2, <4>3
    <3>3. CASE p.base \notin DOMAIN typeMap
      <4>1. j = JavaTy(p.base, 0) /\ s = JavaTy(p.base, 0)
        BY <1>4, <3>1, <3>3 DEF RustToJava, Signature
      <4> QED
        BY <3>1, <3>3, <4>1
    <3> QED
      BY <3>2, <3>3
  <2> QED
    BY <1>2, <2>1, <2>2, <2>3, <2>4, <2>5, <2>6, <2>7 DEF Base
<1>8. ServedByCallbacks(i) <=>
        fits /\ (IsPointer(p) /\ p.base \in Opaque /\ ~IsSized(i) => MappedTo(p.base, {JavaTy("long", 0)}))
  BY DEF ServedByCallbacks, p
<1> HIDE DEF fits
<1>9. CASE IsPointer(p) /\ p.base \in Opaque /\ ~IsSized(i)
  <2>1. ValueAt(i, ts) = JavaTy("long", 0)
    BY <1>9 DEF ValueAt, p
  <2>2. tj = j
    BY <1>9 DEF TypeAt, tj
  <2>3. JavaTy("long", 0) = j <=> MappedTo(p.base, {JavaTy("long", 0)})
    <3>1. p.base \notin DOMAIN Primitive \cup {"callback", "c_char", "c_void", "long"}
      BY <1>4, <1>9 DEF Opaque
    <3>2. j = IF p.base \in DOMAIN typeMap THEN typeMap[p.base] ELSE JavaTy(p.base, 0)
      BY <3>1 DEF RustToJava
    <3> QED
      BY <1>5, <3>1, <3>2 DEF MappedTo
  <2> QED
    BY <1>6, <1>7, <1>8, <1>9, <2>1, <2>2, <2>3 DEF tj, ts, p
<1>10. CASE ~(IsPointer(p) /\ p.base \in Opaque /\ ~IsSized(i))
  <2>1. ValueAt(i, ts) = ts
    BY <1>10 DEF ValueAt, p
  <2> QED
    BY <1>6, <1>7, <1>8, <1>10, <2>1 DEF tj, ts, p
<1> QED
  BY <1>9, <1>10

-----------------------------------------------------------------------------
(* What the loops keep.                                                              *)
JniInv == TypeOK /\ LoopInv /\ JavaInv /\ FunctionInv /\ CallbackInv

(* Nothing but the list says what is seen and what has a length.                     *)
LEMMA SameList ==
  ASSUME params' = params, typeMap' = typeMap
  PROVE  /\ Seen' = Seen /\ \A u : Splits(u)' = Splits(u)
         /\ \A i : IsSized(i)' = IsSized(i)
         /\ \A i, t : TypeAt(i, t)' = TypeAt(i, t) /\ ValueAt(i, t)' = ValueAt(i, t)
         /\ \A p : RustToJava(p)' = RustToJava(p) /\ Signature(p)' = Signature(p)
         /\ Place' = Place
<1>1. \A i, j : LengthOf(i, j)' = LengthOf(i, j)
  BY DEF LengthOf
<1>2. Seen' = Seen /\ \A i : IsSized(i)' = IsSized(i)
  BY <1>1 DEF Seen, IsSized
<1>3. \A i, t : TypeAt(i, t)' = TypeAt(i, t) /\ ValueAt(i, t)' = ValueAt(i, t)
  BY <1>2 DEF TypeAt, ValueAt
<1> QED
  BY <1>2, <1>3 DEF Splits, RustToJava, Signature, Place

LEMMA JniStart == Init => JniInv
<1> SUFFICES ASSUME Init PROVE JniInv
  OBVIOUS
<1>1. params \in Seq(Param) /\ params \in Lists
  BY ListsAssumption DEF Init
<1>2. TypeOK
  BY <1>1 DEF Init, TypeOK
<1>3. LoopInv
  BY <1>1 DEF Init, LoopInv
<1>4. Taken(java)
  BY <1>1 DEF Init, Taken, Seen
<1> QED
  BY <1>2, <1>3, <1>4 DEF JniInv, Init, JavaInv, FunctionInv, CallbackInv

LEMMA DeclareStep ==
  ASSUME JniInv, Declare
  PROVE  JniInv'
<1> USE DEF JniInv
<1>1. /\ pc = "java" /\ Rest # {} /\ Advance
      /\ java' = Append(java, [of |-> Arg, type |-> Declared])
      /\ UNCHANGED <<typeMap, role, params, pc, inputs, call, callbacks, signature>>
  BY DEF Declare
<1>2. /\ params \in Seq(Param) /\ params \in Lists /\ typeMap \in TypeMaps
      /\ next \in 1..(Len(params) + 1) /\ next \in Nat
  BY ListsAssumption DEF TypeOK
<1>3. /\ next' \in 1..(Len(params) + 1) /\ LoopInv' /\ Arg \in Seen
  BY <1>1, <1>2, Advanced
<1>4. Arg \in DOMAIN params
  BY <1>3 DEF Seen
<1>5. Declared = TypeAt(Arg, RustToJava(params[Arg])) /\ Declared \in JavaType
  <2>1. IsArray <=> IsSized(Arg)
    BY <1>1, <1>2, ArrayIsSized
  <2>2. Declared = TypeAt(Arg, RustToJava(params[Arg]))
    BY <2>1 DEF Declared, TypeAt
  <2> QED
    BY <1>2, <1>4, <2>2, Typed
<1> DEFINE e == [of |-> Arg, type |-> Declared]
           D == [of : Place, type : JavaType]
<1>6. e \in D /\ java \in Seq(D) /\ e.of = Arg /\ e.type = TypeAt(Arg, RustToJava(params[Arg]))
  BY <1>4, <1>5 DEF TypeOK, Place
<1>7. java' = Append(java, e)
  BY <1>1
<1> HIDE DEF e, D
<1>8. TypeOK'
  <2>1. java' \in Seq(D)
    BY <1>6, <1>7
  <2> QED
    BY <1>1, <1>2, <1>3, <2>1, SameList DEF TypeOK, D
<1>9. Taken(java)'
  <2>1. TakenTo(java', next')
    <3>1. Taken(java)
      BY <1>1 DEF JavaInv
    <3>2. e \in D /\ java \in Seq(D) /\ e.of = Arg /\ Rest # {} /\ Advance /\ LoopInv /\ params' = params
      BY <1>1, <1>6
    <3>3. TakenTo(Append(java, e), next')
      BY <1>2, <3>1, <3>2, TakenOne
    <3> QED
      BY <1>7, <3>3
  <2> QED
    BY <1>1, <2>1, SameList DEF Taken, TakenTo
<1>10. ASSUME NEW n \in DOMAIN java'
       PROVE  java'[n].type = TypeAt(java'[n].of, RustToJava(params[java'[n].of]))
  <2>1. CASE n \in DOMAIN java
    <3>1. java'[n] = java[n]
      BY <1>6, <1>7, <2>1
    <3> QED
      BY <2>1, <3>1 DEF JavaInv
  <2>2. CASE n \notin DOMAIN java
    <3>1. java'[n] = e
      BY <1>6, <1>7, <2>2
    <3> QED
      BY <1>6, <3>1
  <2> QED
    BY <2>1, <2>2
<1>11. JavaInv'
  BY <1>1, <1>9, <1>10, SameList DEF JavaInv
<1> QED
  BY <1>1, <1>3, <1>8, <1>11 DEF FunctionInv, CallbackInv

LEMMA DeclaredAllStep ==
  ASSUME JniInv, DeclaredAll
  PROVE  JniInv'
<1> USE DEF JniInv
<1>1. /\ pc = "java" /\ Rest = {} /\ pc' = role /\ next' = 1
      /\ UNCHANGED <<typeMap, role, params, java, inputs, call, callbacks, signature>>
  BY DEF DeclaredAll
<1>2. /\ params \in Seq(Param) /\ params \in Lists /\ next \in 1..(Len(params) + 1)
      /\ java \in Seq([of : Place, type : JavaType]) /\ role \in {"function", "callback"}
  BY ListsAssumption DEF TypeOK
<1>3. Presents(java)
  BY <1>1, <1>2, TakenAll DEF JavaInv
<1>4. TypeOK'
  BY <1>1, <1>2, SameList DEF TypeOK
<1>5. LoopInv'
  BY <1>1, <1>2 DEF LoopInv
<1>6. inputs = <<>> /\ call = <<>> /\ callbacks = <<>> /\ signature = <<>>
  BY <1>1 DEF JavaInv
<1>7. JavaInv'
  BY <1>1, <1>2, <1>3, SameList DEF JavaInv, Presents
<1>8. \A i \in Seen : i \in 1..Len(params)
  BY <1>2 DEF Seen
<1>9. FunctionInv'
  <2>1. Taken(inputs)' /\ InStep(inputs)'
    BY <1>1, <1>2, <1>6, <1>8, SameList DEF Taken, InStep
  <2>2. ASSUME NEW u \in 1..(Len(params) + 1) PROVE Straight(u)'
    BY <1>1, <1>6 DEF Straight
  <2> QED
    BY <1>1, <1>2, <1>6, <2>1, <2>2, SameList DEF FunctionInv
<1>10. CallbackInv'
  <2>1. Taken(signature)' /\ InStep(signature)' /\ Taken(call)' /\ InStep(call)'
    BY <1>1, <1>2, <1>6, <1>8, SameList DEF Taken, InStep
  <2> QED
    BY <1>1, <1>6, <2>1, SameList DEF CallbackInv
<1> QED
  BY <1>4, <1>5, <1>7, <1>9, <1>10

CallEntry == [of : Place \cup {0}, as : Passing]

(* What one parameter adds to the call and to the callbacks.                         *)
LEMMA CallGrows ==
  ASSUME TypeOK, JniArg
  PROVE  /\ call' \in Seq(CallEntry) /\ callbacks' \in Seq(Place)
         /\ \A n \in 1..Len(call) : call'[n] = call[n]
         /\ IsArray => /\ Len(call') = Len(call) + 2 /\ params[Arg].base # "callback"
                       /\ call'[Len(call) + 1].of = Arg /\ call'[Len(call) + 2].of = NextArg
         /\ ~IsArray /\ params[Arg].base # "callback" =>
               Len(call') = Len(call) + 1 /\ call'[Len(call) + 1].of = Arg
         /\ params[Arg].base = "callback" => call' = call /\ callbacks' = Append(callbacks, Arg)
         /\ params[Arg].base # "callback" => callbacks' = callbacks
<1>1. /\ Rest # {} /\ params \in Seq(Param) /\ next \in Nat
      /\ call' = CASE IsArray -> call \o <<Passed(Arg, "pointer"), Passed(NextArg, "length")>>
                   [] ~IsArray /\ params[Arg].base = "callback" -> call
                   [] OTHER -> Append(call, Passed(Arg, How(params[Arg])))
      /\ callbacks' = IF params[Arg].base = "callback" THEN Append(callbacks, Arg) ELSE callbacks
  BY ListsAssumption DEF JniArg, TypeOK
<1>2. call \in Seq(CallEntry) /\ callbacks \in Seq(Place)
  BY DEF TypeOK, CallEntry
<1>3. Arg \in Place /\ (IsArray => NextArg \in Place)
  BY <1>1, Places, ArrayIsSized DEF Place, IsArray
<1>4. IsArray => params[Arg].base # "callback"
  <2>1. params[Arg] \in Param
    BY <1>1, <1>3 DEF Place
  <2> QED
    BY <2>1 DEF IsArray, IsPointer, Param
<1> DEFINE a == Passed(Arg, "pointer")
           l == Passed(NextArg, "length")
           v == Passed(Arg, How(params[Arg]))
<1>5. a \in CallEntry /\ a.of = Arg
  BY <1>3 DEF Passed, CallEntry, Passing
<1>6. IsArray => l \in CallEntry /\ l.of = NextArg
  BY <1>3 DEF Passed, CallEntry, Passing
<1>7. v \in CallEntry /\ v.of = Arg
  <2>1. How(params[Arg]) \in Passing
    BY DEF How, Passing
  <2> QED
    BY <1>3, <2>1 DEF Passed, CallEntry
<1> HIDE DEF a, l, v, Arg, NextArg, IsArray, CallEntry
<1>8. callbacks' \in Seq(Place)
  BY <1>1, <1>2, <1>3
<1>9. CASE IsArray
  <2>1. call' = call \o <<a, l>>
    BY <1>1, <1>9 DEF a, l
  <2>2. <<a, l>> \in Seq(CallEntry) /\ Len(<<a, l>>) = 2 /\ <<a, l>>[1] = a /\ <<a, l>>[2] = l
    BY <1>5, <1>6, <1>9
  <2> DEFINE q == <<a, l>>
  <2> HIDE DEF q
  <2>3. /\ call' \in Seq(CallEntry) /\ Len(call') = Len(call) + 2
        /\ \A n \in 1..Len(call) : call'[n] = call[n]
        /\ call'[Len(call) + 1] = q[1] /\ call'[Len(call) + 2] = q[2]
    <3>1. q \in Seq(CallEntry) /\ Len(q) = 2 /\ call' = call \o q
      BY <2>1, <2>2 DEF q
    <3>2. /\ call' \in Seq(CallEntry) /\ Len(call') = Len(call) + Len(q)
          /\ \A n \in 1..Len(call) : call'[n] = call[n]
          /\ \A n \in 1..Len(q) : call'[Len(call) + n] = q[n]
      <4>1. /\ call \o q \in Seq(CallEntry) /\ Len(call \o q) = Len(call) + Len(q)
            /\ \A n \in 1..Len(call) : (call \o q)[n] = call[n]
            /\ \A n \in 1..Len(q) : (call \o q)[Len(call) + n] = q[n]
        <5>1. call \in Seq(CallEntry) /\ q \in Seq(CallEntry)
          BY <1>2, <3>1
        <5>2. /\ call \o q \in Seq(CallEntry)
              /\ Len(call \o q) = Len(call) + Len(q)
          BY <5>1
        <5>3. \A n \in 1..Len(call) : (call \o q)[n] = call[n]
          BY <5>1
        <5>4. \A n \in 1..Len(q) : (call \o q)[Len(call) + n] = q[n]
          BY <5>1
        <5> QED
          BY <5>2, <5>3, <5>4
      <4>2. call' = call \o q
        BY <3>1
      <4> HIDE DEF q
      <4> QED
        BY <4>1, <4>2
    <3>3. 1 \in 1..Len(q) /\ 2 \in 1..Len(q)
      BY <3>1
    <3> QED
      BY <3>1, <3>2, <3>3
  <2> QED
    BY <1>1, <1>4, <1>5, <1>6, <1>8, <1>9, <2>2, <2>3 DEF q
<1>10. CASE ~IsArray /\ params[Arg].base = "callback"
  <2>1. call' = call
    BY <1>1, <1>10
  <2> QED
    BY <1>1, <1>2, <1>8, <1>10, <2>1
<1>11. CASE ~IsArray /\ params[Arg].base # "callback"
  <2>1. call' = Append(call, v)
    BY <1>1, <1>11 DEF v
  <2>2. /\ call' \in Seq(CallEntry) /\ Len(call') = Len(call) + 1
        /\ \A n \in 1..Len(call) : call'[n] = call[n]
        /\ call'[Len(call) + 1] = v
    BY <1>2, <1>7, <2>1
  <2> QED
    BY <1>1, <1>7, <1>8, <1>11, <2>2
<1> QED
  BY <1>9, <1>10, <1>11

(* As long as there is neither user data nor a callback, the call keeps step with the *)
(* list.                                                                             *)
LEMMA StaysStraight ==
  ASSUME TypeOK, LoopInv, JniArg, NEW u \in 1..(Len(params) + 1), Splits(u), Straight(u)
  PROVE  Straight(u)'
<1>1. /\ Rest # {} /\ params \in Seq(Param) /\ next \in 1..(Len(params) + 1) /\ params' = params
      /\ next' = IF IsArray THEN NextArg + 1 ELSE Arg + 1
  BY ListsAssumption DEF JniArg, TypeOK, Advance
<1>2. next \in Nat /\ next >= 1 /\ u \in Nat /\ u >= 1
  BY <1>1
<1>3. PICK z \in Nat : DOMAIN params = 1..z
  BY <1>1
<1>4. ASSUME NEW i \in DOMAIN params
      PROVE  /\ IsUserData(params[i]) <=> i = u
             /\ params[i].base = "callback" <=> i > u
  BY DEF Splits
<1>5. /\ Arg \in DOMAIN params /\ Arg >= next /\ ~IsUserData(params[Arg])
      /\ \A n \in DOMAIN params : next <= n /\ n < Arg => IsUserData(params[n])
  BY <1>1, Places
<1>6. IsArray =>
              /\ NextArg \in DOMAIN params /\ NextArg > Arg /\ ~IsUserData(params[NextArg])
              /\ \A n \in DOMAIN params : Arg < n /\ n < NextArg => IsUserData(params[n])
              /\ params[NextArg].base # "callback"
  BY <1>1, Places DEF IsArray, IsLen
<1>7. /\ call' \in Seq(CallEntry) /\ callbacks' \in Seq(Place)
      /\ \A n \in 1..Len(call) : call'[n] = call[n]
      /\ IsArray => /\ Len(call') = Len(call) + 2 /\ params[Arg].base # "callback"
                    /\ call'[Len(call) + 1].of = Arg /\ call'[Len(call) + 2].of = NextArg
      /\ ~IsArray /\ params[Arg].base # "callback" =>
            Len(call') = Len(call) + 1 /\ call'[Len(call) + 1].of = Arg
      /\ params[Arg].base = "callback" => call' = call /\ callbacks' = Append(callbacks, Arg)
      /\ params[Arg].base # "callback" => callbacks' = callbacks
  BY CallGrows
<1>8. /\ \A n \in DOMAIN call : call[n].of = n
      /\ \A n \in DOMAIN callbacks : callbacks[n] = u + n
      /\ next <= u => Len(call) = next - 1 /\ callbacks = <<>>
      /\ ~(next <= u) => Len(call) = u - 1 /\ Len(callbacks) = next - 1 - u
  BY DEF Straight
<1>9. /\ call \in Seq(CallEntry) /\ callbacks \in Seq(Place)
  BY DEF TypeOK, CallEntry
<1> HIDE DEF IsArray, Rest, CallEntry, Place
<1>10. PICK a \in Nat : a = Arg /\ a >= next /\ a <= z /\ a >= 1
  BY <1>5, <1>3
<1>11. PICK l \in Nat : l = NextArg \/ ~IsArray
  BY <1>6, <1>3
<1>12. PICK c \in Nat : c = Len(call)
  BY <1>9
<1> HIDE DEF Arg, NextArg
<1>13. \A n \in Nat : next <= n /\ n < a => n = u
  BY <1>2, <1>4, <1>5, <1>10, <1>3
<1>14. a # u /\ (params[a].base = "callback" <=> a > u)
  BY <1>4, <1>5, <1>10
<1>15. ASSUME IsArray PROVE l > a /\ l < u /\ l = a + 1
  <2>1. l \in DOMAIN params /\ l > a /\ ~IsUserData(params[l]) /\ params[l].base # "callback"
    BY <1>6, <1>10, <1>11, <1>15, <1>3
  <2>2. l # u /\ ~(l > u)
    BY <1>4, <2>1
  <2>3. l < u
    BY <1>2, <2>2
  <2>4. ASSUME a + 1 < l PROVE FALSE
    <3>1. a + 1 \in DOMAIN params
      BY <1>10, <1>3, <2>1, <2>4
    <3>2. IsUserData(params[a + 1])
      BY <1>2, <1>6, <1>10, <1>11, <1>15, <2>4, <3>1
    <3>3. a + 1 = u
      BY <1>4, <3>1, <3>2
    <3> QED
      BY <1>2, <2>3, <2>4, <3>3
  <2> QED
    BY <1>10, <1>11, <2>1, <2>3, <2>4
<1>16. CASE next < u
  <2>1. a = next
    BY <1>2, <1>10, <1>13, <1>16
  <2>2. params[a].base # "callback"
    BY <1>2, <1>14, <1>16, <2>1
  <2>3. callbacks' = <<>> /\ c = next - 1
    BY <1>2, <1>7, <1>8, <1>10, <1>12, <1>16, <2>2
  <2>4. CASE IsArray
    <3>1. next' = next + 2 /\ next' <= u
      BY <1>1, <1>2, <1>11, <1>15, <2>1, <2>4
    <3>2. Len(call') = c + 2 /\ Len(call') = next' - 1
      BY <1>2, <1>7, <1>12, <2>3, <2>4, <3>1
    <3>3. call'[c + 1].of = a /\ call'[c + 2].of = l
      BY <1>7, <1>10, <1>11, <1>12, <2>4
    <3>4. ASSUME NEW n \in DOMAIN call' PROVE call'[n].of = n
      <4>1. n \in 1..(c + 2)
        BY <1>7, <3>2
      <4>2. CASE n <= c
        <5>1. n \in DOMAIN call
          BY <1>9, <1>12, <4>1, <4>2
        <5>2. call'[n] = call[n]
          BY <1>7, <5>1
        <5> QED
          BY <1>8, <5>1, <5>2
      <4>3. CASE n = c + 1
        BY <1>2, <2>1, <2>3, <3>3, <4>3
      <4>4. CASE n = c + 2
        BY <1>2, <1>15, <2>1, <2>3, <2>4, <3>3, <4>4
      <4> QED
        BY <4>1, <4>2, <4>3, <4>4
    <3> QED
      BY <2>3, <3>1, <3>2, <3>4 DEF Straight
  <2>5. CASE ~IsArray
    <3>1. next' = next + 1 /\ next' <= u
      BY <1>1, <1>2, <1>10, <1>16, <2>1, <2>5
    <3>2. Len(call') = c + 1 /\ Len(call') = next' - 1 /\ call'[c + 1].of = a
      BY <1>2, <1>7, <1>10, <1>12, <2>2, <2>3, <2>5, <3>1
    <3>3. ASSUME NEW n \in DOMAIN call' PROVE call'[n].of = n
      <4>1. n \in 1..(c + 1)
        BY <1>7, <3>2
      <4>2. CASE n <= c
        <5>1. n \in DOMAIN call
          BY <1>9, <1>12, <4>1, <4>2
        <5>2. call'[n] = call[n]
          BY <1>7, <5>1
        <5> QED
          BY <1>8, <5>1, <5>2
      <4>3. CASE n = c + 1
        BY <1>2, <2>1, <2>3, <3>2, <4>3
      <4> QED
        BY <4>1, <4>2, <4>3
    <3> QED
      BY <2>3, <3>1, <3>2, <3>3 DEF Straight
  <2> QED
    BY <2>4, <2>5
<1>17. CASE next >= u
  <2>1. a > u /\ params[a].base = "callback"
    BY <1>2, <1>10, <1>14, <1>17
  <2>2. a = IF next = u THEN u + 1 ELSE next
    BY <1>2, <1>10, <1>13, <1>17, <2>1
  <2>3. ~IsArray
    BY <1>7, <1>10, <2>1
  <2>4. call' = call /\ callbacks' = Append(callbacks, a) /\ next' = a + 1
    BY <1>1, <1>7, <1>10, <2>1, <2>3
  <2>5. PICK b \in Nat : b = Len(callbacks)
    BY <1>9
  <2>6. c = u - 1 /\ b = a - 1 - u
    <3>1. CASE next = u
      <4>1. callbacks = <<>> /\ c = next - 1
        BY <1>2, <1>8, <1>12, <3>1
      <4> QED
        BY <1>2, <2>2, <2>5, <3>1, <4>1
    <3>2. CASE next > u
      BY <1>2, <1>8, <1>12, <2>2, <2>5, <3>2
    <3> QED
      BY <1>2, <1>17, <3>1, <3>2
  <2>7. Len(callbacks') = b + 1 /\ callbacks'[b + 1] = a
        /\ \A n \in 1..b : callbacks'[n] = callbacks[n]
    BY <1>9, <2>4, <2>5
  <2>8. ASSUME NEW n \in DOMAIN callbacks' PROVE callbacks'[n] = u + n
    <3>1. n \in 1..(b + 1)
      BY <1>7, <2>7
    <3>2. CASE n <= b
      BY <1>8, <1>9, <2>5, <2>7, <3>1, <3>2
    <3>3. CASE n = b + 1
      BY <1>2, <2>6, <2>7, <3>3
    <3> QED
      BY <3>1, <3>2, <3>3
  <2>9. ~(next' <= u) /\ Len(callbacks') = next' - 1 - u
    BY <1>2, <2>1, <2>4, <2>6, <2>7
  <2> QED
    BY <1>8, <1>12, <2>4, <2>6, <2>8, <2>9 DEF Straight
<1> QED
  BY <1>2, <1>16, <1>17

LEMMA JniArgStep ==
  ASSUME JniInv, JniArg
  PROVE  JniInv'
<1> USE DEF JniInv
<1>1. /\ pc = "function" /\ Rest # {} /\ Advance
      /\ inputs' = Append(inputs, [of |-> Arg, type |-> JniInput(params[Arg])])
      /\ UNCHANGED <<typeMap, role, params, pc, java, signature>>
  BY DEF JniArg
<1>2. /\ params \in Seq(Param) /\ params \in Lists /\ typeMap \in TypeMaps /\ role = "function"
      /\ next \in 1..(Len(params) + 1) /\ next \in Nat
      /\ java \in Seq([of : Place, type : JavaType]) /\ callbacks \in Seq(Place) /\ call \in Seq(CallEntry)
  BY <1>1, ListsAssumption DEF TypeOK, CallEntry
<1>3. /\ next' \in 1..(Len(params) + 1) /\ LoopInv' /\ Arg \in Seen /\ Arg < next' /\ next <= Arg
      /\ \A i \in Seen : next <= i /\ i < next' => i = Arg
  BY <1>1, <1>2, Advanced
<1>4. Arg \in DOMAIN params
  BY <1>3 DEF Seen
<1> DEFINE e == [of |-> Arg, type |-> JniInput(params[Arg])]
           D == [of : Place, type : RustType]
<1>5. e \in D /\ inputs \in Seq(D) /\ e.of = Arg /\ e.type = JniInput(params[Arg])
  <2>1. JniInput(params[Arg]) \in RustType
    BY <1>2, <1>4, Typed
  <2> QED
    BY <1>2, <1>4, <2>1 DEF TypeOK, Place
<1>6. inputs' = Append(inputs, e)
  BY <1>1
<1> HIDE DEF e, D
<1>7. /\ Taken(inputs) /\ InStep(inputs) /\ Presents(java)
      /\ \A n \in DOMAIN inputs : inputs[n].type = JniInput(params[inputs[n].of])
      /\ \A n \in DOMAIN call : call[n].of # 0 /\ params[call[n].of].base # "callback"
      /\ \A n \in DOMAIN callbacks : params[callbacks[n]].base = "callback"
      /\ \A i \in DOMAIN params : i < next /\ params[i].base = "callback" =>
            \E n \in DOMAIN callbacks : callbacks[n] = i
  BY <1>1 DEF FunctionInv, JavaInv
<1>8. /\ call' \in Seq(CallEntry) /\ callbacks' \in Seq(Place)
      /\ \A n \in 1..Len(call) : call'[n] = call[n]
      /\ IsArray => /\ Len(call') = Len(call) + 2 /\ params[Arg].base # "callback"
                    /\ call'[Len(call) + 1].of = Arg /\ call'[Len(call) + 2].of = NextArg
      /\ ~IsArray /\ params[Arg].base # "callback" =>
            Len(call') = Len(call) + 1 /\ call'[Len(call) + 1].of = Arg
      /\ params[Arg].base = "callback" => call' = call /\ callbacks' = Append(callbacks, Arg)
      /\ params[Arg].base # "callback" => callbacks' = callbacks
  BY CallGrows
<1>9. IsArray => NextArg \in DOMAIN params /\ params[NextArg].base # "callback"
  BY <1>1, <1>2, Places DEF IsArray, IsLen
<1>10. 0 \notin DOMAIN params
  BY <1>2
<1>11. TypeOK'
  <2>1. inputs' \in Seq(D)
    BY <1>5, <1>6
  <2> QED
    BY <1>1, <1>2, <1>3, <1>8, <2>1, SameList DEF TypeOK, D, CallEntry
<1>12. TakenTo(Append(inputs, e), next') /\ InStep(Append(inputs, e))
  <2>1. Rest # {} /\ Advance /\ LoopInv /\ params' = params
    BY <1>1
  <2> QED
    BY <1>2, <1>5, <1>7, <2>1, TakenOne, KeepsStep
<1>13. Taken(inputs)' /\ InStep(inputs)'
  <2>1. TakenTo(inputs', next') /\ InStep(inputs')
    BY <1>6, <1>12
  <2> QED
    BY <1>1, <2>1, SameList DEF Taken, TakenTo, InStep
<1>14. JavaInv'
  BY <1>1, SameList DEF JavaInv, Presents
<1> HIDE DEF JniInv, Arg, NextArg, IsArray
<1>15. ASSUME NEW n \in DOMAIN inputs' PROVE inputs'[n].type = JniInput(params[inputs'[n].of])
  <2>1. CASE n \in DOMAIN inputs
    <3>1. inputs'[n] = inputs[n]
      BY <1>5, <1>6, <2>1
    <3> QED
      BY <1>7, <2>1, <3>1
  <2>2. CASE n \notin DOMAIN inputs
    <3>1. inputs'[n] = e
      BY <1>5, <1>6, <2>2
    <3> QED
      BY <1>5, <3>1
  <2> QED
    BY <2>1, <2>2
<1>16. ASSUME NEW n \in DOMAIN call' PROVE call'[n].of # 0 /\ params[call'[n].of].base # "callback"
  <2>1. CASE n \in DOMAIN call
    <3>1. call'[n] = call[n]
      <4>1. DOMAIN call = 1..Len(call)
        BY <1>2
      <4> QED
        BY <1>8, <2>1, <4>1
    <3> QED
      BY <1>7, <2>1, <3>1
  <2>2. CASE n \notin DOMAIN call
    <3>1. params[Arg].base # "callback"
      BY <1>8, <2>2
    <3>2. CASE IsArray
      <4>1. n = Len(call) + 1 \/ n = Len(call) + 2
        BY <1>2, <1>8, <2>2, <3>2
      <4>2. call'[n].of = Arg \/ call'[n].of = NextArg
        BY <1>8, <3>2, <4>1
      <4> QED
        BY <1>4, <1>9, <1>10, <3>1, <3>2, <4>2
    <3>3. CASE ~IsArray
      <4>1. n = Len(call) + 1
        BY <1>2, <1>8, <2>2, <3>1, <3>3
      <4>2. call'[n].of = Arg
        BY <1>8, <3>1, <3>3, <4>1
      <4> QED
        BY <1>4, <1>10, <3>1, <4>2
    <3> QED
      BY <3>2, <3>3
  <2> QED
    BY <2>1, <2>2
<1>17. ASSUME NEW n \in DOMAIN callbacks' PROVE params[callbacks'[n]].base = "callback"
  <2>1. CASE params[Arg].base = "callback"
    <3>1. callbacks' = Append(callbacks, Arg) /\ Arg \in Place
      BY <1>4, <1>8, <2>1 DEF Place
    <3>2. (n \in DOMAIN callbacks /\ callbacks'[n] = callbacks[n]) \/ callbacks'[n] = Arg
      BY <1>2, <3>1
    <3> QED
      BY <1>7, <2>1, <3>2
  <2>2. CASE params[Arg].base # "callback"
    BY <1>7, <1>8, <2>2
  <2> QED
    BY <2>1, <2>2
<1>18. ASSUME NEW i \in DOMAIN params, i < next', params[i].base = "callback"
       PROVE  \E n \in DOMAIN callbacks' : callbacks'[n] = i
  <2>1. CASE i < next
    <3>1. PICK n \in DOMAIN callbacks : callbacks[n] = i
      BY <1>7, <1>18, <2>1
    <3>2. n \in DOMAIN callbacks' /\ callbacks'[n] = callbacks[n]
      <4>1. callbacks' = callbacks \/ callbacks' = Append(callbacks, Arg)
        BY <1>8
      <4>2. Arg \in Place
        BY <1>4 DEF Place
      <4>3. CASE callbacks' = Append(callbacks, Arg)
        BY <1>2, <4>2, <4>3
      <4> QED
        BY <4>1, <4>3
    <3> QED
      BY <3>1, <3>2
  <2>2. CASE ~(i < next)
    <3>1. i \in Seen
      BY <1>18 DEF Seen, LengthOf, IsLen, IsUserData
    <3>2. i = Arg
      BY <1>2, <1>3, <1>18, <2>2, <3>1
    <3>3. callbacks' = Append(callbacks, Arg) /\ Arg \in Place
      BY <1>4, <1>8, <1>18, <3>2 DEF Place
    <3>4. Len(callbacks) + 1 \in DOMAIN callbacks' /\ callbacks'[Len(callbacks) + 1] = Arg
      BY <1>2, <3>3
    <3> QED
      BY <3>2, <3>4
  <2> QED
    BY <2>1, <2>2
<1>19. ASSUME NEW u \in 1..(Len(params) + 1), Splits(u) PROVE Straight(u)'
  <2>1. Straight(u)
    BY <1>1, <1>19 DEF JniInv, FunctionInv
  <2> QED
    BY <1>19, <2>1, StaysStraight DEF JniInv
<1>20. FunctionInv'
  BY <1>1, <1>13, <1>15, <1>16, <1>17, <1>18, <1>19, SameList DEF FunctionInv
<1>21. CallbackInv'
  BY <1>1 DEF CallbackInv
<1> QED
  BY <1>3, <1>11, <1>14, <1>20, <1>21 DEF JniInv

(* The call that is generated: what has been passed, the context, the handlers.      *)
LEMMA WholeCall ==
  ASSUME call \in Seq(CallEntry), callbacks \in Seq(Place), NEW whole, whole = call \o <<Ctx>> \o Handlers
  PROVE  /\ whole \in Seq(CallEntry) /\ Len(whole) = Len(call) + 1 + Len(callbacks)
         /\ \A n \in 1..Len(call) : whole[n] = call[n]
         /\ whole[Len(call) + 1] = Ctx
         /\ \A n \in 1..Len(callbacks) : whole[Len(call) + 1 + n].of = callbacks[n]
<1>1. Ctx \in CallEntry
  BY DEF Ctx, Passed, CallEntry, Passing
<1>2. <<Ctx>> \in Seq(CallEntry) /\ Len(<<Ctx>>) = 1 /\ <<Ctx>>[1] = Ctx
  BY <1>1
<1>3. /\ Handlers \in Seq(CallEntry) /\ Len(Handlers) = Len(callbacks)
      /\ \A n \in 1..Len(callbacks) : Handlers[n].of = callbacks[n]
  <2>1. DOMAIN callbacks = 1..Len(callbacks) /\ Len(callbacks) \in Nat
    OBVIOUS
  <2>2. \A n \in DOMAIN callbacks : Passed(callbacks[n], "handler") \in CallEntry
    BY DEF Passed, CallEntry, Passing
  <2>3. Handlers \in [1..Len(callbacks) -> CallEntry]
    BY <2>1, <2>2 DEF Handlers
  <2> QED
    BY <2>1, <2>3 DEF Handlers, Passed
<1> DEFINE q == call \o <<Ctx>>
<1> HIDE DEF CallEntry, Handlers, Ctx
<1>4. /\ q \in Seq(CallEntry) /\ Len(q) = Len(call) + 1
      /\ \A n \in 1..Len(call) : q[n] = call[n]
      /\ q[Len(call) + 1] = Ctx
  BY <1>1, <1>2
<1>5. whole = q \o Handlers
  OBVIOUS
<1> HIDE DEF q
<1>6. /\ whole \in Seq(CallEntry) /\ Len(whole) = Len(q) + Len(Handlers)
      /\ \A n \in 1..Len(q) : whole[n] = q[n]
      /\ \A n \in 1..Len(Handlers) : whole[Len(q) + n] = Handlers[n]
  <2>1. /\ q \o Handlers \in Seq(CallEntry) /\ Len(q \o Handlers) = Len(q) + Len(Handlers)
    <3>1. q \in Seq(CallEntry) /\ Handlers \in Seq(CallEntry)
      BY <1>3, <1>4
    <3> QED
      BY ONLY <3>1
  <2>2. \A n \in 1..Len(q) : (q \o Handlers)[n] = q[n]
    BY <1>3, <1>4
  <2>3. \A n \in 1..Len(Handlers) : (q \o Handlers)[Len(q) + n] = Handlers[n]
    BY <1>3, <1>4
  <2> QED
    BY <1>5, <2>1, <2>2, <2>3
<1>7. PICK m \in Nat, c \in Nat : m = Len(call) /\ c = Len(callbacks)
  OBVIOUS
<1>8. ASSUME NEW n \in 1..m PROVE whole[n] = call[n]
  BY <1>4, <1>6, <1>7
<1>9. whole[m + 1] = Ctx
  BY <1>4, <1>6, <1>7
<1>10. ASSUME NEW n \in 1..c PROVE whole[m + 1 + n].of = callbacks[n]
  BY <1>3, <1>4, <1>6, <1>7
<1> QED
  BY <1>3, <1>4, <1>6, <1>7, <1>8, <1>9, <1>10

LEMMA ConventionalSplits ==
  ASSUME params \in Seq(Param)
  PROVE  Conventional <=> \E u \in 1..(Len(params) + 1) : Splits(u)
<1> DEFINE cbs == {i \in DOMAIN params : params[i].base = "callback"}
           uds == {i \in DOMAIN params : IsUserData(params[i])}
<1>1. PICK z \in Nat : z = Len(params) /\ DOMAIN params = 1..z
  OBVIOUS
<1>2. Conventional <=> \/ cbs = {} /\ uds = {}
                       \/ cbs # {} /\ \E u \in DOMAIN params : uds = {u} /\ cbs = (u + 1)..Len(params)
  BY DEF Conventional
<1>3. \A u : Splits(u) <=> /\ u \in 1..(z + 1) /\ u # z
                           /\ \A i \in 1..z : /\ (IsUserData(params[i]) <=> i = u)
                                              /\ (params[i].base = "callback" <=> i > u)
  BY <1>1 DEF Splits
<1>4. /\ \A i : i \in cbs <=> i \in 1..z /\ params[i].base = "callback"
      /\ \A i : i \in uds <=> i \in 1..z /\ IsUserData(params[i])
  BY <1>1
<1> HIDE DEF cbs, uds
<1>5. ASSUME cbs = {}, uds = {} PROVE Splits(z + 1)
  <2>1. ASSUME NEW i \in 1..z
        PROVE  ~IsUserData(params[i]) /\ params[i].base # "callback" /\ i # z + 1 /\ ~(i > z + 1)
    BY <1>4, <1>5
  <2>2. z + 1 \in 1..(z + 1) /\ z + 1 # z
    OBVIOUS
  <2> QED
    BY <1>3, <2>1, <2>2
<1>6. ASSUME NEW u \in 1..z, cbs # {}, uds = {u}, cbs = (u + 1)..z PROVE Splits(u)
  <2>1. u \in 1..(z + 1) /\ u # z
    BY <1>6
  <2>2. ASSUME NEW i \in 1..z
        PROVE  /\ (IsUserData(params[i]) <=> i = u)
               /\ (params[i].base = "callback" <=> i > u)
    <3>1. i \in (u + 1)..z <=> i > u
      OBVIOUS
    <3> QED
      BY <1>4, <1>6, <3>1
  <2> QED
    BY <1>3, <2>1, <2>2
<1>7. ASSUME NEW u \in 1..(z + 1), Splits(u) PROVE Conventional
  <2>1. /\ u # z /\ \A i \in 1..z : /\ (IsUserData(params[i]) <=> i = u)
                                     /\ (params[i].base = "callback" <=> i > u)
    BY <1>3, <1>7
  <2>2. CASE u = z + 1
    <3>1. \A i \in 1..z : i # u /\ ~(i > u)
      BY <2>2
    <3>2. cbs = {} /\ uds = {}
      BY <1>4, <2>1, <3>1
    <3> QED
      BY <1>2, <3>2
  <2>3. CASE u # z + 1
    <3>1. u \in 1..z /\ u + 1 \in 1..z /\ u + 1 > u
      BY <2>1, <2>3
    <3>2. uds = {u}
      BY <1>4, <2>1, <3>1
    <3>3. \A i : i \in cbs <=> i \in 1..z /\ i > u
      BY <1>4, <2>1
    <3>4. cbs = (u + 1)..z
      <4>1. \A i : i \in (u + 1)..z <=> i \in 1..z /\ i > u
        BY <3>1
      <4> QED
        BY <3>3, <4>1
    <3>5. cbs # {}
      BY <3>1, <3>3
    <3> QED
      BY <1>1, <1>2, <3>1, <3>2, <3>4, <3>5
  <2> QED
    BY <2>2, <2>3
<1> QED
  BY <1>1, <1>2, <1>5, <1>6, <1>7

(* The call against the native function.                                             *)
CallFits(list) ==
    /\ Len(list) = Len(params)
    /\ \A i \in DOMAIN params : IF IsUserData(params[i]) THEN list[i] = Ctx ELSE list[i].of = i

LEMMA CallFitsConventional ==
  ASSUME TypeOK, FunctionInv, pc = "function", Rest = {}, NEW whole,
         whole = IF callbacks = <<>> THEN call ELSE call \o <<Ctx>> \o Handlers
  PROVE  CallFits(whole) <=> Conventional
<1>1. /\ params \in Seq(Param) /\ next \in 1..(Len(params) + 1)
      /\ call \in Seq(CallEntry) /\ callbacks \in Seq(Place)
  BY ListsAssumption DEF TypeOK, CallEntry
<1>2. PICK z \in Nat, m \in Nat, c \in Nat :
         /\ z = Len(params) /\ DOMAIN params = 1..z /\ Place = 1..z
         /\ m = Len(call) /\ DOMAIN call = 1..m
         /\ c = Len(callbacks) /\ DOMAIN callbacks = 1..c
  BY <1>1 DEF Place
<1>3. /\ \A n \in 1..m : call[n].of # 0 /\ params[call[n].of].base # "callback"
      /\ \A n \in 1..c : params[callbacks[n]].base = "callback" /\ callbacks[n] # 0
      /\ \A i \in 1..z : i < next /\ params[i].base = "callback" =>
            \E n \in 1..c : callbacks[n] = i
      /\ \A u \in 1..(z + 1) : Splits(u) => Straight(u)
  <2>1. \A n \in 1..c : callbacks[n] \in Place
    BY <1>1, <1>2
  <2> QED
    BY <1>2, <2>1 DEF FunctionInv
<1>4. next \in Nat /\ next >= 1 /\ next <= z + 1 /\ \A i \in 1..z : ~IsUserData(params[i]) => i < next
  <2>1. next \in Nat /\ next >= 1 /\ next <= z + 1
    BY <1>1, <1>2
  <2>2. ASSUME NEW i \in 1..z, ~IsUserData(params[i]) PROVE ~(i >= next)
    BY <1>2, <2>2 DEF Rest
  <2> QED
    BY <2>1, <2>2
<1>5. Ctx.of = 0 /\ \A i \in 1..z : IsUserData(params[i]) => params[i].base # "callback"
  BY DEF Ctx, Passed, IsUserData
<1>6. Len(whole) = IF c = 0 THEN m ELSE m + 1 + c
  <2>1. CASE callbacks = <<>>
    <3>1. whole = call /\ c = 0
      BY <1>2, <2>1
    <3> QED
      BY <1>2, <3>1
  <2>2. CASE callbacks # <<>>
    <3>1. whole = call \o <<Ctx>> \o Handlers
      BY <2>2
    <3>2. Len(callbacks) # 0
      BY <1>1, <2>2
    <3>3. Len(whole) = m + 1 + c
      BY <1>1, <1>2, <3>1, WholeCall
    <3> QED
      BY <1>2, <3>2, <3>3
  <2> QED
    BY <2>1, <2>2
<1>7. /\ \A n \in 1..m : whole[n] = call[n]
      /\ c # 0 => /\ whole[m + 1] = Ctx
                  /\ \A n \in 1..c : whole[m + 1 + n].of = callbacks[n]
  <2>1. CASE callbacks = <<>>
    BY <1>1, <1>2, <2>1
  <2>2. CASE callbacks # <<>>
    <3>1. whole = call \o <<Ctx>> \o Handlers
      BY <2>2
    <3> QED
      BY <1>1, <1>2, <3>1, WholeCall
  <2> QED
    BY <2>1, <2>2
<1>8. CallFits(whole) <=> /\ Len(whole) = z
                          /\ \A i \in 1..z : IF IsUserData(params[i]) THEN whole[i] = Ctx ELSE whole[i].of = i
  BY <1>2 DEF CallFits
<1>9. \A u : Splits(u) <=> /\ u \in 1..(z + 1) /\ u # z
                           /\ \A i \in 1..z : /\ (IsUserData(params[i]) <=> i = u)
                                              /\ (params[i].base = "callback" <=> i > u)
  BY <1>2 DEF Splits
<1>10. Conventional <=> \E u \in 1..(z + 1) : Splits(u)
  BY <1>1, <1>2, ConventionalSplits
<1> HIDE DEF Ctx, Place, CallEntry, Rest
<1>11. ASSUME CallFits(whole), c = 0 PROVE Splits(z + 1)
  <2>1. m = z
    BY <1>6, <1>8, <1>11
  <2>2. \A i \in 1..z : IF IsUserData(params[i]) THEN whole[i] = Ctx ELSE whole[i].of = i
    BY <1>8, <1>11
  <2>3. \A i \in 1..z : whole[i] = call[i]
    BY <1>7, <2>1
  <2>4. m = z /\ \A i \in 1..z : IF IsUserData(params[i]) THEN call[i] = Ctx ELSE call[i].of = i
    BY <2>1, <2>2, <2>3
  <2>5. ASSUME NEW i \in 1..z PROVE ~IsUserData(params[i]) /\ params[i].base # "callback"
    BY <1>3, <1>5, <2>4
  <2>6. z + 1 \in 1..(z + 1) /\ z + 1 # z /\ \A i \in 1..z : i # z + 1 /\ ~(i > z + 1)
    OBVIOUS
  <2> QED
    BY <1>9, <2>5, <2>6
<1>12. ASSUME CallFits(whole), c # 0 PROVE Splits(m + 1)
  <2>1. z = m + 1 + c /\ m + 1 \in 1..(z + 1) /\ m + 1 # z /\ m + 1 \in 1..z
    BY <1>6, <1>8, <1>12
  <2>2. \A i \in 1..z : IF IsUserData(params[i]) THEN whole[i] = Ctx ELSE whole[i].of = i
    BY <1>8, <1>12
  <2>3. ASSUME NEW i \in 1..z, i < m + 1
        PROVE  ~IsUserData(params[i]) /\ params[i].base # "callback"
    <3>1. i \in 1..m
      BY <1>2, <2>3
    <3>2. whole[i] = call[i]
      BY <1>7, <3>1
    <3>3. call[i].of # 0 /\ Ctx.of = 0
      BY <1>3, <1>5, <3>1
    <3>4. ~IsUserData(params[i])
      BY <2>2, <3>2, <3>3
    <3>5. call[i].of = i
      BY <2>2, <3>4, <3>2
    <3> QED
      BY <1>3, <3>1, <3>4, <3>5
  <2>4. IsUserData(params[m + 1])
    <3>1. whole[m + 1].of = 0
      BY <1>5, <1>7, <1>12
    <3>2. m + 1 # 0
      BY <1>2
    <3> QED
      BY <2>1, <2>2, <3>1, <3>2
  <2>5. ASSUME NEW i \in 1..z, i > m + 1
        PROVE  ~IsUserData(params[i]) /\ params[i].base = "callback"
    <3>1. PICK n \in 1..c : i = m + 1 + n
      <4>1. i - (m + 1) \in 1..c /\ i = m + 1 + (i - (m + 1))
        BY <2>1, <2>5
      <4> QED
        BY <4>1
    <3>2. whole[i].of = callbacks[n]
      BY <1>7, <1>12, <3>1
    <3>3. ~IsUserData(params[i])
      <4>1. ASSUME IsUserData(params[i]) PROVE FALSE
        <5>1. whole[i] = Ctx
          BY <2>2, <4>1
        <5> QED
          BY <1>3, <1>5, <3>2, <5>1
      <4> QED
        BY <4>1
    <3>4. callbacks[n] = i
      BY <2>2, <3>2, <3>3
    <3> QED
      BY <1>3, <3>3, <3>4
  <2>6. ASSUME NEW i \in 1..z
        PROVE  /\ (IsUserData(params[i]) <=> i = m + 1)
               /\ (params[i].base = "callback" <=> i > m + 1)
    <3>1. i < m + 1 \/ i = m + 1 \/ i > m + 1
      OBVIOUS
    <3>2. CASE i < m + 1
      BY <2>3, <3>2
    <3>3. CASE i = m + 1
      BY <1>5, <2>4, <3>3
    <3>4. CASE i > m + 1
      BY <2>5, <3>4
    <3> QED
      BY <3>1, <3>2, <3>3, <3>4
  <2> QED
    BY <1>9, <2>1, <2>6
<1>13. ASSUME NEW u \in 1..(z + 1), Splits(u) PROVE CallFits(whole)
  <2>1. /\ u # z /\ \A i \in 1..z : /\ (IsUserData(params[i]) <=> i = u)
                                     /\ (params[i].base = "callback" <=> i > u)
    BY <1>9, <1>13
  <2>2. /\ \A n \in 1..m : call[n].of = n
        /\ \A n \in 1..c : callbacks[n] = u + n
        /\ next <= u => m = next - 1 /\ c = 0
        /\ ~(next <= u) => m = u - 1 /\ c = next - 1 - u
    <3>1. Straight(u)
      BY <1>3, <1>13
    <3>2. callbacks = <<>> => c = 0
      BY <1>2
    <3> QED
      BY <1>2, <3>1, <3>2 DEF Straight
  <2>3. next = z + 1
    <3>1. ASSUME next <= z PROVE FALSE
      <4>1. next \in 1..z /\ z \in 1..z
        BY <1>4, <3>1
      <4>2. IsUserData(params[next]) /\ IsUserData(params[z])
        BY <1>4, <3>1, <4>1
      <4> QED
        BY <2>1, <4>1, <4>2
    <3> QED
      BY <1>4, <3>1
  <2>4. CASE u = z + 1
    <3>1. m = z /\ c = 0
      BY <1>4, <2>2, <2>3, <2>4
    <3>2. \A i \in 1..z : i # u
      BY <2>4
    <3>3. \A i \in 1..z : whole[i].of = i
      BY <1>7, <2>2, <3>1
    <3>4. Len(whole) = z
      BY <1>6, <3>1
    <3> QED
      BY <1>8, <2>1, <3>2, <3>3, <3>4
  <2>5. CASE u # z + 1
    <3>1. m = u - 1 /\ c = z - u /\ c # 0 /\ u \in 1..z /\ u = m + 1
      BY <1>4, <2>1, <2>2, <2>3, <2>5
    <3>2. Len(whole) = z
      BY <1>6, <3>1
    <3>3. ASSUME NEW i \in 1..z
          PROVE  IF IsUserData(params[i]) THEN whole[i] = Ctx ELSE whole[i].of = i
      <4>1. CASE i = u
        BY <1>7, <2>1, <3>1, <4>1
      <4>2. CASE i < u
        <5>1. i \in 1..m /\ ~IsUserData(params[i])
          BY <2>1, <3>1, <4>2
        <5> QED
          BY <1>7, <2>2, <5>1
      <4>3. CASE i > u
        <5>1. i - u \in 1..c /\ i = m + 1 + (i - u) /\ u + (i - u) = i
          BY <3>1, <4>3
        <5>2. whole[i].of = callbacks[i - u] /\ callbacks[i - u] = i
          BY <1>7, <2>2, <3>1, <5>1
        <5>3. i # u
          BY <3>1, <4>3
        <5>4. ~IsUserData(params[i])
          BY <2>1, <5>3
        <5> QED
          BY <5>2, <5>4
      <4>4. i = u \/ i < u \/ i > u
        BY <3>1
      <4> QED
        BY <4>1, <4>2, <4>3, <4>4
    <3> QED
      BY <1>8, <3>2, <3>3
  <2> QED
    BY <2>4, <2>5
<1>14. ASSUME CallFits(whole) PROVE \E u \in 1..(z + 1) : Splits(u)
  <2>1. CASE c = 0
    BY <1>9, <1>11, <1>14, <2>1
  <2>2. CASE c # 0
    BY <1>9, <1>12, <1>14, <2>2
  <2> QED
    BY <2>1, <2>2
<1> QED
  BY <1>10, <1>13, <1>14

(* The last step of a function: the two properties of what it has built.             *)
LEMMA JniFunctionStep ==
  ASSUME JniInv, JniFunction
  PROVE  JniInv' /\ DeclarationFitsBinding' /\ CallMatchesNative'
<1>1. /\ pc = "function" /\ Rest = {} /\ pc' = "done"
      /\ call' = IF callbacks = <<>> THEN call ELSE call \o <<Ctx>> \o Handlers
      /\ UNCHANGED <<typeMap, role, params, next, java, inputs, callbacks, signature>>
  BY DEF JniFunction
<1>2. TypeOK /\ LoopInv /\ JavaInv /\ FunctionInv
  BY DEF JniInv
<1>3. /\ params \in Seq(Param) /\ params \in Lists /\ typeMap \in TypeMaps /\ role = "function"
      /\ next \in 1..(Len(params) + 1)
      /\ java \in Seq([of : Place, type : JavaType])
      /\ inputs \in Seq([of : Place, type : RustType])
      /\ call \in Seq(CallEntry) /\ callbacks \in Seq(Place)
  BY <1>1, <1>2, ListsAssumption DEF TypeOK, CallEntry
<1>4. /\ Presents(java) /\ Taken(inputs) /\ InStep(inputs)
      /\ \A n \in DOMAIN java : java[n].type = TypeAt(java[n].of, RustToJava(params[java[n].of]))
      /\ \A n \in DOMAIN inputs : inputs[n].type = JniInput(params[inputs[n].of])
  BY <1>1, <1>2 DEF JavaInv, FunctionInv
<1>5. TypeOK'
  <2>1. call' \in Seq(CallEntry)
    BY <1>1, <1>3, WholeCall
  <2>2. TypeOK
    BY <1>2
  <2> QED
    BY <1>1, <2>1, <2>2, SameList DEF TypeOK, CallEntry
<1>6. LoopInv'
  BY <1>1, <1>2 DEF LoopInv, LengthOf
<1>7. JavaInv'
  BY <1>1, <1>2, SameList DEF JavaInv, Presents
<1>8. JniInv'
  BY <1>1, <1>5, <1>6, <1>7 DEF JniInv, FunctionInv, CallbackInv
<1>9. Len(inputs) = Len(java)
  BY <1>1, <1>3, <1>4, StepKept
<1>10. ASSUME NEW n \in DOMAIN java
       PROVE  /\ inputs[n].of = java[n].of
              /\ inputs[n].type \in JvmPasses(java[n].type) <=> ServedByFunctions(java[n].of)
  <2>1. n \in DOMAIN inputs
    BY <1>3, <1>9
  <2>2. inputs[n].of = java[n].of
    BY <1>4, <2>1 DEF InStep
  <2>3. java[n].of \in DOMAIN params
    <3> DEFINE D == [of : Place, type : JavaType]
    <3>1. java \in Seq(D)
      BY <1>3
    <3> HIDE DEF D
    <3>2. java[n] \in D
      BY <1>10, <3>1
    <3> QED
      BY <3>2 DEF D, Place
  <2>4. JniInput(params[java[n].of]) \in JvmPasses(TypeAt(java[n].of, RustToJava(params[java[n].of])))
           <=> ServedByFunctions(java[n].of)
    BY <1>3, <2>3, FunctionSides
  <2>5. /\ inputs[n].type = JniInput(params[java[n].of])
        /\ java[n].type = TypeAt(java[n].of, RustToJava(params[java[n].of]))
    BY <1>4, <2>1, <2>2
  <2> QED
    BY <2>2, <2>4, <2>5
<1>11. DeclarationFitsBinding'
  <2>1. \A i : ServedByFunctions(i)' = ServedByFunctions(i)
    BY <1>1, SameList DEF ServedByFunctions, MappedTo
  <2>2. Presents(java)'
    BY <1>1, <1>4, SameList DEF Presents
  <2> QED
    BY <1>1, <1>9, <1>10, <2>1, <2>2 DEF DeclarationFitsBinding
<1>12. CallMatchesNative'
  <2>1. CallFits(call') <=> Conventional
    BY <1>1, <1>2, CallFitsConventional
  <2>2. Conventional' = Conventional
    BY <1>1 DEF Conventional
  <2>3. Ctx' = Ctx
    BY DEF Ctx, Passed
  <2> QED
    BY <1>1, <2>1, <2>2, <2>3 DEF CallMatchesNative, CallFits
<1> QED
  BY <1>8, <1>11, <1>12

(* The handler's parameters, if the callback takes user data once and first.         *)
LEMMA InputsGrow ==
  ASSUME JniInv, CallbackArg
  PROVE  /\ inputs' \in Seq(Place \cup {0})
         /\ \A n \in 1..Len(inputs) : inputs'[n] = inputs[n]
         /\ inputs'[Len(inputs) + 1] = Arg
         /\ IsArray => /\ Len(inputs') = Len(inputs) + 2 /\ inputs'[Len(inputs) + 2] = NextArg
                       /\ NextArg \in Place
         /\ ~IsArray => Len(inputs') = Len(inputs) + 1
         /\ Arg \in Place
<1>1. /\ pc = "callback" /\ Rest # {} /\ params \in Seq(Param) /\ next \in Nat
      /\ inputs' = inputs \o (IF IsArray THEN <<Arg, NextArg>> ELSE <<Arg>>)
      /\ role = "callback" /\ inputs \in Seq(Place \cup {0})
  BY ListsAssumption DEF CallbackArg, JniInv, TypeOK
<1>2. Arg \in Place /\ (IsArray => NextArg \in Place)
  BY <1>1, Places, ArrayIsSized DEF Place, IsArray
<1> DEFINE P == Place \cup {0}
<1> HIDE DEF Arg, NextArg, IsArray
<1>3. Arg \in P /\ (IsArray => NextArg \in P) /\ inputs \in Seq(P)
  BY <1>1, <1>2
<1> HIDE DEF P
<1>4. CASE IsArray
  <2>1. /\ <<Arg, NextArg>> \in Seq(P) /\ Len(<<Arg, NextArg>>) = 2
        /\ <<Arg, NextArg>>[1] = Arg /\ <<Arg, NextArg>>[2] = NextArg
    BY <1>3, <1>4
  <2>2. PICK q \in Seq(P) : q = <<Arg, NextArg>> /\ Len(q) = 2 /\ q[1] = Arg /\ q[2] = NextArg
    BY <2>1
  <2>3. inputs' = inputs \o q
    BY <1>1, <1>4, <2>2
  <2>4. /\ inputs' \in Seq(P) /\ Len(inputs') = Len(inputs) + Len(q)
        /\ \A n \in 1..Len(inputs) : inputs'[n] = inputs[n]
        /\ \A n \in 1..Len(q) : inputs'[Len(inputs) + n] = q[n]
    BY <1>3, <2>3, Concatenated
  <2>5. 1 \in 1..Len(q) /\ 2 \in 1..Len(q)
    BY <2>2
  <2> QED
    BY <1>2, <1>4, <2>2, <2>4, <2>5 DEF P
<1>5. CASE ~IsArray
  <2>1. <<Arg>> \in Seq(P) /\ Len(<<Arg>>) = 1 /\ <<Arg>>[1] = Arg
    BY <1>3
  <2>2. PICK q \in Seq(P) : q = <<Arg>> /\ Len(q) = 1 /\ q[1] = Arg
    BY <2>1
  <2>3. inputs' = inputs \o q
    BY <1>1, <1>5, <2>2
  <2>4. /\ inputs' \in Seq(P) /\ Len(inputs') = Len(inputs) + Len(q)
        /\ \A n \in 1..Len(inputs) : inputs'[n] = inputs[n]
        /\ \A n \in 1..Len(q) : inputs'[Len(inputs) + n] = q[n]
    BY <1>3, <2>3, Concatenated
  <2>5. 1 \in 1..Len(q)
    BY <2>2
  <2> QED
    BY <1>2, <1>5, <2>2, <2>4, <2>5 DEF P
<1> QED
  BY <1>4, <1>5

LEMMA HandlerGrows ==
  ASSUME JniInv, CallbackArg, {i \in DOMAIN params : IsUserData(params[i])} = {1}
  PROVE  /\ \A n \in DOMAIN inputs' : inputs'[n] = n + 1
         /\ Len(inputs') = IF next' = 1 THEN 0 ELSE next' - 2
<1>1. /\ pc = "callback" /\ Rest # {} /\ Advance /\ params' = params
      /\ params \in Seq(Param) /\ next \in Nat /\ next >= 1 /\ next \in 1..(Len(params) + 1)
      /\ inputs \in Seq(Place \cup {0}) /\ LoopInv
  BY ListsAssumption DEF CallbackArg, JniInv, TypeOK
<1>2. PICK z \in Nat : z = Len(params) /\ DOMAIN params = 1..z /\ Place = 1..z
  BY <1>1 DEF Place
<1>3. /\ Arg \in 1..z /\ Arg >= next /\ ~IsUserData(params[Arg])
      /\ \A n \in 1..z : next <= n /\ n < Arg => IsUserData(params[n])
      /\ IsArray =>
              /\ NextArg \in 1..z /\ NextArg > Arg
              /\ \A n \in 1..z : Arg < n /\ n < NextArg => IsUserData(params[n])
  <2>1. IsArray => Rest # {Arg}
    BY DEF IsArray
  <2> QED
    BY <1>1, <1>2, <2>1, Places
<1>4. 1 \in 1..z /\ \A i \in 1..z : IsUserData(params[i]) <=> i = 1
  BY <1>2
<1>5. /\ \A n \in DOMAIN inputs : inputs[n] = n + 1
      /\ Len(inputs) = IF next = 1 THEN 0 ELSE next - 2
  BY <1>1 DEF JniInv, CallbackInv
<1>6. next' = IF IsArray THEN NextArg + 1 ELSE Arg + 1
  BY <1>1 DEF Advance
<1>7. /\ inputs' \in Seq(Place \cup {0})
      /\ \A n \in 1..Len(inputs) : inputs'[n] = inputs[n]
      /\ inputs'[Len(inputs) + 1] = Arg
      /\ IsArray => Len(inputs') = Len(inputs) + 2 /\ inputs'[Len(inputs) + 2] = NextArg
      /\ ~IsArray => Len(inputs') = Len(inputs) + 1
  BY InputsGrow
<1>8. PICK m \in Nat, a \in Nat, l \in Nat :
         m = Len(inputs) /\ DOMAIN inputs = 1..m /\ a = Arg /\ l = Len(inputs') /\ DOMAIN inputs' = 1..l
  <2>1. Arg \in Nat
    BY <1>3
  <2>2. Len(inputs) \in Nat /\ DOMAIN inputs = 1..Len(inputs)
    BY <1>1
  <2>3. Len(inputs') \in Nat /\ DOMAIN inputs' = 1..Len(inputs')
    BY <1>7
  <2> HIDE DEF Arg
  <2> QED
    BY <2>1, <2>2, <2>3
<1> HIDE DEF Arg, NextArg, IsArray, Rest, Place
<1>9. a # 1 /\ a <= z /\ a >= 1 /\ next <= a
  BY <1>3, <1>4, <1>8
<1>10. m = a - 2
  <2>1. CASE next = 1
    <3>1. ASSUME a # 2 PROVE FALSE
      <4>1. 2 \in 1..z /\ next <= 2 /\ 2 < a
        BY <1>9, <2>1, <3>1
      <4> QED
        BY <1>3, <1>4, <1>8, <4>1
    <3> QED
      BY <1>5, <1>8, <2>1, <3>1
  <2>2. CASE next # 1
    <3>1. ASSUME next # a PROVE FALSE
      <4>1. next \in 1..z /\ next < a
        BY <1>1, <1>9, <3>1
      <4> QED
        BY <1>1, <1>3, <1>4, <1>8, <2>2, <4>1
    <3> QED
      BY <1>5, <1>8, <2>2, <3>1
  <2> QED
    BY <2>1, <2>2
<1>11. \A n \in 1..m : inputs'[n] = n + 1
  BY <1>5, <1>7, <1>8
<1>12. m + 1 = a - 1 /\ m + 2 = a /\ inputs'[a - 1] = a
  BY <1>7, <1>8, <1>10
<1>13. CASE IsArray
  <2>1. PICK b \in Nat : b = NextArg
    BY <1>3, <1>13
  <2>2. b = a + 1
    <3>1. ASSUME b # a + 1 PROVE FALSE
      <4>1. a + 1 \in 1..z /\ a < a + 1 /\ a + 1 < b /\ a + 1 # 1
        BY <1>3, <1>8, <1>9, <1>13, <2>1, <3>1
      <4> QED
        BY <1>3, <1>4, <1>8, <1>13, <2>1, <4>1
    <3> QED
      BY <3>1
  <2>3. l = a /\ inputs'[a] = a + 1 /\ next' = a + 2
    BY <1>6, <1>7, <1>8, <1>10, <1>12, <1>13, <2>1, <2>2
  <2>4. ASSUME NEW n \in 1..l PROVE inputs'[n] = n + 1
    <3>1. n \in 1..m \/ n = a - 1 \/ n = a
      BY <1>10, <2>3
    <3> QED
      BY <1>11, <1>12, <2>3, <3>1
  <2>5. Len(inputs') = IF next' = 1 THEN 0 ELSE next' - 2
    BY <1>8, <1>9, <2>3
  <2> QED
    BY <1>8, <2>4, <2>5
<1>14. CASE ~IsArray
  <2>1. l = a - 1 /\ next' = a + 1
    BY <1>6, <1>7, <1>8, <1>10, <1>14
  <2>2. ASSUME NEW n \in 1..l PROVE inputs'[n] = n + 1
    <3>1. n \in 1..m \/ n = a - 1
      BY <1>10, <2>1
    <3> QED
      BY <1>11, <1>12, <3>1
  <2>3. Len(inputs') = IF next' = 1 THEN 0 ELSE next' - 2
    BY <1>8, <1>9, <2>1
  <2> QED
    BY <1>8, <2>2, <2>3
<1> QED
  BY <1>13, <1>14

LEMMA CallbackArgStep ==
  ASSUME JniInv, CallbackArg
  PROVE  JniInv'
<1>1. /\ pc = "callback" /\ Rest # {} /\ Advance
      /\ signature' = Append(signature,
            [of |-> Arg,
             type |-> IF IsArray THEN ArrayTy(Signature(params[Arg])) ELSE Signature(params[Arg]),
             value |-> Value(params[Arg], IF IsArray THEN ArrayTy(Signature(params[Arg]))
                                                     ELSE Signature(params[Arg]))])
      /\ call' = Append(call, Passed(Arg, "value"))
      /\ UNCHANGED <<typeMap, role, params, pc, java, callbacks>>
  BY DEF CallbackArg
<1>2. TypeOK /\ LoopInv /\ JavaInv /\ CallbackInv
  BY DEF JniInv
<1>3. /\ params \in Seq(Param) /\ params \in Lists /\ typeMap \in TypeMaps /\ role = "callback"
      /\ next \in 1..(Len(params) + 1) /\ next \in Nat
      /\ java \in Seq([of : Place, type : JavaType])
      /\ signature \in Seq([of : Place, type : JavaType, value : JavaType]) /\ call \in Seq(CallEntry)
  BY <1>1, <1>2, ListsAssumption DEF TypeOK, CallEntry
<1>4. next' \in 1..(Len(params) + 1) /\ LoopInv' /\ Arg \in Seen
  BY <1>1, <1>2, <1>3, Advanced
<1>5. Arg \in DOMAIN params
  BY <1>4 DEF Seen
<1>6. IsArray <=> IsSized(Arg)
  BY <1>1, <1>3, ArrayIsSized
<1> DEFINE D == [of : Place, type : JavaType, value : JavaType]
           t == TypeAt(Arg, Signature(params[Arg]))
           e == [of |-> Arg, type |-> t, value |-> ValueAt(Arg, t)]
           f == Passed(Arg, "value")
<1>7. signature' = Append(signature, e) /\ call' = Append(call, f)
  BY <1>1, <1>6 DEF TypeAt, Value, ValueAt
<1>8. e \in D /\ e.of = Arg /\ e.type = t /\ e.value = ValueAt(Arg, t)
  <2>1. t \in JavaType
    BY <1>3, <1>5, Typed
  <2>2. ValueAt(Arg, t) \in JavaType
    BY <1>3, <1>5, <2>1, Typed
  <2> QED
    BY <1>5, <2>1, <2>2 DEF Place
<1>9. f \in CallEntry /\ f.of = Arg
  BY <1>5 DEF Passed, CallEntry, Passing, Place
<1>10. signature \in Seq(D)
  BY <1>3
<1>11. /\ Taken(signature) /\ InStep(signature) /\ Taken(call) /\ InStep(call) /\ Presents(java)
       /\ \A n \in DOMAIN signature :
            LET i == signature[n].of
                type == TypeAt(i, Signature(params[i]))
            IN  signature[n].type = type /\ signature[n].value = ValueAt(i, type)
       /\ \A n \in DOMAIN inputs : inputs[n] # 0
  BY <1>1, <1>2 DEF CallbackInv, JavaInv
<1> HIDE DEF e, f, t, D
<1>12. Taken(signature)' /\ InStep(signature)'
  <2>1. Rest # {} /\ Advance /\ LoopInv /\ params' = params
    BY <1>1, <1>2
  <2>2. TakenTo(Append(signature, e), next') /\ InStep(Append(signature, e))
    BY <1>3, <1>8, <1>10, <1>11, <2>1, TakenOne, KeepsStep
  <2>3. TakenTo(signature', next') /\ InStep(signature')
    BY <1>7, <2>2
  <2> QED
    BY <1>1, <2>3, SameList DEF Taken, TakenTo, InStep
<1>13. Taken(call)' /\ InStep(call)'
  <2>1. Rest # {} /\ Advance /\ LoopInv /\ params' = params
    BY <1>1, <1>2
  <2>2. TakenTo(Append(call, f), next') /\ InStep(Append(call, f))
    BY <1>3, <1>9, <1>11, <2>1, TakenOne, KeepsStep
  <2>3. TakenTo(call', next') /\ InStep(call')
    BY <1>7, <2>2
  <2> QED
    BY <1>1, <2>3, SameList DEF Taken, TakenTo, InStep
<1>14. /\ inputs' \in Seq(Place \cup {0})
       /\ \A n \in DOMAIN inputs' : inputs'[n] # 0
  <2>1. /\ inputs' \in Seq(Place \cup {0})
        /\ \A n \in 1..Len(inputs) : inputs'[n] = inputs[n]
        /\ inputs'[Len(inputs) + 1] = Arg /\ Arg \in Place
        /\ IsArray => /\ Len(inputs') = Len(inputs) + 2 /\ inputs'[Len(inputs) + 2] = NextArg
                      /\ NextArg \in Place
        /\ ~IsArray => Len(inputs') = Len(inputs) + 1
    BY InputsGrow
  <2>2. 0 \notin Place
    BY <1>3 DEF Place
  <2>3. DOMAIN inputs = 1..Len(inputs) /\ Len(inputs) \in Nat
    BY <1>2, <1>3 DEF TypeOK
  <2> HIDE DEF IsArray, Arg, NextArg
  <2>4. ASSUME NEW n \in DOMAIN inputs' PROVE inputs'[n] # 0
    <3>1. n \in 1..Len(inputs) \/ n = Len(inputs) + 1 \/ (IsArray /\ n = Len(inputs) + 2)
      BY <2>1, <2>3
    <3>2. n \in 1..Len(inputs) => inputs'[n] # 0
      BY <1>11, <2>1, <2>3
    <3> QED
      BY <2>1, <2>2, <3>1, <3>2
  <2> QED
    BY <2>1, <2>4
<1>15. TypeOK'
  <2>1. signature' \in Seq(D) /\ call' \in Seq(CallEntry)
    BY <1>3, <1>7, <1>8, <1>9, <1>10
  <2>2. TypeOK
    BY <1>2
  <2> QED
    BY <1>1, <1>3, <1>4, <1>14, <2>1, <2>2, SameList DEF TypeOK, D, CallEntry
<1>16. JavaInv'
  BY <1>1, <1>2, SameList DEF JavaInv, Presents
<1>17. FunctionInv'
  BY <1>1 DEF FunctionInv
<1>18. ASSUME NEW n \in DOMAIN signature'
       PROVE  LET i == signature'[n].of
                  type == TypeAt(i, Signature(params[i]))
              IN  signature'[n].type = type /\ signature'[n].value = ValueAt(i, type)
  <2>1. CASE n \in DOMAIN signature
    <3>1. signature'[n] = signature[n]
      BY <1>7, <1>8, <1>10, <2>1
    <3> QED
      BY <1>11, <2>1, <3>1
  <2>2. CASE n \notin DOMAIN signature
    <3>1. signature'[n] = e
      BY <1>7, <1>8, <1>10, <2>2
    <3> QED
      BY <1>8, <3>1 DEF t
  <2> QED
    BY <2>1, <2>2
<1>19. {i \in DOMAIN params : IsUserData(params[i])} = {1} =>
              /\ \A n \in DOMAIN inputs' : inputs'[n] = n + 1
              /\ Len(inputs') = IF next' = 1 THEN 0 ELSE next' - 2
  BY HandlerGrows
<1>20. CallbackInv'
  BY <1>1, <1>12, <1>13, <1>14, <1>18, <1>19, SameList DEF CallbackInv
<1> QED
  BY <1>4, <1>15, <1>16, <1>17, <1>20 DEF JniInv

(* The last step of a callback: the two properties of what it has built.             *)
LEMMA CallbackHandlerStep ==
  ASSUME JniInv, CallbackHandler
  PROVE  JniInv' /\ HandlerMatchesCallback' /\ SignatureMatchesInterface'
<1>1. /\ pc = "callback" /\ Rest = {} /\ pc' = "done" /\ inputs' = <<0>> \o inputs
      /\ UNCHANGED <<typeMap, role, params, next, java, call, callbacks, signature>>
  BY DEF CallbackHandler
<1>2. TypeOK /\ LoopInv /\ JavaInv /\ CallbackInv
  BY DEF JniInv
<1>3. /\ params \in Seq(Param) /\ params \in Lists /\ typeMap \in TypeMaps /\ role = "callback"
      /\ next \in 1..(Len(params) + 1)
      /\ java \in Seq([of : Place, type : JavaType])
      /\ signature \in Seq([of : Place, type : JavaType, value : JavaType])
      /\ call \in Seq(CallEntry) /\ inputs \in Seq(Place \cup {0})
  BY <1>1, <1>2, ListsAssumption DEF TypeOK, CallEntry
<1>4. /\ Presents(java) /\ Taken(signature) /\ InStep(signature) /\ Taken(call) /\ InStep(call)
      /\ \A n \in DOMAIN java : java[n].type = TypeAt(java[n].of, RustToJava(params[java[n].of]))
      /\ \A n \in DOMAIN signature :
            LET i == signature[n].of
                type == TypeAt(i, Signature(params[i]))
            IN  signature[n].type = type /\ signature[n].value = ValueAt(i, type)
      /\ \A n \in DOMAIN inputs : inputs[n] # 0
      /\ {i \in DOMAIN params : IsUserData(params[i])} = {1} =>
              /\ \A n \in DOMAIN inputs : inputs[n] = n + 1
              /\ Len(inputs) = IF next = 1 THEN 0 ELSE next - 2
  BY <1>1, <1>2 DEF JavaInv, CallbackInv
<1>5. /\ inputs' \in Seq(Place \cup {0}) /\ Len(inputs') = 1 + Len(inputs)
      /\ inputs'[1] = 0 /\ \A n \in 1..Len(inputs) : inputs'[1 + n] = inputs[n]
  <2> DEFINE P == Place \cup {0}
  <2>1. <<0>> \in Seq(P) /\ Len(<<0>>) = 1 /\ <<0>>[1] = 0
    OBVIOUS
  <2>2. PICK q \in Seq(P) : q = <<0>> /\ Len(q) = 1 /\ q[1] = 0
    BY <2>1
  <2>3. inputs \in Seq(P) /\ inputs' = q \o inputs
    BY <1>1, <1>3, <2>2
  <2> HIDE DEF P
  <2>4. /\ inputs' \in Seq(P) /\ Len(inputs') = Len(q) + Len(inputs)
        /\ \A n \in 1..Len(q) : inputs'[n] = q[n]
        /\ \A n \in 1..Len(inputs) : inputs'[Len(q) + n] = inputs[n]
    BY <2>3, Concatenated
  <2>5. 1 \in 1..Len(q)
    BY <2>2
  <2> QED
    BY <2>2, <2>4, <2>5 DEF P
<1>6. TypeOK'
  <2>1. TypeOK
    BY <1>2
  <2> QED
    BY <1>1, <1>3, <1>5, <2>1, SameList DEF TypeOK
<1>7. LoopInv'
  BY <1>1, <1>2 DEF LoopInv, LengthOf
<1>8. JavaInv'
  BY <1>1, <1>2, SameList DEF JavaInv, Presents
<1>9. JniInv'
  BY <1>1, <1>6, <1>7, <1>8 DEF JniInv, FunctionInv, CallbackInv
<1>10. PICK z \in Nat, m \in Nat, x \in Nat :
          /\ z = Len(params) /\ DOMAIN params = 1..z /\ m = Len(inputs) /\ DOMAIN inputs = 1..m
          /\ x = next /\ x >= 1 /\ x <= z + 1
  <2>1. Len(params) \in Nat /\ DOMAIN params = 1..Len(params)
    BY <1>3
  <2>2. Len(inputs) \in Nat /\ DOMAIN inputs = 1..Len(inputs)
    BY <1>3
  <2>3. next \in Nat /\ next >= 1 /\ next <= Len(params) + 1
    BY <1>3, <2>1
  <2> QED
    BY <2>1, <2>2, <2>3
<1> DEFINE uds == {i \in DOMAIN params : IsUserData(params[i])}
           Fits == /\ Len(inputs') = Len(params)
                   /\ \A i \in DOMAIN params : inputs'[i] = IF IsUserData(params[i]) THEN 0 ELSE i
<1>11. /\ \A i : i \in uds <=> i \in 1..z /\ IsUserData(params[i])
       /\ \A i \in 1..z : ~IsUserData(params[i]) => i < x
  <2>1. \A i \in DOMAIN params : i >= next => IsUserData(params[i])
    BY <1>1 DEF Rest
  <2> QED
    BY <1>10, <2>1
<1>12. uds = {1} => (\A n \in 1..m : inputs[n] = n + 1) /\ m = IF x = 1 THEN 0 ELSE x - 2
  BY <1>4, <1>10
<1>13. /\ Fits <=> /\ 1 + m = z
                   /\ \A i \in 1..z : inputs'[i] = IF IsUserData(params[i]) THEN 0 ELSE i
       /\ inputs'[1] = 0 /\ \A n \in 1..m : inputs'[1 + n] = inputs[n] /\ inputs[n] # 0
  <2>1. \A n \in 1..m : inputs'[1 + n] = inputs[n] /\ inputs[n] # 0
    BY <1>4, <1>5, <1>10
  <2>2. Fits <=> /\ 1 + m = z
                 /\ \A i \in 1..z : inputs'[i] = IF IsUserData(params[i]) THEN 0 ELSE i
    BY <1>5, <1>10
  <2> QED
    BY <1>5, <2>1, <2>2
<1> HIDE DEF uds, Fits, Rest
<1>14. ASSUME Fits PROVE uds = {1}
  <2>1. 1 + m = z /\ \A i \in 1..z : inputs'[i] = IF IsUserData(params[i]) THEN 0 ELSE i
    BY <1>13, <1>14
  <2>2. 1 \in uds
    <3>1. 1 \in 1..z
      BY <2>1
    <3>2. inputs'[1] = 0
      BY <1>13
    <3>3. IsUserData(params[1])
      BY <2>1, <3>1, <3>2
    <3> QED
      BY <1>11, <3>1, <3>3
  <2>3. ASSUME NEW i \in uds, i # 1 PROVE FALSE
    <3>1. i \in 1..z /\ IsUserData(params[i])
      BY <1>11
    <3>2. i - 1 \in 1..m /\ 1 + (i - 1) = i
      BY <2>1, <2>3, <3>1
    <3>3. inputs'[i] # 0
      BY <1>13, <3>2
    <3> QED
      BY <2>1, <3>1, <3>3
  <2> QED
    BY <2>2, <2>3
<1>15. ASSUME uds = {1} PROVE Fits
  <2>1. 1 \in 1..z /\ \A i \in 1..z : IsUserData(params[i]) <=> i = 1
    BY <1>11, <1>15
  <2>2. 1 + m = z
    <3>1. CASE z = 1
      BY <1>10, <1>12, <1>15, <3>1
    <3>2. CASE z # 1
      <4>1. z \in 1..z
        BY <2>1
      <4>2. z < x
        BY <1>11, <2>1, <3>2, <4>1
      <4> QED
        BY <1>10, <1>12, <1>15, <2>1, <4>2
    <3> QED
      BY <3>1, <3>2
  <2>3. ASSUME NEW i \in 1..z PROVE inputs'[i] = IF IsUserData(params[i]) THEN 0 ELSE i
    <3>1. CASE i = 1
      BY <1>13, <2>1, <3>1
    <3>2. CASE i # 1
      <4>1. i - 1 \in 1..m /\ 1 + (i - 1) = i
        BY <2>2, <3>2
      <4>2. inputs'[i] = inputs[i - 1]
        BY <1>13, <4>1
      <4>3. inputs[i - 1] = i
        BY <1>12, <1>15, <4>1
      <4> QED
        BY <2>1, <3>2, <4>2, <4>3
    <3> QED
      BY <3>1, <3>2
  <2> QED
    BY <1>13, <2>2, <2>3
<1>16. HandlerMatchesCallback'
  <2>1. Fits <=> uds = {1}
    BY <1>14, <1>15
  <2> QED
    BY <1>1, <2>1 DEF HandlerMatchesCallback, uds, Fits
<1>17. Len(signature) = Len(java) /\ Len(call) = Len(java)
  <2>1. Len(signature) = Len(java)
    BY <1>1, <1>3, <1>4, StepKept
  <2>2. Len(call) = Len(java)
    BY <1>1, <1>3, <1>4, StepKept
  <2> QED
    BY <2>1, <2>2
<1>18. ASSUME NEW n \in DOMAIN java
       PROVE  /\ signature[n].of = java[n].of /\ call[n].of = java[n].of
              /\ (signature[n].type = java[n].type /\ signature[n].value = java[n].type)
                 <=> ServedByCallbacks(java[n].of)
  <2>1. n \in DOMAIN signature /\ n \in DOMAIN call
    BY <1>3, <1>17
  <2>2. signature[n].of = java[n].of /\ call[n].of = java[n].of
    BY <1>4, <2>1 DEF InStep
  <2>3. java[n].of \in DOMAIN params
    <3> DEFINE D == [of : Place, type : JavaType]
    <3>1. java \in Seq(D)
      BY <1>3
    <3> HIDE DEF D
    <3>2. java[n] \in D
      BY <1>18, <3>1
    <3> QED
      BY <3>2 DEF D, Place
  <2> DEFINE i == java[n].of
             j == TypeAt(i, RustToJava(params[i]))
             type == TypeAt(i, Signature(params[i]))
  <2>4. (type = j /\ ValueAt(i, type) = j) <=> ServedByCallbacks(i)
    BY <1>3, <2>3, CallbackSides
  <2>5. signature[n].type = type /\ signature[n].value = ValueAt(i, type) /\ java[n].type = j
    BY <1>4, <2>1, <2>2
  <2> QED
    BY <2>2, <2>4, <2>5
<1>19. SignatureMatchesInterface'
  <2>1. \A i : ServedByCallbacks(i)' = ServedByCallbacks(i)
    BY <1>1, SameList DEF ServedByCallbacks, MappedTo
  <2>2. Presents(java)'
    BY <1>1, <1>4, SameList DEF Presents
  <2> QED
    BY <1>1, <1>17, <1>18, <2>1, <2>2 DEF SignatureMatchesInterface
<1> QED
  BY <1>9, <1>16, <1>19

JniAgrees ==
    DeclarationFitsBinding /\ CallMatchesNative /\ HandlerMatchesCallback /\ SignatureMatchesInterface

LEMMA JniInvariant == Spec => [](JniInv /\ JniAgrees)
<1>1. Init => JniInv /\ JniAgrees
  <2>1. Init => JniAgrees
    BY DEF Init, JniAgrees, Done, DeclarationFitsBinding, CallMatchesNative, HandlerMatchesCallback,
           SignatureMatchesInterface
  <2> QED
    BY <2>1, JniStart
<1>2. JniInv /\ JniAgrees /\ [Next]_vars => JniInv' /\ JniAgrees'
  <2> SUFFICES ASSUME JniInv, JniAgrees, [Next]_vars PROVE JniInv' /\ JniAgrees'
    OBVIOUS
  <2>1. role \in {"function", "callback"} /\ pc \in {"java", role, "done"}
    BY DEF JniInv, TypeOK
  <2>2. pc' # "done" => JniAgrees'
    BY DEF JniAgrees, Done, DeclarationFitsBinding, CallMatchesNative, HandlerMatchesCallback,
           SignatureMatchesInterface
  <2>3. CASE Declare
    <3>1. pc' # "done"
      BY <2>3 DEF Declare
    <3> QED
      BY <2>2, <2>3, <3>1, DeclareStep
  <2>4. CASE DeclaredAll
    <3>1. pc' # "done"
      BY <2>1, <2>4 DEF DeclaredAll
    <3> QED
      BY <2>2, <2>4, <3>1, DeclaredAllStep
  <2>5. CASE JniArg
    <3>1. pc' # "done"
      BY <2>5 DEF JniArg
    <3> QED
      BY <2>2, <2>5, <3>1, JniArgStep
  <2>6. CASE JniFunction
    <3>1. role' = "function"
      BY <2>1, <2>6 DEF JniFunction
    <3>2. HandlerMatchesCallback' /\ SignatureMatchesInterface'
      BY <3>1 DEF Done, HandlerMatchesCallback, SignatureMatchesInterface
    <3> QED
      BY <2>6, <3>2, JniFunctionStep DEF JniAgrees
  <2>7. CASE CallbackArg
    <3>1. pc' # "done"
      BY <2>7 DEF CallbackArg
    <3> QED
      BY <2>2, <2>7, <3>1, CallbackArgStep
  <2>8. CASE CallbackHandler
    <3>1. role' = "callback"
      BY <2>1, <2>8 DEF CallbackHandler
    <3>2. DeclarationFitsBinding' /\ CallMatchesNative'
      BY <3>1 DEF Done, DeclarationFitsBinding, CallMatchesNative
    <3> QED
      BY <2>8, <3>2, CallbackHandlerStep DEF JniAgrees
  <2>9. CASE UNCHANGED vars
    <3>1. /\ typeMap' = typeMap /\ role' = role /\ params' = params /\ pc' = pc /\ next' = next
          /\ java' = java /\ inputs' = inputs /\ call' = call /\ callbacks' = callbacks
          /\ signature' = signature
      BY <2>9 DEF vars
    <3>2. \A i : ServedByFunctions(i)' = ServedByFunctions(i) /\ ServedByCallbacks(i)' = ServedByCallbacks(i)
      BY <3>1, SameList DEF ServedByFunctions, ServedByCallbacks, MappedTo
    <3>3. /\ Presents(java)' = Presents(java) /\ Taken(java)' = Taken(java)
          /\ Taken(inputs)' = Taken(inputs) /\ Taken(signature)' = Taken(signature)
          /\ Taken(call)' = Taken(call) /\ InStep(inputs)' = InStep(inputs)
          /\ InStep(signature)' = InStep(signature) /\ InStep(call)' = InStep(call)
      BY <3>1, SameList DEF Presents, Taken, InStep
    <3>4. \A u : Straight(u)' = Straight(u)
      BY <3>1 DEF Straight
    <3>5. DeclarationFitsBinding'
      BY <3>1, <3>2, <3>3 DEF JniAgrees, DeclarationFitsBinding, Done
    <3>6. CallMatchesNative'
      <4>1. Conventional' = Conventional /\ Ctx' = Ctx
        BY <3>1 DEF Conventional, Ctx, Passed
      <4> QED
        BY <3>1, <4>1 DEF JniAgrees, CallMatchesNative, Done
    <3>7. HandlerMatchesCallback'
      BY <3>1 DEF JniAgrees, HandlerMatchesCallback, Done
    <3>8. SignatureMatchesInterface'
      BY <3>1, <3>2, <3>3 DEF JniAgrees, SignatureMatchesInterface, Done
    <3>9. TypeOK'
      <4>1. TypeOK
        BY DEF JniInv
      <4> QED
        BY <3>1, <4>1, SameList DEF TypeOK
    <3>10. LoopInv'
      BY <3>1 DEF JniInv, LoopInv, LengthOf
    <3>11. JavaInv'
      BY <3>1, <3>3, SameList DEF JniInv, JavaInv
    <3>12. FunctionInv'
      BY <3>1, <3>3, <3>4, SameList DEF JniInv, FunctionInv
    <3>13. CallbackInv'
      BY <3>1, <3>3, SameList DEF JniInv, CallbackInv
    <3> QED
      BY <3>5, <3>6, <3>7, <3>8, <3>9, <3>10, <3>11, <3>12, <3>13 DEF JniInv, JniAgrees
  <2> QED
    BY <2>3, <2>4, <2>5, <2>6, <2>7, <2>8, <2>9 DEF Next
<1> QED
  BY <1>1, <1>2, PTL DEF Spec

(* The list's side of the instance moves as JniParams says. *)
LEMMA MarshalParams == MarshalSpec => Spec
<1>1. MarshalInit => Init
  BY DEF MarshalInit
<1>2. [MarshalNext]_<<vars, structVars>> => [Next]_vars
  BY DEF MarshalNext, vars
<1> QED
  BY <1>1, <1>2, PTL DEF MarshalSpec, Spec

(* The lists that JniParams builds hold places of the parameters and types of the two *)
(* languages, whatever transform_native_fn, generate_jni_function, callback_to_java and *)
(* generate_callback are given.                                                       *)
THEOREM TypeCorrect == MarshalSpec => []TypeOK
<1>1. JniInv => TypeOK
  BY DEF JniInv
<1> QED
  BY <1>1, JniInvariant, MarshalParams, PTL

(* The Java method that transform_native_fn declares and the function that            *)
(* generate_jni_function defines for it have the same parameters in the same order,    *)
(* though their loops filter user data and look for lengths on their own, and the JVM  *)
(* passes what the function takes for exactly the types that are served.               *)
THEOREM DeclarationsFit == MarshalSpec => []DeclarationFitsBinding
<1>1. JniAgrees => DeclarationFitsBinding
  BY DEF JniAgrees
<1> QED
  BY <1>1, JniInvariant, MarshalParams, PTL

(* generate_jni_function moves the callbacks behind all other arguments: what it passes *)
(* is in the native function's order exactly if that has user data and then its         *)
(* callbacks at the end, for lists of any length.                                       *)
THEOREM CallsMatch == MarshalSpec => []CallMatchesNative
<1>1. JniAgrees => CallMatchesNative
  BY DEF JniAgrees
<1> QED
  BY <1>1, JniInvariant, MarshalParams, PTL

(* generate_jni_callback puts ctx first: the handler has the type of the callback        *)
(* exactly if that takes user data once, as its first parameter.                         *)
THEOREM HandlersMatch == MarshalSpec => []HandlerMatchesCallback
<1>1. JniAgrees => HandlerMatchesCallback
  BY DEF JniAgrees
<1> QED
  BY <1>1, JniInvariant, MarshalParams, PTL

(* The handler of generate_callback looks up the method that callback_to_java declares,  *)
(* and passes the values it expects, for exactly the types that are served.              *)
THEOREM SignaturesMatch == MarshalSpec => []SignatureMatchesInterface
<1>1. JniAgrees => SignatureMatchesInterface
  BY DEF JniAgrees
<1> QED
  BY <1>1, JniInvariant, MarshalParams, PTL
=============================================================================
