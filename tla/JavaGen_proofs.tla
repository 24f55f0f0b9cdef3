---------------------------- MODULE JavaGen_proofs ----------------------------
(* What the Java back end generates fits together, for every history of        *)
(* compilations, of any crates.                                                *)
EXTENDS JavaGen, FiniteSetTheorems, TLAPS

-----------------------------------------------------------------------------
LEMMA ItemTypes ==
  /\ \A i \in Item : i.kind = "fn" => i.name \in FnName /\ i.args \in Seq(Arg)
  /\ \A i \in Item : i.kind = "struct" => i.name \in ClassName
  /\ \A i \in Item : i.kind \in {"fn", "struct"}
  /\ \A a \in Arg : a.kind = "callback" => a.type \in CbType
BY DEF Item, Arg

(* The callbacks of a function, counted. *)
LEMMA IndexFacts ==
  ASSUME NEW fn \in Item, fn.kind = "fn"
  PROVE  /\ \A n \in CallbacksOf(fn) : Index(fn, n) \in Nat \ {0}
         /\ \A m, n \in CallbacksOf(fn) : Index(fn, m) = Index(fn, n) => m = n
<1> DEFINE Upto(n) == {m \in CallbacksOf(fn) : m <= n}
<1>1. CallbacksOf(fn) \subseteq 1..Len(fn.args) /\ Len(fn.args) \in Nat
  BY ItemTypes DEF CallbacksOf
<1>2. ASSUME NEW n \in CallbacksOf(fn)
      PROVE  IsFiniteSet(Upto(n)) /\ Cardinality(Upto(n)) \in Nat \ {0} /\ n \in Upto(n)
  <2>1. Upto(n) \subseteq 1..Len(fn.args) /\ n \in Upto(n)
    BY <1>1
  <2>2. IsFiniteSet(Upto(n))
    BY <1>1, <2>1, FS_Interval, FS_Subset
  <2> QED
    BY <2>1, <2>2, FS_EmptySet, FS_CardinalityType
<1>3. ASSUME NEW m \in CallbacksOf(fn), NEW n \in CallbacksOf(fn), m < n,
             Index(fn, m) = Index(fn, n)
      PROVE  FALSE
  <2>1. Upto(m) \subseteq Upto(n) /\ n \notin Upto(m)
    BY <1>1, <1>3
  <2>2. Cardinality(Upto(n)) = Cardinality(Upto(m))
    BY <1>3 DEF Index
  <2>3. Upto(n) = Upto(m)
    BY <1>2, <2>1, <2>2, FS_Subset
  <2> QED
    BY <1>2, <2>1, <2>3
<1>4. \A n \in CallbacksOf(fn) : Index(fn, n) \in Nat \ {0}
  BY <1>2 DEF Index
<1>5. \A m, n \in CallbacksOf(fn) : m < n \/ m = n \/ n < m
  BY <1>1
<1> QED
  BY <1>3, <1>4, <1>5

LEMMA UseTypes ==
  ASSUME NEW fn \in Item, fn.kind = "fn", NEW n \in CallbacksOf(fn)
  PROVE  UseOf(fn, n) \in Use /\ n \in Nat
<1>1. fn.args[n] \in Arg /\ n \in Nat /\ fn.name \in FnName
  BY ItemTypes DEF CallbacksOf
<1>2. fn.args[n].type \in CbType
  BY <1>1, ItemTypes DEF CallbacksOf
<1>3. Interface(fn.args[n].type) \in ClassName
  BY <1>2, InterfaceAssumption
<1>4. Index(fn, n) \in Nat
  BY IndexFacts
<1> QED
  BY <1>1, <1>2, <1>3, <1>4 DEF UseOf, Use, CbName

(* The names of what one function defines differ. *)
LEMMA MultiFacts ==
  ASSUME NEW fn \in Item, fn.kind = "fn", code \in Seq(Binding)
  PROVE  /\ Multi(fn) \subseteq Definition
         /\ \A d \in Multi(fn) : d.name \notin generated
         /\ \A d, e \in Multi(fn) : d.name = e.name => d = e
<1> DEFINE def(n) == Callback(UseOf(fn, n), n)
<1>1. ASSUME NEW d \in Multi(fn)
      PROVE  \E n \in CallbacksOf(fn) : /\ d = def(n) /\ d.name = UseOf(fn, n).name
                                        /\ d.name = [base |-> fn.name, idx |-> Index(fn, n)]
                                        /\ d.name \notin generated /\ d \in Definition
  <2>1. PICK n \in MultiCallbacks(fn) : d = def(n)
    BY DEF Multi
  <2>2. n \in CallbacksOf(fn) /\ CallbacksOf(fn) # {n} /\ UseOf(fn, n).name \notin generated
    BY DEF MultiCallbacks
  <2>3. UseOf(fn, n) \in Use /\ n \in Nat /\ Len(code) \in Nat
    BY <2>2, UseTypes
  <2>4. UseOf(fn, n).name = [base |-> fn.name, idx |-> Index(fn, n)]
    BY <2>2 DEF UseOf
  <2>5. d.name = UseOf(fn, n).name /\ d \in Definition
    BY <2>1, <2>3 DEF Callback, Use, Definition
  <2> QED
    BY <2>1, <2>2, <2>4, <2>5
<1>2. ASSUME NEW d \in Multi(fn), NEW e \in Multi(fn), d.name = e.name PROVE d = e
  <2>1. PICK m \in CallbacksOf(fn) : d = def(m) /\ d.name = [base |-> fn.name, idx |-> Index(fn, m)]
    BY <1>1
  <2>2. PICK n \in CallbacksOf(fn) : e = def(n) /\ e.name = [base |-> fn.name, idx |-> Index(fn, n)]
    BY <1>1
  <2>3. Index(fn, m) = Index(fn, n)
    BY <1>2, <2>1, <2>2
  <2>4. m = n
    BY <2>3, IndexFacts
  <2> QED
    BY <2>1, <2>2, <2>4
<1> QED
  BY <1>1, <1>2

-----------------------------------------------------------------------------
(* The types of all variables, in every state. *)
THEOREM TypeCorrect == Spec => []TypeOK
<1>1. Init => TypeOK
  <2> SUFFICES ASSUME Init PROVE TypeOK
    OBVIOUS
  <2>1. DOMAIN NoClass = {}
    BY DEF NoClass
  <2>2. 0 \in 0..MaxBuilds
    BY MaxBuildsAssumption
  <2>3. QueueOK
    BY DEF Init, QueueOK
  <2>4. FilesOK
    BY <2>1 DEF Init, FilesOK
  <2> QED
    BY <2>2, <2>3, <2>4 DEF Init, TypeOK
<1>2. TypeOK /\ [Next]_vars => TypeOK'
  <2> SUFFICES ASSUME TypeOK, QueueOK, FilesOK, [Next]_vars PROVE TypeOK'
    BY DEF TypeOK
  <2> USE DEF session, outputs, rust, java
  <2>1. ASSUME items # <<>>
        PROVE  Head(items) \in Item /\ Tail(items) \in Seq(Item)
    BY <2>1 DEF QueueOK
  <2>2. ASSUME args # <<>>
        PROVE  Head(args) \in Arg /\ Tail(args) \in Seq(Arg)
    BY <2>2 DEF QueueOK
  <2>3. ASSUME NEW class \in ClassName, NEW package \in {"model", "bindings"}, Put(class, package)
        PROVE  /\ DOMAIN classes' \subseteq ClassName
               /\ \A c \in DOMAIN classes' : classes'[c] \in {"model", "bindings"}
    BY <2>3 DEF Put, FilesOK
  <2>4. ASSUME UNCHANGED outputs PROVE FilesOK'
    BY <2>4 DEF FilesOK
  <2>5. ASSUME NEW empty \in BOOLEAN, Compile(empty) PROVE TypeOK'
    <3>1. crate' \in Seq(Item) /\ items' \in Seq(Item) /\ builds' \in 0..MaxBuilds
      BY <2>5, CratesAssumption, MaxBuildsAssumption DEF Compile, TypeOK
    <3>2. QueueOK'
      BY <2>5, <3>1 DEF Compile, QueueOK
    <3>3. FilesOK'
      <4>1. CASE empty
        <5>1. DOMAIN NoClass = {}
          BY DEF NoClass
        <5> QED
          BY <2>5, <4>1, <5>1 DEF Compile, FilesOK
      <4>2. CASE ~empty
        BY <2>4, <2>5, <4>2 DEF Compile
      <4> QED
        BY <4>1, <4>2
    <3> QED
      BY <2>5, <3>1, <3>2, <3>3 DEF Compile, TypeOK
  <2>6. ASSUME Ignore PROVE TypeOK'
    <3>1. QueueOK' /\ FilesOK'
      BY <2>1, <2>4, <2>6 DEF Ignore, QueueOK
    <3> QED
      BY <2>6, <3>1 DEF Ignore, TypeOK
  <2>7. ASSUME ParseStruct PROVE TypeOK'
    <3>1. Head(items) \in Item /\ Tail(items) \in Seq(Item) /\ Head(items).name \in ClassName
      BY <2>1, <2>7, ItemTypes DEF ParseStruct
    <3>2. QueueOK' /\ failed' \in BOOLEAN
      BY <2>7, <3>1 DEF ParseStruct, QueueOK, TypeOK
    <3>3. FilesOK'
      <4>1. CASE Head(items).shape = "refused"
        BY <2>4, <2>7, <4>1 DEF ParseStruct
      <4>2. CASE Head(items).shape # "refused"
        <5>1. /\ Put(Head(items).name, "bindings") /\ UNCHANGED <<defined, code, java>>
              /\ converted' \subseteq ClassName
          BY <2>7, <3>1, <4>2 DEF ParseStruct, Conversions, FilesOK
        <5>2. /\ DOMAIN classes' \subseteq ClassName
              /\ \A c \in DOMAIN classes' : classes'[c] \in {"model", "bindings"}
          BY <2>3, <3>1, <5>1
        <5> QED
          BY <5>1, <5>2 DEF FilesOK
      <4> QED
        BY <4>1, <4>2
    <3> QED
      BY <2>7, <3>2, <3>3 DEF ParseStruct, TypeOK
  <2>8. ASSUME ParseFn PROVE TypeOK'
    <3>1. Head(items) \in Item /\ Tail(items) \in Seq(Item) /\ Head(items).args \in Seq(Arg)
      BY <2>1, <2>8, ItemTypes DEF ParseFn
    <3>2. QueueOK' /\ FilesOK' /\ failed' \in BOOLEAN /\ pc' \in {"items", "args"}
      BY <2>4, <2>8, <3>1 DEF ParseFn, QueueOK, TypeOK
    <3> QED
      BY <2>8, <3>2 DEF ParseFn, TypeOK
  <2>9. ASSUME Abandon, pc = "args", UNCHANGED <<crate, finalise, elsewhere, builds>>
        PROVE  TypeOK'
    <3>1. Tail(items) \in Seq(Item)
      BY <2>1, <2>9 DEF QueueOK
    <3>2. QueueOK' /\ FilesOK'
      BY <2>4, <2>9, <3>1 DEF Abandon, QueueOK
    <3> QED
      BY <2>9, <3>2 DEF Abandon, TypeOK
  <2>10. ASSUME RefuseArg PROVE TypeOK'
    BY <2>9, <2>10 DEF RefuseArg, Abandon
  <2>11. ASSUME PlainArg PROVE TypeOK'
    <3>1. QueueOK' /\ FilesOK'
      BY <2>2, <2>4, <2>11 DEF PlainArg, QueueOK
    <3> QED
      BY <2>11, <3>1 DEF PlainArg, TypeOK
  <2>12. ASSUME CallbackArg PROVE TypeOK'
    <3> DEFINE t == Head(args).type
               class == Interface(t)
               use == [name |-> [base |-> class, idx |-> 0], type |-> t]
    <3>1. t \in CbType /\ class \in ClassName /\ Tail(args) \in Seq(Arg)
      BY <2>2, <2>12, ItemTypes, InterfaceAssumption DEF CallbackArg
    <3>2. use.name \in CbName /\ Callback(use, Len(args)) \in Definition
      <4>1. Len(code) \in Nat /\ Len(args) \in Nat
        BY DEF FilesOK, QueueOK
      <4> QED
        BY <3>1, <4>1 DEF CbName, Definition, Callback
    <3>3. QueueOK'
      BY <2>12, <3>1 DEF CallbackArg, QueueOK
    <3>4. pc' \in {"args", "panicked"} /\ generated' \subseteq CbName
      BY <2>12, <3>2 DEF CallbackArg, TypeOK
    <3>5. FilesOK'
      <4>1. CASE class \in DOMAIN classes
        BY <2>4, <2>12, <4>1 DEF CallbackArg
      <4>2. CASE class \notin DOMAIN classes
        <5>1. /\ Put(class, "model") /\ UNCHANGED <<code, converted, java>>
              /\ defined' = defined \/ defined' = defined \cup {Callback(use, Len(args))}
          BY <2>12, <4>2 DEF CallbackArg
        <5>2. /\ DOMAIN classes' \subseteq ClassName
              /\ \A c \in DOMAIN classes' : classes'[c] \in {"model", "bindings"}
          BY <2>3, <3>1, <5>1
        <5>3. defined' \subseteq Definition
          BY <3>2, <5>1 DEF FilesOK
        <5> QED
          BY <5>1, <5>2, <5>3 DEF FilesOK
      <4> QED
        BY <4>1, <4>2
    <3> QED
      BY <2>12, <3>3, <3>4, <3>5 DEF CallbackArg, TypeOK
  <2>13. ASSUME FinishFn PROVE TypeOK'
    <3> DEFINE fn == Head(items)
               binding == [name |-> fn.name, uses |-> {UseOf(fn, n) : n \in CallbacksOf(fn)}]
    <3>1. fn \in Item /\ fn.kind = "fn" /\ fn.name \in FnName /\ Tail(items) \in Seq(Item)
      BY <2>1, <2>13, ItemTypes DEF FinishFn, QueueOK
    <3>2. CASE fn.outcome = "never"
      BY <2>9, <2>13, <3>2 DEF FinishFn, Abandon
    <3>3. CASE fn.outcome # "never"
      <4>1. Multi(fn) \subseteq Definition
        BY <3>1, MultiFacts DEF FilesOK
      <4>2. binding \in Binding
        BY <3>1, UseTypes DEF Binding
      <4>3. \A d \in Definition : d.name \in CbName
        BY DEF Definition
      <4>4. /\ bindings' = Append(bindings, fn.name) /\ UNCHANGED <<args, failed, session, headers, classes>>
            /\ \/ pc' = "panicked" /\ UNCHANGED <<rust, generated, items>>
               \/ /\ pc' = "items" /\ items' = Tail(items) /\ UNCHANGED converted
                  /\ defined' = defined \cup Multi(fn) /\ code' = Append(code, binding)
                  /\ generated' = generated \cup {d.name : d \in Multi(fn)}
        BY <2>13, <3>3 DEF FinishFn
      <4> HIDE DEF fn, binding
      <4>5. QueueOK'
        BY <3>1, <4>4 DEF QueueOK, fn
      <4>6. FilesOK'
        <5>1. bindings' \in Seq(FnName)
          BY <3>1, <4>4 DEF FilesOK
        <5>2. code' \in Seq(Binding)
          <6>1. code' = code \/ code' = Append(code, binding)
            BY <4>4
          <6>2. code \in Seq(Binding)
            BY DEF FilesOK
          <6> QED
            BY ONLY <4>2, <6>1, <6>2
        <5>3. defined' \subseteq Definition /\ converted' = converted
          BY <4>1, <4>4 DEF FilesOK
        <5> QED
          BY <4>4, <5>1, <5>2, <5>3 DEF FilesOK
      <4>7. generated' \subseteq CbName
        BY <4>1, <4>3, <4>4 DEF TypeOK
      <4> QED
        BY <4>4, <4>5, <4>6, <4>7 DEF TypeOK
    <3> QED
      BY <3>2, <3>3
  <2>14. ASSUME EndCompile PROVE TypeOK'
    <3>1. QueueOK'
      BY <2>14 DEF EndCompile, QueueOK
    <3>2. FilesOK'
      BY <2>14 DEF EndCompile, FilesOK
    <3> QED
      BY <2>14, <3>1, <3>2 DEF EndCompile, TypeOK
  <2>15. ASSUME UNCHANGED vars PROVE TypeOK'
    BY <2>15 DEF vars, TypeOK, QueueOK, FilesOK
  <2> QED
    BY <2>5, <2>6, <2>7, <2>8, <2>10, <2>11, <2>12, <2>13, <2>14, <2>15 DEF Next
<1> QED
  BY <1>1, <1>2, PTL DEF Spec

-----------------------------------------------------------------------------
(* A Java declaration and the code behind it come in pairs. *)
THEOREM DeclarationsMatch == Spec => []DeclarationsMatchBindings
<1>1. Init => PairedInv
  BY DEF Init, PairedInv
<1>2. TypeOK /\ PairedInv /\ [Next]_vars => PairedInv'
  <2> SUFFICES ASSUME TypeOK, FilesOK, PairedInv, [Next]_vars PROVE PairedInv'
    BY DEF TypeOK
  <2> USE DEF session, outputs, rust, java
  <2>1. ASSUME UNCHANGED <<bindings, code>>, pc # "panicked" PROVE PairedInv'
    BY <2>1 DEF PairedInv
  <2>2. ASSUME NEW empty \in BOOLEAN, Compile(empty) PROVE PairedInv'
    <3>1. CASE empty
      BY <2>2, <3>1 DEF Compile, PairedInv
    <3>2. CASE ~empty
      BY <2>1, <2>2, <3>2 DEF Compile
    <3> QED
      BY <3>1, <3>2
  <2>3. ASSUME Ignore \/ ParseStruct \/ ParseFn \/ RefuseArg \/ PlainArg \/ CallbackArg \/ EndCompile
        PROVE  PairedInv'
    BY <2>1, <2>3 DEF Ignore, ParseStruct, ParseFn, RefuseArg, Abandon, PlainArg, CallbackArg,
                      EndCompile
  <2>4. ASSUME FinishFn PROVE PairedInv'
    <3> DEFINE fn == Head(items)
               binding == [name |-> fn.name, uses |-> {UseOf(fn, n) : n \in CallbacksOf(fn)}]
    <3>1. CASE fn.outcome = "never"
      BY <2>1, <2>4, <3>1 DEF FinishFn, Abandon
    <3>2. CASE fn.outcome # "never" /\ pc' # "panicked"
      <4>1. /\ bindings' = Append(bindings, fn.name) /\ code' = Append(code, binding)
            /\ pc # "panicked" /\ binding.name = fn.name
        BY <2>4, <3>2 DEF FinishFn
      <4>2. /\ Len(bindings) = Len(code) /\ Len(code) \in Nat
            /\ \A i \in 1..Len(bindings) : bindings[i] = code[i].name
        BY <4>1 DEF PairedInv, FilesOK
      <4> HIDE DEF fn, binding
      <4> QED
        BY <4>1, <4>2 DEF PairedInv, FilesOK
    <3>3. CASE pc' = "panicked"
      BY <3>3 DEF PairedInv
    <3> QED
      BY <3>1, <3>2, <3>3
  <2>5. ASSUME UNCHANGED vars PROVE PairedInv'
    BY <2>5 DEF vars, PairedInv
  <2> QED
    BY <2>2, <2>3, <2>4, <2>5 DEF Next
<1>3. PairedInv => DeclarationsMatchBindings
  BY DEF PairedInv, DeclarationsMatchBindings, AtRest
<1> QED
  BY <1>1, <1>2, <1>3, TypeCorrect, PTL DEF Spec

-----------------------------------------------------------------------------
(* Where a function stands between its arguments. *)
LEMMA Arguments == Spec => []ArgsInv
<1>1. Init => ArgsInv
  BY DEF Init, ArgsInv
<1>2. TypeOK /\ ArgsInv /\ [Next]_vars => ArgsInv'
  <2> DEFINE FromCrates == \A i \in DOMAIN items : \E c \in Crates : \E j \in DOMAIN c : items[i] = c[j]
             given == Head(items).args
             done == Len(given) - Len(args)
             Seen == /\ done \in Nat
                     /\ \A n \in DOMAIN args : args[n] = given[done + n]
                     /\ \A n \in 1..done : given[n].kind = "callback" =>
                                              Interface(given[n].type) \in DOMAIN classes
  <2>1. ArgsInv <=> FromCrates /\ (pc = "args" => Seen)
    BY DEF ArgsInv
  <2> SUFFICES ASSUME TypeOK, QueueOK, FilesOK, FromCrates, pc = "args" => Seen, [Next]_vars
               PROVE  FromCrates' /\ (pc' = "args" => Seen')
    BY <2>1 DEF ArgsInv, TypeOK
  <2> USE DEF session, outputs, rust, java
  <2>2. ASSUME items' = items \/ (items # <<>> /\ items' = Tail(items)) PROVE FromCrates'
    <3>1. CASE items' = items
      BY <3>1
    <3>2. CASE items # <<>> /\ items' = Tail(items)
      <4>1. \A i \in DOMAIN items' : i + 1 \in DOMAIN items /\ items'[i] = items[i + 1]
        BY <3>2 DEF QueueOK
      <4> QED
        BY <4>1
    <3> QED
      BY <2>2, <3>1, <3>2
  <2>3. ASSUME NEW empty \in BOOLEAN, Compile(empty) PROVE FromCrates' /\ pc' # "args"
    BY <2>3 DEF Compile
  <2>4. ASSUME Ignore \/ ParseStruct \/ RefuseArg \/ FinishFn \/ EndCompile
        PROVE  FromCrates' /\ pc' # "args"
    <3>1. pc = "args" => items # <<>>
      BY DEF QueueOK
    <3>2. (items' = items \/ (items # <<>> /\ items' = Tail(items))) /\ pc' # "args"
      BY <2>4, <3>1 DEF Ignore, ParseStruct, RefuseArg, Abandon, FinishFn, EndCompile
    <3> QED
      BY <2>2, <3>2
  <2>5. ASSUME ParseFn PROVE FromCrates' /\ (pc' = "args" => Seen')
    <3>1. FromCrates'
      BY <2>2, <2>5 DEF ParseFn
    <3>2. CASE pc' = "args"
      <4>1. items' = items /\ args' = Head(items).args /\ args' \in Seq(Arg)
        BY <2>5, <3>2, ItemTypes DEF ParseFn, QueueOK
      <4>2. Len(args') \in Nat /\ DOMAIN args' = 1..Len(args')
        BY <4>1
      <4>3. done' = 0 /\ given' = args'
        BY <4>1, <4>2
      <4> HIDE DEF done, given
      <4> QED
        BY <4>2, <4>3, <3>1
    <3> QED
      BY <3>1, <3>2
  <2>6. ASSUME pc = "args", args # <<>>, args' = Tail(args), items' = items,
               Head(args).kind = "callback" =>
                   Interface(Head(args).type) \in DOMAIN classes',
               DOMAIN classes \subseteq DOMAIN classes'
        PROVE  FromCrates' /\ Seen'
    <3>1. /\ args \in Seq(Arg) /\ Len(args) \in Nat \ {0}
          /\ Len(args') = Len(args) - 1 /\ DOMAIN args' = 1..(Len(args) - 1)
          /\ \A n \in 1..(Len(args) - 1) : args'[n] = args[n + 1]
          /\ Head(args) = args[1] /\ DOMAIN args = 1..Len(args)
      BY <2>6 DEF QueueOK
    <3>2. given \in Seq(Arg) /\ Len(given) \in Nat /\ given' = given
      BY <2>6, ItemTypes DEF QueueOK
    <3>3. done \in Nat /\ done' = done + 1
      BY <2>6, <3>1, <3>2
    <3>4. FromCrates'
      BY <2>2, <2>6
    <3> HIDE DEF given, FromCrates
    <3>5. /\ \A n \in 1..Len(args) : args[n] = given[done + n]
          /\ \A n \in 1..done : given[n].kind = "callback" =>
                                  Interface(given[n].type) \in DOMAIN classes
      BY <2>6, <3>1
    <3> HIDE DEF done
    <3>6. \A n \in DOMAIN args' : args'[n] = given[done' + n]
      <4>1. ASSUME NEW n \in DOMAIN args' PROVE args'[n] = given[done' + n]
        <5>1. n \in 1..(Len(args) - 1)
          BY <3>1
        <5>2. n + 1 \in 1..Len(args)
          BY <3>1, <5>1
        <5>3. args'[n] = args[n + 1]
          BY <3>1, <5>1
        <5>4. (done + 1) + n = done + (n + 1)
          BY <3>3, <5>1
        <5> QED
          BY <3>3, <3>5, <5>2, <5>3, <5>4
      <4> QED
        BY <4>1
    <3>7. ASSUME NEW n \in 1..done', given[n].kind = "callback"
          PROVE  Interface(given[n].type) \in DOMAIN classes'
      <4>1. n \in 1..done \/ n = done + 1
        BY <3>3
      <4>2. given[done + 1] = Head(args)
        BY <3>1, <3>5
      <4> QED
        BY <2>6, <3>5, <3>7, <4>1, <4>2
    <3> QED
      BY <3>2, <3>3, <3>4, <3>6, <3>7
  <2>7. ASSUME PlainArg PROVE FromCrates' /\ (pc' = "args" => Seen')
    BY <2>6, <2>7 DEF PlainArg
  <2>8. ASSUME CallbackArg PROVE FromCrates' /\ (pc' = "args" => Seen')
    <3>1. /\ pc = "args" /\ args # <<>> /\ args' = Tail(args) /\ items' = items
          /\ UNCHANGED classes \/ Put(Interface(Head(args).type), "model")
          /\ Interface(Head(args).type) \in DOMAIN classes \/ Put(Interface(Head(args).type), "model")
      BY <2>8 DEF CallbackArg
    <3>2. /\ DOMAIN classes \subseteq DOMAIN classes'
          /\ Interface(Head(args).type) \in DOMAIN classes'
      BY <2>8 DEF CallbackArg, Put
    <3> QED
      BY <2>6, <3>1, <3>2
  <2>9. ASSUME UNCHANGED vars PROVE FromCrates' /\ (pc' = "args" => Seen')
    BY <2>9 DEF vars
  <2> QED
    BY <2>3, <2>4, <2>5, <2>7, <2>8, <2>9 DEF Next
<1> QED
  BY <1>1, <1>2, TypeCorrect, PTL DEF Spec

-----------------------------------------------------------------------------
(* The parts of GeneratedInv: what is defined, what the interfaces stand for, what  *)
(* the bindings use.                                                                *)
Ledger ==
    /\ elsewhere \subseteq generated
    /\ \A d \in defined : d.name \in generated \ elsewhere
    /\ \A d, e \in defined : d.name = e.name => d = e
    /\ \A n \in generated \ elsewhere : \E d \in defined : d.name = n
InterfacesKnown ==
    \A t \in CbType : Interface(t) \in DOMAIN classes =>
                          [base |-> Interface(t), idx |-> 0] \in generated
UsesKnown == \A b \in DOMAIN code : \A use \in code[b].uses : use.name \in generated

(* New callbacks of new names keep the ledger. *)
LEMMA LedgerGrows ==
  ASSUME Ledger, UNCHANGED elsewhere, NEW New,
         defined' = defined \cup New, generated' = generated \cup {d.name : d \in New},
         \A d \in New : d.name \notin generated,
         \A d, e \in New : d.name = e.name => d = e
  PROVE  Ledger'
<1>1. elsewhere' \subseteq generated'
  BY DEF Ledger
<1>2. \A d \in defined' : d.name \in generated' \ elsewhere'
  BY DEF Ledger
<1>3. \A d, e \in defined' : d.name = e.name => d = e
  BY DEF Ledger
<1>4. \A n \in generated' \ elsewhere' : \E d \in defined' : d.name = n
  BY DEF Ledger
<1> QED
  BY <1>1, <1>2, <1>3, <1>4 DEF Ledger

(* Every JNI callback that a binding of jni.rs names is defined there, once, whatever *)
(* functions shared it and whatever was given up half way, in every compilation of    *)
(* a session that stays on one map; on a new map what the old one got is missing.     *)
(* (generate_jni_function, generate_jni_callback and generated_jni_cbs.)              *)
THEOREM DefinedOnce ==
  ASSUME NamesApart
  PROVE  Spec => []CallbacksDefinedOnce
<1>1. GeneratedInv <=> (pc # "panicked" => Ledger /\ InterfacesKnown /\ UsesKnown)
  BY DEF GeneratedInv, Ledger, InterfacesKnown, UsesKnown
<1>2. Init => GeneratedInv
  <2>1. DOMAIN NoClass = {}
    BY DEF NoClass
  <2> QED
    BY <2>1 DEF Init, GeneratedInv
<1>3. TypeOK /\ ArgsInv /\ GeneratedInv /\ [Next]_vars => GeneratedInv'
  <2> SUFFICES ASSUME TypeOK, QueueOK, FilesOK, ArgsInv, [Next]_vars, pc' # "panicked",
                      pc # "panicked" => Ledger /\ InterfacesKnown /\ UsesKnown
               PROVE  Ledger' /\ InterfacesKnown' /\ UsesKnown'
    BY <1>1 DEF TypeOK, GeneratedInv, Ledger, InterfacesKnown, UsesKnown
  <2> USE DEF session, outputs, rust, java
  <2>1. ASSUME UNCHANGED <<generated, elsewhere, defined>>, pc # "panicked" PROVE Ledger'
    BY <2>1 DEF Ledger
  <2>2. ASSUME UNCHANGED <<generated, classes>>, pc # "panicked" PROVE InterfacesKnown'
    BY <2>2 DEF InterfacesKnown
  <2>3. ASSUME generated \subseteq generated', UNCHANGED code, pc # "panicked" PROVE UsesKnown'
    BY <2>3 DEF UsesKnown
  <2>4. ASSUME NEW empty \in BOOLEAN, Compile(empty)
        PROVE  Ledger' /\ InterfacesKnown' /\ UsesKnown'
    <3>1. CASE empty
      <4>1. DOMAIN NoClass = {}
        BY DEF NoClass
      <4>2. elsewhere' = generated' /\ defined' = {} /\ classes' = NoClass /\ code' = <<>>
        BY <2>4, <3>1 DEF Compile
      <4> QED
        BY <4>1, <4>2 DEF Ledger, InterfacesKnown, UsesKnown
    <3>2. CASE ~empty
      BY <2>1, <2>2, <2>3, <2>4, <3>2 DEF Compile
    <3> QED
      BY <3>1, <3>2
  <2>5. ASSUME Ignore \/ ParseFn \/ RefuseArg \/ PlainArg \/ EndCompile
        PROVE  Ledger' /\ InterfacesKnown' /\ UsesKnown'
    <3>1. UNCHANGED <<generated, elsewhere, defined, code, classes>> /\ pc # "panicked"
      BY <2>5 DEF Ignore, ParseFn, RefuseArg, Abandon, PlainArg, EndCompile
    <3> QED
      BY <2>1, <2>2, <2>3, <3>1
  <2>6. ASSUME ParseStruct PROVE Ledger' /\ InterfacesKnown' /\ UsesKnown'
    <3>1. UNCHANGED <<generated, elsewhere, defined, code>> /\ pc # "panicked"
      BY <2>6 DEF ParseStruct
    <3>2. \A t \in CbType : Head(items).name # Interface(t)
      <4>1. items # <<>> /\ Head(items).kind = "struct" /\ Head(items) = items[1] /\ 1 \in DOMAIN items
        BY <2>6 DEF ParseStruct, QueueOK
      <4>2. PICK c \in Crates : \E j \in DOMAIN c : items[1] = c[j]
        BY <4>1 DEF ArgsInv
      <4> QED
        BY <4>1, <4>2 DEF NamesApart
    <3>3. UNCHANGED classes \/ Put(Head(items).name, "bindings")
      BY <2>6 DEF ParseStruct
    <3>4. DOMAIN classes' \subseteq DOMAIN classes \cup {Head(items).name}
      BY <3>3 DEF Put
    <3>5. InterfacesKnown'
      BY <3>1, <3>2, <3>4 DEF InterfacesKnown
    <3> QED
      BY <2>1, <2>3, <3>1, <3>5
  <2>7. ASSUME CallbackArg PROVE Ledger' /\ InterfacesKnown' /\ UsesKnown'
    <3> DEFINE t == Head(args).type
               class == Interface(t)
               name == [base |-> class, idx |-> 0]
               cb == Callback([name |-> name, type |-> t], Len(args))
    <3>1. UNCHANGED <<elsewhere, code>> /\ pc # "panicked" /\ cb.name = name
      BY <2>7 DEF CallbackArg, Callback
    <3>2. CASE class \in DOMAIN classes
      <4>1. UNCHANGED <<generated, defined, classes>>
        BY <2>7, <3>2 DEF CallbackArg
      <4> QED
        BY <2>1, <2>2, <2>3, <3>1, <4>1
    <3>3. CASE class \notin DOMAIN classes
      <4>1. Put(class, "model")
        BY <2>7, <3>3 DEF CallbackArg
      <4>2. \/ name \in generated /\ UNCHANGED <<defined, generated>>
            \/ /\ name \notin generated /\ defined' = defined \cup {cb}
               /\ generated' = generated \cup {name}
        BY <2>7, <3>3 DEF CallbackArg
      <4>3. name \in generated' /\ generated \subseteq generated'
        BY <4>2
      <4>4. Ledger'
        <5>1. CASE UNCHANGED <<defined, generated>>
          BY <2>1, <3>1, <5>1
        <5>2. CASE /\ name \notin generated /\ defined' = defined \cup {cb}
                   /\ generated' = generated \cup {name}
          <6>1. generated' = generated \cup {d.name : d \in {cb}}
            BY <3>1, <5>2
          <6>2. PICK New : New = {cb}
            OBVIOUS
          <6>3. \A d \in New : d.name \notin generated
            BY <3>1, <5>2, <6>2
          <6>4. \A d, e \in New : d.name = e.name => d = e
            BY <6>2
          <6>5. defined' = defined \cup New /\ generated' = generated \cup {d.name : d \in New}
            BY <5>2, <6>1, <6>2
          <6>6. Ledger /\ UNCHANGED elsewhere
            BY <3>1
          <6> QED
            BY ONLY <6>3, <6>4, <6>5, <6>6, LedgerGrows
        <5> QED
          BY <4>2, <5>1, <5>2
      <4>5. InterfacesKnown'
        <5>1. DOMAIN classes' = DOMAIN classes \cup {class}
          BY <4>1 DEF Put
        <5> QED
          BY <3>1, <4>3, <5>1 DEF InterfacesKnown
      <4> QED
        BY <2>3, <3>1, <4>3, <4>4, <4>5
    <3> QED
      BY <3>2, <3>3
  <2>8. ASSUME FinishFn PROVE Ledger' /\ InterfacesKnown' /\ UsesKnown'
    <3>1. PICK fn : fn = Head(items)
      OBVIOUS
    <3>2. pc = "args" /\ args = <<>> /\ fn \in Item /\ fn.kind = "fn" /\ fn.args \in Seq(Arg)
      BY <2>8, <3>1, ItemTypes DEF FinishFn, QueueOK
    <3>3. CASE fn.outcome = "never"
      <4>1. UNCHANGED <<generated, elsewhere, defined, code, classes>>
        BY <2>8, <3>1, <3>3 DEF FinishFn, Abandon
      <4> QED
        BY <2>1, <2>2, <2>3, <3>2, <4>1
    <3>4. CASE fn.outcome # "never"
      <4>1. PICK binding : binding = [name |-> fn.name, uses |-> {UseOf(fn, n) : n \in CallbacksOf(fn)}]
        OBVIOUS
      <4>2. /\ defined' = defined \cup Multi(fn) /\ code' = Append(code, binding)
            /\ generated' = generated \cup {d.name : d \in Multi(fn)}
            /\ UNCHANGED <<elsewhere, classes>>
        BY <2>8, <3>1, <3>4, <4>1 DEF FinishFn
      <4>3. Ledger'
        <5>1. \A d \in Multi(fn) : d.name \notin generated
          BY <3>2, MultiFacts DEF FilesOK
        <5>2. \A d, e \in Multi(fn) : d.name = e.name => d = e
          BY <3>2, MultiFacts DEF FilesOK
        <5> QED
          BY <3>2, <4>2, <5>1, <5>2, LedgerGrows
      <4>4. InterfacesKnown'
        BY <3>2, <4>2 DEF InterfacesKnown
      <4>5. ASSUME NEW n \in CallbacksOf(fn) PROVE UseOf(fn, n).name \in generated'
        <5>1. n \in 1..Len(fn.args) /\ fn.args[n] \in Arg /\ fn.args[n].kind = "callback"
          BY <3>2, <4>5 DEF CallbacksOf
        <5>2. CASE CallbacksOf(fn) = {n}
          <6>1. UseOf(fn, n).name = [base |-> Interface(fn.args[n].type), idx |-> 0]
            BY <5>2 DEF UseOf
          <6>2. Interface(fn.args[n].type) \in DOMAIN classes
            <7>1. Len(fn.args) - Len(args) = Len(fn.args)
              BY <3>2
            <7> QED
              BY <3>1, <3>2, <5>1, <7>1 DEF ArgsInv
          <6>3. fn.args[n].type \in CbType
            BY <5>1, ItemTypes
          <6> QED
            BY <3>2, <4>2, <6>1, <6>2, <6>3 DEF InterfacesKnown
        <5>3. CASE CallbacksOf(fn) # {n} /\ UseOf(fn, n).name \notin generated
          <6>1. Callback(UseOf(fn, n), n) \in Multi(fn)
            BY <5>3 DEF Multi, MultiCallbacks
          <6>2. Callback(UseOf(fn, n), n).name = UseOf(fn, n).name
            BY DEF Callback
          <6> QED
            BY <4>2, <6>1, <6>2
        <5>4. CASE UseOf(fn, n).name \in generated
          BY <4>2, <5>4
        <5> QED
          BY <5>2, <5>3, <5>4
      <4>6. UsesKnown'
        <5>1. code \in Seq(Binding) /\ Len(code) \in Nat
          BY DEF FilesOK
        <5>2. \A b \in DOMAIN code' : (b \in DOMAIN code /\ code'[b] = code[b]) \/ code'[b] = binding
          BY ONLY <4>2, <5>1
        <5>3. \A use \in binding.uses : use.name \in generated'
          BY <4>1, <4>5
        <5> QED
          BY <3>2, <4>2, <5>2, <5>3 DEF UsesKnown
      <4> QED
        BY <4>3, <4>4, <4>6
    <3> QED
      BY <3>3, <3>4
  <2>9. ASSUME UNCHANGED vars PROVE Ledger' /\ InterfacesKnown' /\ UsesKnown'
    BY <2>1, <2>2, <2>3, <2>9 DEF vars
  <2> QED
    BY <2>4, <2>5, <2>6, <2>7, <2>8, <2>9 DEF Next
<1>4. GeneratedInv => CallbacksDefinedOnce
  <2> SUFFICES ASSUME Ledger, UsesKnown, NEW b \in DOMAIN code, NEW use \in code[b].uses
               PROVE  IF use.name \in elsewhere
                      THEN Definitions(use.name) = {}
                      ELSE Cardinality(Definitions(use.name)) = 1
    BY <1>1 DEF CallbacksDefinedOnce, AtRest
  <2>1. CASE use.name \in elsewhere
    BY <2>1 DEF Ledger, Definitions
  <2>2. CASE use.name \notin elsewhere
    <3>1. PICK d \in defined : d.name = use.name
      BY <2>2 DEF Ledger, UsesKnown
    <3>2. Definitions(use.name) = {d}
      BY <3>1 DEF Ledger, Definitions
    <3> QED
      BY <2>2, <3>2, FS_Singleton
  <2> QED
    BY <2>1, <2>2
<1> QED
  BY <1>2, <1>3, <1>4, TypeCorrect, Arguments, PTL DEF Spec

-----------------------------------------------------------------------------
(* One step through a list of which the rest is left. *)
LEMMA Advance ==
  ASSUME NEW S, NEW whole \in Seq(S), NEW rest \in Seq(S), rest # <<>>,
         Len(whole) - Len(rest) \in Nat,
         \A n \in DOMAIN rest : rest[n] = whole[(Len(whole) - Len(rest)) + n]
  PROVE  /\ Len(whole) - Len(Tail(rest)) = (Len(whole) - Len(rest)) + 1
         /\ Head(rest) = whole[(Len(whole) - Len(rest)) + 1]
         /\ \A n \in DOMAIN Tail(rest) : Tail(rest)[n] = whole[((Len(whole) - Len(rest)) + 1) + n]
<1>1. PICK done \in Nat : done = Len(whole) - Len(rest)
  OBVIOUS
<1>2. /\ Len(rest) \in Nat \ {0} /\ Len(whole) \in Nat /\ Len(Tail(rest)) = Len(rest) - 1
      /\ DOMAIN rest = 1..Len(rest) /\ DOMAIN Tail(rest) = 1..(Len(rest) - 1)
      /\ Head(rest) = rest[1]
      /\ \A n \in 1..(Len(rest) - 1) : Tail(rest)[n] = rest[n + 1]
  OBVIOUS
<1>3. Len(whole) - Len(Tail(rest)) = done + 1
  BY <1>1, <1>2
<1>4. \A n \in 1..Len(rest) : rest[n] = whole[done + n]
  BY <1>1, <1>2
<1>5. Head(rest) = whole[done + 1]
  BY <1>2, <1>4
<1>6. \A n \in DOMAIN Tail(rest) : Tail(rest)[n] = whole[(done + 1) + n]
  <2>1. ASSUME NEW n \in 1..(Len(rest) - 1) PROVE Tail(rest)[n] = whole[(done + 1) + n]
    <3>1. n + 1 \in 1..Len(rest) /\ done + (n + 1) = (done + 1) + n
      BY <1>2
    <3> QED
      BY <1>2, <1>4, <3>1
  <2> QED
    BY <1>2, <2>1
<1> QED
  BY <1>1, <1>3, <1>5, <1>6

(* Files are never taken back within a compilation. *)
Grow ==
    /\ DOMAIN classes \subseteq DOMAIN classes' /\ converted \subseteq converted'
    /\ bindings' = bindings \/ \E n \in FnName : bindings' = Append(bindings, n)
    /\ code' = code \/ \E b \in Binding : code' = Append(code, b)

LEMMA PresentStays ==
  ASSUME FilesOK, Grow, NEW i, Present(i)
  PROVE  Present(i)'
<1>1. ASSUME NEW S, NEW s \in Seq(S), NEW x \in S, NEW j \in DOMAIN s
      PROVE  j \in DOMAIN Append(s, x) /\ Append(s, x)[j] = s[j]
  OBVIOUS
<1>2. ASSUME NEW j \in DOMAIN bindings PROVE j \in DOMAIN bindings' /\ bindings'[j] = bindings[j]
  BY <1>1 DEF FilesOK, Grow
<1>3. ASSUME NEW j \in DOMAIN code PROVE j \in DOMAIN code' /\ code'[j] = code[j]
  BY <1>1 DEF FilesOK, Grow
<1> QED
  BY <1>2, <1>3 DEF Present, Grow

(* What is finalised is whole: no exported item of the crate is missing in Java or in *)
(* jni.rs.  (compile returns its errors before finalise_output.)                      *)
THEOREM FinalisedWhole == Spec => []FinalisedIsComplete
<1>1. Init => ProgressInv
  BY DEF Init, ProgressInv
<1>2. TypeOK /\ ArgsInv /\ ProgressInv /\ [Next]_vars => ProgressInv'
  <2> DEFINE done == Len(crate) - Len(items)
             Got == /\ done \in Nat
                    /\ \A n \in DOMAIN items : items[n] = crate[done + n]
                    /\ ~failed => \A i \in 1..done : crate[i].exported => Present(crate[i])
             Whole == \A i \in DOMAIN crate : crate[i].exported => Present(crate[i])
  <2>1. ProgressInv <=> (pc \in {"items", "args"} => Got) /\ (pc = "finalised" => Whole)
    BY DEF ProgressInv
  <2> SUFFICES ASSUME TypeOK, QueueOK, FilesOK, ArgsInv, [Next]_vars,
                      pc \in {"items", "args"} => Got
               PROVE  (pc' \in {"items", "args"} => Got') /\ (pc' = "finalised" /\ pc # "finalised" => Whole')
                      /\ (pc' = "finalised" /\ pc = "finalised" => UNCHANGED vars)
    <3>1. UNCHANGED vars /\ Whole => Whole'
      BY DEF vars, session, outputs, rust, java, Present
    <3> QED
      BY <2>1, <3>1 DEF TypeOK, ProgressInv
  <2> USE DEF session, outputs, rust, java
  <2>2. ASSUME pc \in {"items", "args"}, Grow, UNCHANGED <<crate, items>>, ~failed' => ~failed
        PROVE  Got'
    <3>1. done' = done /\ Got
      BY <2>2
    <3>2. ASSUME ~failed', NEW i \in 1..done, crate[i].exported PROVE Present(crate[i])'
      <4>1. PICK it : it = crate[i]
        OBVIOUS
      <4>2. Present(it)
        BY <2>2, <3>1, <3>2, <4>1
      <4>3. Present(it)'
        BY <2>2, <4>2, PresentStays
      <4>4. it = crate'[i]
        BY <2>2, <4>1
      <4> QED
        BY <4>3, <4>4 DEF Present
    <3> HIDE DEF done
    <3> QED
      BY <2>2, <3>1, <3>2
  <2>3. ASSUME pc \in {"items", "args"}, Grow, UNCHANGED crate, ~failed' => ~failed,
               items # <<>>, items' = Tail(items),
               NEW it, it = Head(items), ~failed' /\ it.exported => Present(it)'
        PROVE  Got'
    <3>1. PICK d : d = done
      OBVIOUS
    <3>2. /\ d \in Nat /\ crate' = crate /\ Len(crate) - Len(items') = d + 1 /\ it = crate[d + 1]
          /\ \A n \in DOMAIN items' : items'[n] = crate[(d + 1) + n]
      <4>1. crate \in Seq(Item) /\ items \in Seq(Item)
        BY DEF QueueOK
      <4>2. done \in Nat /\ \A n \in DOMAIN items : items[n] = crate[done + n]
        BY <2>3
      <4>3. /\ Len(crate) - Len(Tail(items)) = done + 1 /\ Head(items) = crate[done + 1]
            /\ \A n \in DOMAIN Tail(items) : Tail(items)[n] = crate[(done + 1) + n]
        <5>1. items # <<>> /\ Len(crate) - Len(items) \in Nat
          BY <2>3, <4>2
        <5>2. \A n \in DOMAIN items : items[n] = crate[(Len(crate) - Len(items)) + n]
          BY <4>2
        <5> QED
          BY ONLY <4>1, <5>1, <5>2, Advance
      <4> QED
        BY ONLY <2>3, <3>1, <4>2, <4>3
    <3>3. ASSUME ~failed', NEW n \in 1..(d + 1), crate[n].exported PROVE Present(crate[n])'
      <4>1. PICK i : i = crate[n]
        OBVIOUS
      <4>2. CASE n \in 1..d
        <5>1. Present(i)
          BY <2>3, <3>1, <3>3, <4>1, <4>2
        <5> QED
          BY <2>3, <3>2, <4>1, <5>1, PresentStays DEF Present
      <4>3. CASE n = d + 1
        BY <2>3, <3>2, <3>3, <4>1, <4>3 DEF Present
      <4> QED
        BY <3>2, <4>2, <4>3
    <3>4. done' = d + 1
      BY <3>2
    <3> QED
      BY <3>2, <3>3, <3>4
  <2>4. UNCHANGED <<bindings, code, classes, converted>> => Grow
    BY DEF Grow
  <2>5. ASSUME NEW empty \in BOOLEAN, Compile(empty) PROVE pc' = "items" /\ Got'
    <3>1. pc' = "items" /\ items' = crate' /\ crate' \in Seq(Item)
      BY <2>5, CratesAssumption DEF Compile
    <3>2. Len(crate') \in Nat /\ Len(crate') - Len(items') = 0
      BY <3>1
    <3> QED
      BY <3>1, <3>2
  <2>6. ASSUME Ignore PROVE pc' = "items" /\ Got'
    <3>1. PICK it : it = Head(items)
      OBVIOUS
    <3>2. /\ pc = "items" /\ pc' = "items" /\ items # <<>> /\ items' = Tail(items) /\ ~it.exported
          /\ UNCHANGED <<crate, failed, bindings, code, classes, converted>>
      BY <2>6, <3>1 DEF Ignore, Ignored
    <3> HIDE DEF Got
    <3> QED
      BY <2>3, <2>4, <3>1, <3>2
  <2>7. ASSUME ParseStruct PROVE pc' = "items" /\ Got'
    <3>1. PICK it : it = Head(items)
      OBVIOUS
    <3>2. /\ pc = "items" /\ pc' = "items" /\ items # <<>> /\ items' = Tail(items)
          /\ UNCHANGED <<crate, bindings, code>> /\ it.kind = "struct"
          /\ \/ failed' = TRUE /\ UNCHANGED <<classes, converted>>
             \/ /\ failed' = failed /\ Put(it.name, "bindings")
                /\ converted' = Conversions(it)
      BY <2>7, <3>1 DEF ParseStruct
    <3>3. Grow /\ (~failed' => Present(it)') /\ (~failed' => ~failed)
      BY <3>2 DEF Grow, Put, Conversions, Present
    <3> HIDE DEF Got
    <3> QED
      BY <2>3, <3>1, <3>2, <3>3
  <2>8. ASSUME ParseFn PROVE pc' \in {"items", "args"} /\ Got'
    <3>1. PICK it : it = Head(items)
      OBVIOUS
    <3>2. /\ pc = "items" /\ items # <<>> /\ UNCHANGED <<crate, bindings, code, classes, converted>>
          /\ \/ failed' = TRUE /\ items' = Tail(items) /\ pc' = "items"
             \/ UNCHANGED <<failed, items>> /\ pc' = "args"
      BY <2>8, <3>1 DEF ParseFn
    <3> HIDE DEF Got
    <3> QED
      BY <2>2, <2>3, <2>4, <3>1, <3>2
  <2>9. ASSUME Abandon, pc = "args", UNCHANGED crate PROVE pc' = "items" /\ Got'
    <3>1. PICK it : it = Head(items)
      OBVIOUS
    <3>2. /\ items # <<>> /\ pc' = "items" /\ failed' = TRUE /\ items' = Tail(items)
          /\ UNCHANGED <<bindings, code, classes, converted>>
      BY <2>9 DEF Abandon, QueueOK
    <3> HIDE DEF Got
    <3> QED
      BY <2>3, <2>4, <2>9, <3>1, <3>2
  <2>10. ASSUME RefuseArg PROVE pc' = "items" /\ Got'
    BY <2>9, <2>10 DEF RefuseArg, Abandon
  <2>11. ASSUME PlainArg PROVE pc' = "args" /\ Got'
    <3>1. pc = "args" /\ pc' = "args" /\ UNCHANGED <<items, failed, crate, bindings, code, classes, converted>>
      BY <2>11 DEF PlainArg
    <3> HIDE DEF Got
    <3> QED
      BY <2>2, <2>4, <3>1
  <2>12. ASSUME CallbackArg PROVE pc' \in {"args", "panicked"} /\ Got'
    <3>1. /\ pc = "args" /\ pc' \in {"args", "panicked"}
          /\ UNCHANGED <<items, failed, crate, bindings, code, converted>>
      BY <2>12 DEF CallbackArg
    <3>2. DOMAIN classes \subseteq DOMAIN classes'
      BY <2>12 DEF CallbackArg, Put
    <3>3. Grow
      BY <3>1, <3>2 DEF Grow
    <3> HIDE DEF Got
    <3> QED
      BY <2>2, <3>1, <3>3
  <2>13. ASSUME FinishFn, pc' # "panicked" PROVE pc' = "items" /\ Got'
    <3>1. PICK it : it = Head(items)
      OBVIOUS
    <3>2. /\ pc = "args" /\ args = <<>> /\ items # <<>>
          /\ it \in Item /\ it.kind = "fn" /\ it.name \in FnName /\ it.args \in Seq(Arg)
      BY <2>13, <3>1, ItemTypes DEF FinishFn, QueueOK
    <3>3. CASE it.outcome = "never"
      <4>1. Abandon /\ UNCHANGED crate
        BY <2>13, <3>1, <3>3 DEF FinishFn, Abandon
      <4> QED
        BY <2>9, <3>2, <4>1
    <3>4. CASE it.outcome # "never"
      <4>1. PICK binding : binding = [name |-> it.name, uses |-> {UseOf(it, n) : n \in CallbacksOf(it)}]
        OBVIOUS
      <4>2. /\ bindings' = Append(bindings, it.name) /\ code' = Append(code, binding)
            /\ UNCHANGED <<crate, failed, classes, converted>> /\ pc' = "items" /\ items' = Tail(items)
        BY <2>13, <3>1, <3>4, <4>1 DEF FinishFn
      <4>3. binding \in Binding /\ binding.name = it.name
        BY <3>2, <4>1, UseTypes DEF Binding
      <4>4. Grow
        BY <3>2, <4>2, <4>3 DEF Grow
      <4>5. \E j \in DOMAIN bindings' : bindings'[j] = it.name
        <5>1. Len(bindings) + 1 \in DOMAIN bindings' /\ bindings'[Len(bindings) + 1] = it.name
          BY <4>2 DEF FilesOK
        <5> QED
          BY <5>1
      <4>6. \E j \in DOMAIN code' : code'[j].name = it.name
        <5>1. Len(code) + 1 \in DOMAIN code' /\ code'[Len(code) + 1] = binding
          BY <4>2 DEF FilesOK
        <5> QED
          BY <4>3, <5>1
      <4>7. ASSUME NEW a \in DOMAIN it.args, it.args[a].kind = "callback"
            PROVE  Interface(it.args[a].type) \in DOMAIN classes'
        <5>1. Len(it.args) - Len(args) = Len(it.args) /\ a \in 1..Len(it.args)
          BY <3>2
        <5> QED
          BY <3>1, <3>2, <4>2, <4>7, <5>1 DEF ArgsInv
      <4>8. Present(it)'
        BY <3>2, <4>5, <4>6, <4>7 DEF Present
      <4> HIDE DEF Got
      <4> QED
        BY <2>3, <3>1, <3>2, <4>2, <4>4, <4>8
    <3> QED
      BY <3>3, <3>4
  <2>14. ASSUME EndCompile PROVE pc = "items" /\ pc' \notin {"items", "args"} /\ (pc' = "finalised" => Whole')
    <3>1. pc' \notin {"items", "args"} /\ pc = "items" /\ items = <<>>
      BY <2>14 DEF EndCompile
    <3>2. ASSUME pc' = "finalised" PROVE Whole'
      <4>1. ~failed /\ UNCHANGED <<crate, bindings, code, classes, converted>>
        BY <2>14, <3>2 DEF EndCompile
      <4>2. done = Len(crate) /\ DOMAIN crate = 1..Len(crate)
        BY <3>1 DEF QueueOK
      <4>3. Whole
        BY <3>1, <4>1, <4>2
      <4> QED
        BY <4>1, <4>3 DEF Present
    <3> QED
      BY <3>1, <3>2
  <2>15. CASE UNCHANGED vars
    <3>1. ASSUME pc' \in {"items", "args"} PROVE Got'
      <4>1. UNCHANGED <<pc, items, failed, crate, bindings, code, classes, converted>>
        BY <2>15 DEF vars
      <4> HIDE DEF Got
      <4> QED
        BY <2>2, <2>4, <3>1, <4>1
    <3> QED
      BY <2>15, <3>1 DEF vars
  <2> HIDE DEF Got, Whole
  <2> QED
    BY <2>5, <2>6, <2>7, <2>8, <2>10, <2>11, <2>12, <2>13, <2>14, <2>15 DEF Next
<1>3. ProgressInv => FinalisedIsComplete
  BY DEF ProgressInv, FinalisedIsComplete
<1> QED
  BY <1>1, <1>2, <1>3, TypeCorrect, Arguments, PTL DEF Spec

-----------------------------------------------------------------------------
(* What one function uses and defines. *)
UseFits(use, fn) ==
    use.name.base = IF use.name.idx = 0 THEN Interface(use.type) ELSE fn.name

LEMMA UsesFit ==
  ASSUME NEW fn \in Item, fn.kind = "fn"
  PROVE  /\ \A n \in CallbacksOf(fn) : UseFits(UseOf(fn, n), fn)
         /\ \A m, n \in CallbacksOf(fn) : UseOf(fn, m).name = UseOf(fn, n).name =>
                                              UseOf(fn, m) = UseOf(fn, n)
         /\ \A d \in Multi(fn) : \E n \in CallbacksOf(fn) :
                /\ d.name.idx # 0 /\ d.name.base = fn.name
                /\ UseOf(fn, n) = [name |-> d.name, type |-> d.type]
<1>1. ASSUME NEW n \in CallbacksOf(fn) PROVE UseFits(UseOf(fn, n), fn)
  <2>1. Index(fn, n) # 0
    BY IndexFacts
  <2>2. CASE CallbacksOf(fn) = {n}
    BY <2>2 DEF UseOf, UseFits
  <2>3. CASE CallbacksOf(fn) # {n}
    BY <2>1, <2>3 DEF UseOf, UseFits
  <2> QED
    BY <2>2, <2>3
<1>2. ASSUME NEW m \in CallbacksOf(fn), NEW n \in CallbacksOf(fn),
             UseOf(fn, m).name = UseOf(fn, n).name
      PROVE  UseOf(fn, m) = UseOf(fn, n)
  <2>1. CASE CallbacksOf(fn) = {m} \/ CallbacksOf(fn) = {n}
    <3>1. m = n
      BY <2>1
    <3> QED
      BY <3>1
  <2>2. CASE CallbacksOf(fn) # {m} /\ CallbacksOf(fn) # {n}
    <3>1. UseOf(fn, m).name.idx = Index(fn, m)
      BY <2>2 DEF UseOf
    <3>2. UseOf(fn, n).name.idx = Index(fn, n)
      BY <2>2 DEF UseOf
    <3>3. Index(fn, m) = Index(fn, n)
      BY <1>2, <3>1, <3>2
    <3>4. m = n
      BY <3>3, IndexFacts
    <3> QED
      BY <3>4
  <2> QED
    BY <2>1, <2>2
<1>3. ASSUME NEW d \in Multi(fn)
      PROVE  \E n \in CallbacksOf(fn) : /\ d.name.idx # 0 /\ d.name.base = fn.name
                                        /\ UseOf(fn, n) = [name |-> d.name, type |-> d.type]
  <2>1. PICK n \in MultiCallbacks(fn) : d = Callback(UseOf(fn, n), n)
    BY DEF Multi
  <2>2. n \in CallbacksOf(fn) /\ CallbacksOf(fn) # {n}
    BY DEF MultiCallbacks
  <2>3. Index(fn, n) # 0
    BY <2>2, IndexFacts
  <2>4. UseOf(fn, n) = [name |-> [base |-> fn.name, idx |-> Index(fn, n)], type |-> fn.args[n].type]
    BY <2>2 DEF UseOf
  <2>5. d.name = UseOf(fn, n).name /\ d.type = UseOf(fn, n).type
    BY <2>1 DEF Callback
  <2> QED
    BY <2>2, <2>3, <2>4, <2>5
<1> QED
  BY <1>1, <1>2, <1>3

DefinitionFits(d) ==
    IF d.name.idx = 0
    THEN Interface(d.type) = d.name.base
    ELSE \E b \in DOMAIN code : /\ code[b].name = d.name.base
                                /\ [name |-> d.name, type |-> d.type] \in code[b].uses
BindingFits(b) ==
    \A use \in b.uses :
        /\ UseFits(use, b)
        /\ \A other \in b.uses : other.name = use.name => Interface(other.type) = Interface(use.type)

(* The callback that a binding passes has the Java interface of the C type that the    *)
(* native function asks for, whatever functions shared or repeated it before.          *)
(* (generate_jni_function names what it calls and what it generates apart.)            *)
THEOREM CallbacksFit == Spec => []CallbackFitsItsUse
<1>1. FitsInv <=> /\ \A b \in DOMAIN code : BindingFits(code[b])
                  /\ \A d \in defined : DefinitionFits(d)
  BY DEF FitsInv, BindingFits, DefinitionFits, UseFits
<1>2. Init => FitsInv
  BY DEF Init, FitsInv
<1>3. TypeOK /\ FitsInv /\ [Next]_vars => FitsInv'
  <2> SUFFICES ASSUME TypeOK, QueueOK, FilesOK, FitsInv, [Next]_vars PROVE FitsInv'
    BY DEF TypeOK
  <2> USE DEF session, outputs, rust, java
  <2>1. ASSUME UNCHANGED <<defined, code>> PROVE FitsInv'
    BY <2>1 DEF FitsInv
  <2>2. ASSUME NEW empty \in BOOLEAN, Compile(empty) PROVE FitsInv'
    <3>1. CASE empty
      BY <2>2, <3>1 DEF Compile, FitsInv
    <3>2. CASE ~empty
      BY <2>1, <2>2, <3>2 DEF Compile
    <3> QED
      BY <3>1, <3>2
  <2>3. ASSUME Ignore \/ ParseStruct \/ ParseFn \/ RefuseArg \/ PlainArg \/ EndCompile PROVE FitsInv'
    BY <2>1, <2>3 DEF Ignore, ParseStruct, ParseFn, RefuseArg, Abandon, PlainArg, EndCompile
  <2>4. ASSUME CallbackArg PROVE FitsInv'
    <3> DEFINE t == Head(args).type
               cb == Callback([name |-> [base |-> Interface(t), idx |-> 0], type |-> t], Len(args))
    <3>1. code' = code /\ (defined' = defined \/ defined' = defined \cup {cb})
      BY <2>4 DEF CallbackArg
    <3>2. cb.name.idx = 0 /\ Interface(cb.type) = cb.name.base
      BY DEF Callback
    <3> HIDE DEF cb
    <3> QED
      BY <3>1, <3>2 DEF FitsInv
  <2>5. ASSUME FinishFn PROVE FitsInv'
    <3>1. PICK fn : fn = Head(items)
      OBVIOUS
    <3>2. fn \in Item /\ fn.kind = "fn"
      BY <2>5, <3>1 DEF FinishFn, QueueOK
    <3>3. PICK binding : binding = [name |-> fn.name, uses |-> {UseOf(fn, n) : n \in CallbacksOf(fn)}]
      OBVIOUS
    <3>4. \/ UNCHANGED <<defined, code>>
          \/ defined' = defined \cup Multi(fn) /\ code' = Append(code, binding)
      BY <2>5, <3>1, <3>3 DEF FinishFn, Abandon
    <3>5. CASE defined' = defined \cup Multi(fn) /\ code' = Append(code, binding)
      <4>1. /\ \A b \in DOMAIN code' : (b \in DOMAIN code /\ code'[b] = code[b]) \/ code'[b] = binding
            /\ \A b \in DOMAIN code : b \in DOMAIN code' /\ code'[b] = code[b]
            /\ Len(code) + 1 \in DOMAIN code' /\ code'[Len(code) + 1] = binding
        BY <3>5 DEF FilesOK
      <4>2. BindingFits(binding)
        <5>1. ASSUME NEW use \in binding.uses
              PROVE  /\ UseFits(use, binding)
                     /\ \A other \in binding.uses : other.name = use.name => other = use
          <6>1. PICK n \in CallbacksOf(fn) : use = UseOf(fn, n)
            BY <3>3
          <6>2. UseFits(use, fn) /\ binding.name = fn.name
            BY <3>2, <3>3, <6>1, UsesFit
          <6>3. \A other \in binding.uses : other.name = use.name => other = use
            BY <3>2, <3>3, <6>1, UsesFit
          <6> QED
            BY <6>2, <6>3 DEF UseFits
        <5> QED
          BY <5>1 DEF BindingFits
      <4>3. \A b \in DOMAIN code' : BindingFits(code'[b])
        BY <1>1, <4>1, <4>2
      <4>4. ASSUME NEW d \in Multi(fn) PROVE DefinitionFits(d)'
        <5>1. /\ d.name.idx # 0 /\ d.name.base = fn.name
              /\ [name |-> d.name, type |-> d.type] \in binding.uses
          BY <3>2, <3>3, UsesFit
        <5>2. binding.name = fn.name
          BY <3>3
        <5> QED
          BY <4>1, <5>1, <5>2 DEF DefinitionFits
      <4>5. ASSUME NEW d \in defined PROVE DefinitionFits(d)'
        <5>1. DefinitionFits(d)
          BY <1>1
        <5> QED
          BY <4>1, <5>1 DEF DefinitionFits
      <4>6. \A d \in defined' : DefinitionFits(d)'
        BY <3>5, <4>4, <4>5
      <4> QED
        BY <4>3, <4>6 DEF FitsInv, BindingFits, DefinitionFits, UseFits
    <3> QED
      BY <2>1, <3>4, <3>5
  <2>6. ASSUME UNCHANGED vars PROVE FitsInv'
    BY <2>1, <2>6 DEF vars
  <2> QED
    BY <2>2, <2>3, <2>4, <2>5, <2>6 DEF Next
<1>4. FitsInv => CallbackFitsItsUse
  <2> SUFFICES ASSUME FitsInv, NEW b \in DOMAIN code, OneSignature(b), NEW use \in code[b].uses,
                      NEW d \in Definitions(use.name)
               PROVE  Interface(d.type) = Interface(use.type)
    BY DEF CallbackFitsItsUse
  <2>1. d \in defined /\ d.name = use.name /\ DefinitionFits(d) /\ BindingFits(code[b])
    BY <1>1 DEF Definitions
  <2>2. CASE use.name.idx = 0
    BY <2>1, <2>2 DEF DefinitionFits, BindingFits, UseFits
  <2>3. CASE use.name.idx # 0
    <3>1. PICK c \in DOMAIN code : /\ code[c].name = d.name.base
                                   /\ [name |-> d.name, type |-> d.type] \in code[c].uses
      BY <2>1, <2>3 DEF DefinitionFits
    <3>2. code[c].name = code[b].name
      BY <2>1, <2>3, <3>1 DEF BindingFits, UseFits
    <3>3. [name |-> d.name, type |-> d.type] \in code[b].uses
      BY <3>1, <3>2 DEF OneSignature
    <3> QED
      BY <2>1, <3>3 DEF BindingFits
  <2> QED
    BY <2>2, <2>3
<1> QED
  BY <1>2, <1>3, <1>4, TypeCorrect, PTL DEF Spec
=============================================================================
