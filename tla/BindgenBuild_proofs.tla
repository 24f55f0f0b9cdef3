------------------------- MODULE BindgenBuild_proofs -------------------------
(* Writing the outputs, for every back end, crate and set of files, and any   *)
(* number of failing and crashing runs.                                       *)
EXTENDS BindgenBuild, FiniteSetTheorems, TLAPS

(* Items that the parser has yet to dispatch, and those the back end has, are    *)
(* sequences.                                                                    *)
ListsOK ==
    /\ crate \in Crate /\ modules \in Seq(Module) /\ entries \in Seq(Entry)
    /\ lang \in Seq(Item) /\ errors \in Seq(Item)
    /\ disk \in [File -> Content \cup {Absent, Torn}]
    /\ remains \in [File -> SUBSET (Content \cup {Absent, Torn})]
    /\ file \in File /\ runs \in Nat /\ spoiled \in Nat

LEMMA FilesOfType ==
  ASSUME NEW items \in Seq(Item)
  PROVE  /\ FilesOf(items) \subseteq File
         /\ DOMAIN Rendered(items) = FilesOf(items)
         /\ Rendered(items) \in [FilesOf(items) -> Content]
<1>1. FilesOf(items) \subseteq File
  BY ProducesAssumption DEF FilesOf
<1>2. items \in Content
  BY DEF Content
<1> QED
  BY <1>1, <1>2 DEF Rendered

LEMMA Lists == Spec => [](ListsOK /\ WriteInv)
<1>1. Init => ListsOK /\ WriteInv
  BY CratesAssumption DEF Init, ListsOK, WriteInv, Writing, FileOpen, AtRest
<1>2. ListsOK /\ WriteInv /\ [Next]_vars => (ListsOK /\ WriteInv)'
  <2> SUFFICES ASSUME ListsOK, WriteInv, [Next]_vars PROVE (ListsOK /\ WriteInv)'
    OBVIOUS
  <2> USE DEF ListsOK, compiling, Writing, FileOpen
  <2>1. ASSUME RunBuild PROVE (ListsOK /\ WriteInv)'
    <3>1. modules' \in Seq(Module) /\ crate' \in Crate
      BY <2>1, CratesAssumption DEF RunBuild, Crate
    <3> QED
      BY <2>1, <3>1 DEF RunBuild, WriteInv
  <2>2. ASSUME OpenModule PROVE (ListsOK /\ WriteInv)'
    <3>1. Head(modules) \in Module /\ Tail(modules) \in Seq(Module)
      BY <2>2 DEF OpenModule
    <3> QED
      BY <2>2, <3>1 DEF OpenModule, WriteInv, Module
  <2>3. ASSUME ParseItem PROVE (ListsOK /\ WriteInv)'
    <3>1. Head(entries) \in Entry /\ Tail(entries) \in Seq(Entry)
      BY <2>3 DEF ParseItem
    <3>2. lang' \in Seq(Item) /\ errors' \in Seq(Item)
      BY <2>3, <3>1 DEF ParseItem, Entry
    <3> QED
      BY <2>3, <3>1, <3>2 DEF ParseItem, WriteInv
  <2>4. ASSUME EndModule PROVE (ListsOK /\ WriteInv)'
    BY <2>4 DEF EndModule, WriteInv
  <2>5. ASSUME Finalise PROVE (ListsOK /\ WriteInv)'
    <3>1. lang \in Seq(Item) /\ Rendered(lang) \in [FilesOf(lang) -> Content]
          /\ FilesOf(lang) \subseteq File /\ DOMAIN Rendered(lang) = FilesOf(lang)
      BY FilesOfType
    <3>2. CASE pc' = "errors"
      BY <2>5, <3>2 DEF Finalise, WriteInv
    <3>3. CASE pc' = "write"
      <4>1. outputs' = Rendered(lang) /\ todo' = FilesOf(lang) /\ UNCHANGED <<disk, remains>>
        BY <2>5, <3>3 DEF Finalise
      <4>2. WriteInv'
        BY <3>1, <3>3, <4>1 DEF WriteInv
      <4> QED
        BY <2>5, <4>2 DEF Finalise
    <3> QED
      BY <2>5, <3>2, <3>3 DEF Finalise
  <2>6. ASSUME CreateFile PROVE (ListsOK /\ WriteInv)'
    <3>1. PICK f \in todo :
            \/ /\ pc' = "fill" /\ file' = f
               /\ disk' = [disk EXCEPT ![f] = Torn]
               /\ remains' = [remains EXCEPT ![f] = @ \cup {Torn}] /\ UNCHANGED spoiled
            \/ pc' = "failed" /\ UNCHANGED <<file, disk, remains, spoiled>>
      BY <2>6 DEF CreateFile
    <3>2. f \in File
      BY <2>6 DEF CreateFile, WriteInv
    <3>3. ListsOK'
      <4>1. /\ disk' \in [File -> Content \cup {Absent, Torn}]
            /\ remains' \in [File -> SUBSET (Content \cup {Absent, Torn})]
        <5>1. CASE UNCHANGED <<disk, remains>>
          BY <5>1
        <5>2. CASE /\ disk' = [disk EXCEPT ![f] = Torn]
                   /\ remains' = [remains EXCEPT ![f] = @ \cup {Torn}]
          <6>1. remains[f] \cup {Torn} \in SUBSET (Content \cup {Absent, Torn})
            BY <3>2
          <6> QED
            BY <3>2, <5>2, <6>1
        <5> QED
          BY <3>1, <5>1, <5>2
      <4>2. file' \in File /\ spoiled' = spoiled
        BY <3>1, <3>2
      <4> QED
        BY <2>6, <4>1, <4>2 DEF CreateFile
    <3>4. CASE pc' = "failed"
      BY <2>6, <3>4 DEF CreateFile, WriteInv
    <3>5. CASE pc' = "fill"
      <4>1. /\ file' = f /\ disk' = [disk EXCEPT ![f] = Torn]
            /\ remains' = [remains EXCEPT ![f] = @ \cup {Torn}]
            /\ pc = "write" /\ UNCHANGED <<outputs, todo>>
        BY <2>6, <3>1, <3>5 DEF CreateFile
      <4>2. \A g \in DOMAIN outputs \ todo :
              disk'[g] = outputs[g] /\ remains'[g] \subseteq {outputs[g], Absent}
        BY <3>2, <4>1 DEF WriteInv
      <4>3. (\A g \in File : disk'[g] \in remains'[g]) /\ Torn \in remains'[f]
        BY <3>2, <4>1 DEF WriteInv
      <4> QED
        BY <3>3, <3>5, <4>1, <4>2, <4>3 DEF WriteInv
    <3> QED
      BY <3>1, <3>3, <3>4, <3>5
  <2>7. ASSUME WriteAll PROVE (ListsOK /\ WriteInv)'
    <3>1. file \in DOMAIN outputs /\ outputs[file] \in Content
      BY <2>7 DEF WriteAll, WriteInv
    <3>2. ListsOK'
      <4>1. /\ disk' \in [File -> Content \cup {Absent, Torn}]
            /\ remains' \in [File -> SUBSET (Content \cup {Absent, Torn})]
        <5>1. CASE UNCHANGED <<disk, remains>>
          BY <5>1
        <5>2. CASE /\ disk' = [disk EXCEPT ![file] = outputs[file]]
                   /\ remains' = [remains EXCEPT ![file] = @ \cup {outputs[file]}]
          <6>1. remains[file] \cup {outputs[file]} \in SUBSET (Content \cup {Absent, Torn})
            BY <3>1
          <6> QED
            BY <3>1, <5>2, <6>1
        <5> QED
          BY <2>7, <5>1, <5>2 DEF WriteAll
      <4>2. spoiled' \in Nat
        BY <2>7 DEF WriteAll, Fail
      <4> QED
        BY <2>7, <4>1, <4>2 DEF WriteAll
    <3>3. CASE pc' = "failed"
      BY <2>7, <3>2, <3>3 DEF WriteAll, Fail, WriteInv
    <3>4. CASE pc' # "failed"
      <4>1. /\ pc' = "sync" /\ disk' = [disk EXCEPT ![file] = outputs[file]]
            /\ remains' = [remains EXCEPT ![file] = @ \cup {outputs[file]}]
            /\ pc = "fill" /\ UNCHANGED <<outputs, todo, file>>
        BY <2>7, <3>4 DEF WriteAll, Fail
      <4>2. /\ disk'[file] = outputs[file]
            /\ remains'[file] = remains[file] \cup {outputs[file]}
            /\ \A g \in File \ {file} : disk'[g] = disk[g] /\ remains'[g] = remains[g]
        BY <4>1
      <4>3. \A g \in DOMAIN outputs \ todo :
              disk'[g] = outputs[g] /\ remains'[g] \subseteq {outputs[g], Absent}
        BY <4>1, <4>2 DEF WriteInv
      <4>4. (\A g \in File : disk'[g] \in remains'[g]) /\ Torn \in remains'[file]
        BY <4>1, <4>2 DEF WriteInv
      <4> QED
        BY <3>2, <4>1, <4>2, <4>3, <4>4 DEF WriteInv
    <3> QED
      BY <3>3, <3>4
  <2>8. ASSUME SyncAll PROVE (ListsOK /\ WriteInv)'
    <3>1. /\ pc = "sync" /\ UNCHANGED <<crate, compiling, outputs, file, disk, runs>>
          /\ file \in todo /\ disk[file] = outputs[file] /\ outputs[file] \in Content
      BY <2>8 DEF SyncAll, WriteInv
    <3>2. CASE pc' = "failed"
      BY <2>8, <3>1, <3>2 DEF SyncAll, Fail, WriteInv
    <3>3. CASE pc' # "failed"
      <4>1. /\ pc' = "write" /\ todo' = todo \ {file} /\ spoiled' = spoiled
            /\ remains' = [remains EXCEPT ![file] = {outputs[file]} \cup (@ \cap {Absent})]
        BY <2>8, <3>3 DEF SyncAll, Fail
      <4>2. /\ remains'[file] = {outputs[file]} \cup (remains[file] \cap {Absent})
            /\ \A g \in File \ {file} : remains'[g] = remains[g]
        BY <4>1
      <4>3. remains' \in [File -> SUBSET (Content \cup {Absent, Torn})]
        BY <3>1, <4>1
      <4>4. \A g \in DOMAIN outputs \ todo' :
              disk[g] = outputs[g] /\ remains'[g] \subseteq {outputs[g], Absent}
        BY <3>1, <4>1, <4>2 DEF WriteInv
      <4>5. \A g \in File : disk[g] \in remains'[g]
        BY <3>1, <4>2 DEF WriteInv
      <4>6. ListsOK'
        BY <3>1, <4>1, <4>3
      <4> QED
        BY <3>1, <4>1, <4>4, <4>5, <4>6 DEF WriteInv
    <3> QED
      BY <3>2, <3>3
  <2>9. ASSUME Return PROVE (ListsOK /\ WriteInv)'
    BY <2>9 DEF Return, WriteInv
  <2>10. ASSUME Crash PROVE (ListsOK /\ WriteInv)'
    <3>1. PICK d \in [File -> UNION {remains[f] : f \in File}] :
            /\ \A f \in File : d[f] \in remains[f]
            /\ disk' = d /\ remains' = [f \in File |-> {d[f]}]
      BY <2>10 DEF Crash
    <3>2. \A f \in File : d[f] \in Content \cup {Absent, Torn}
      BY <3>1
    <3>3. /\ disk' \in [File -> Content \cup {Absent, Torn}]
          /\ remains' \in [File -> SUBSET (Content \cup {Absent, Torn})]
          /\ \A f \in File : disk'[f] \in remains'[f]
      BY <3>1, <3>2
    <3>4. /\ pc' = "failed" /\ spoiled' \in Nat
          /\ UNCHANGED <<crate, compiling, outputs, todo, file, runs>>
      BY <2>10 DEF Crash, Fail
    <3> QED
      BY <3>3, <3>4 DEF WriteInv
  <2>11. ASSUME UNCHANGED vars PROVE (ListsOK /\ WriteInv)'
    BY <2>11 DEF vars, WriteInv
  <2> QED
    BY <2>1, <2>2, <2>3, <2>4, <2>5, <2>6, <2>7, <2>8, <2>9, <2>10, <2>11 DEF Next, Step
<1> QED
  BY <1>1, <1>2, PTL DEF Spec

(* When a run returns, every output is on disk, and a crash leaves it complete and   *)
(* as this run wrote it, or takes away a file that was new.                          *)
THEOREM DoneIsDurable == Spec => []DoneMeansOnDisk
<1>1. WriteInv => DoneMeansOnDisk
  BY DEF WriteInv, DoneMeansOnDisk, Writing
<1> QED
  BY <1>1, Lists, PTL

LEMMA Chain ==
  ASSUME NEW m \in Nat, NEW n \in Nat, NEW s \in Nat, NEW t \in Nat,
         NEW x \in {0, 1}, NEW y \in {0, 1},
         n <= m, m <= s + y, s + y <= t + x
  PROVE  n <= t + x
  OBVIOUS

(* A failing or crashing run spoils at most one file. *)
THEOREM TornIsBounded == Spec => []OneTornFilePerSpoiledRun
<1> DEFINE Extra == IF pc \in FileOpen THEN 1 ELSE 0
           Bounded == Cardinality(Spoilt) <= spoiled + Extra
<1>1. IsFiniteSet(Spoilt) /\ Cardinality(Spoilt) \in Nat
      /\ IsFiniteSet(Spoilt') /\ Cardinality(Spoilt') \in Nat
  <2>1. Spoilt \subseteq File /\ Spoilt' \subseteq File
    BY DEF Spoilt
  <2> QED
    BY <2>1, FileAssumption, FS_Subset, FS_CardinalityType
<1>2. Init => Bounded
  <2> SUFFICES ASSUME Init PROVE Bounded
    OBVIOUS
  <2>1. Spoilt = {}
    BY FileAssumption DEF Init, Spoilt
  <2> QED
    BY <2>1, FS_EmptySet DEF Init, FileOpen
<1>3. ListsOK /\ ListsOK' /\ WriteInv /\ Bounded /\ [Next]_vars => Bounded'
  <2> SUFFICES ASSUME ListsOK, ListsOK', WriteInv, Bounded, [Next]_vars PROVE Bounded'
    OBVIOUS
  <2>1. spoiled \in Nat /\ Extra \in {0, 1}
    BY DEF ListsOK
  <2> USE DEF ListsOK, compiling, Writing, FileOpen
  <2>2. ASSUME Spoilt' \subseteq Spoilt, spoiled + Extra <= (spoiled + Extra)'
        PROVE  Bounded'
    <3>1. Cardinality(Spoilt') <= Cardinality(Spoilt)
      BY <1>1, <2>2, FS_Subset
    <3>2. spoiled' \in Nat /\ Extra' \in {0, 1}
      BY DEF ListsOK
    <3>3. Cardinality(Spoilt) <= spoiled + Extra
      OBVIOUS
    <3> HIDE DEF Extra
    <3> QED
      BY <1>1, <2>1, <2>2, <3>1, <3>2, <3>3, Chain
  <2>3. ASSUME RunBuild \/ OpenModule \/ ParseItem \/ EndModule \/ Finalise \/ Return
               \/ UNCHANGED vars
        PROVE  Bounded'
    <3>1. Spoilt' = Spoilt /\ spoiled' = spoiled /\ Extra' = Extra
      BY <2>3 DEF RunBuild, OpenModule, ParseItem, EndModule, Finalise, Return, vars,
                  Spoilt, AtRest
    <3> QED
      BY <3>1
  <2>4. ASSUME CreateFile PROVE Bounded'
    <3>1. CASE pc' = "failed"
      <4>1. Spoilt' = Spoilt /\ spoiled' = spoiled /\ Extra' = Extra
        BY <2>4, <3>1 DEF CreateFile, Spoilt
      <4> QED
        BY <4>1
    <3>2. CASE pc' # "failed"
      <4>1. PICK f \in todo : pc' = "fill" /\ disk' = [disk EXCEPT ![f] = Torn]
                              /\ remains' = [remains EXCEPT ![f] = @ \cup {Torn}]
                              /\ UNCHANGED spoiled
        BY <2>4, <3>2 DEF CreateFile
      <4>2. f \in File
        BY <2>4 DEF CreateFile, WriteInv
      <4>3. Spoilt' = Spoilt \cup {f}
        BY <4>1, <4>2 DEF Spoilt
      <4>4. Cardinality(Spoilt') <= Cardinality(Spoilt) + 1
        <5>1. CASE f \in Spoilt
          <6>1. Spoilt' = Spoilt
            BY <4>3, <5>1
          <6> HIDE DEF Spoilt
          <6> QED
            BY <1>1, <6>1
        <5>2. CASE f \notin Spoilt
          <6>1. f \notin Spoilt /\ IsFiniteSet(Spoilt) /\ Spoilt' = Spoilt \cup {f}
            BY <1>1, <4>3, <5>2
          <6> HIDE DEF Spoilt
          <6>2. Cardinality(Spoilt \cup {f}) = Cardinality(Spoilt) + 1
            BY <6>1, FS_AddElement
          <6> QED
            BY <1>1, <6>1, <6>2
        <5> QED
          BY <5>1, <5>2
      <4>5. Extra' = 1 /\ Extra = 0 /\ spoiled' = spoiled
        BY <2>4, <4>1 DEF CreateFile
      <4> QED
        BY <1>1, <4>4, <4>5
    <3> QED
      BY <3>1, <3>2
  <2>5. ASSUME WriteAll PROVE Bounded'
    <3>1. outputs[file] # Torn
      BY <2>5, FileAssumption DEF WriteAll, WriteInv
    <3>2. Spoilt' \subseteq Spoilt
      BY <2>5, <3>1 DEF WriteAll, WriteInv, Fail, Spoilt
    <3>3. spoiled + Extra <= (spoiled + Extra)'
      <4>1. Extra = 1 /\ \/ Extra' = 1 /\ spoiled' = spoiled
                         \/ Extra' = 0 /\ spoiled' = spoiled + 1
        BY <2>5 DEF WriteAll, Fail
      <4> HIDE DEF Extra
      <4> QED
        BY <2>1, <4>1
    <3> QED
      BY <2>2, <3>2, <3>3
  <2>6. ASSUME SyncAll PROVE Bounded'
    <3>1. CASE Fail /\ UNCHANGED <<todo, remains>>
      BY <2>2, <2>6, <3>1 DEF SyncAll, Fail, Spoilt
    <3>2. CASE ~(Fail /\ UNCHANGED <<todo, remains>>)
      <4>1. /\ pc' = "write" /\ disk' = disk /\ spoiled' = spoiled
            /\ remains' = [remains EXCEPT ![file] = {outputs[file]} \cup (@ \cap {Absent})]
        BY <2>6, <3>2 DEF SyncAll
      <4>2. file \in Spoilt /\ disk[file] # Torn /\ outputs[file] # Torn
        BY <2>6, FileAssumption DEF SyncAll, WriteInv, Spoilt
      <4>3. /\ Torn \notin remains'[file]
            /\ \A g \in File \ {file} : remains'[g] = remains[g]
        BY <4>1, <4>2, FileAssumption
      <4>4. Spoilt' = Spoilt \ {file}
        BY <4>1, <4>2, <4>3 DEF Spoilt
      <4>5. Cardinality(Spoilt') = Cardinality(Spoilt) - 1
        BY <1>1, <4>2, <4>4, FS_RemoveElement
      <4>6. Extra' = 0 /\ Extra = 1
        BY <2>6, <4>1 DEF SyncAll
      <4> QED
        BY <1>1, <4>1, <4>5, <4>6
    <3> QED
      BY <3>1, <3>2
  <2>7. ASSUME Crash PROVE Bounded'
    <3>1. PICK d \in [File -> UNION {remains[f] : f \in File}] :
            /\ \A f \in File : d[f] \in remains[f]
            /\ disk' = d /\ remains' = [f \in File |-> {d[f]}]
      BY <2>7 DEF Crash
    <3>2. Spoilt' \subseteq Spoilt
      BY <3>1 DEF Spoilt
    <3>3. spoiled + Extra <= (spoiled + Extra)'
      <4>1. \/ Extra' = 0 /\ spoiled' = spoiled + 1
            \/ Extra = 0 /\ Extra' = 0 /\ spoiled' = spoiled
        BY <2>7 DEF Crash, Fail
      <4> HIDE DEF Extra
      <4> QED
        BY <2>1, <4>1
    <3> QED
      BY <2>2, <3>3, <3>2
  <2> QED
    BY <2>3, <2>4, <2>5, <2>6, <2>7 DEF Next, Step
<1>4. Bounded <=> OneTornFilePerSpoiledRun
  BY DEF OneTornFilePerSpoiledRun, Spoilt
<1> QED
  BY <1>2, <1>3, <1>4, Lists, PTL DEF Spec

-----------------------------------------------------------------------------
(* Counting, in a sequence that grows and in a set. *)
Occurrences(list, e) == {k \in DOMAIN list : list[k] = e}

LEMMA FinitePart ==
  ASSUME NEW n \in Nat, NEW T, T \subseteq 1..n
  PROVE  IsFiniteSet(T) /\ Cardinality(T) \in Nat
<1>1. IsFiniteSet(1..n)
  BY FS_Interval
<1>2. IsFiniteSet(T)
  BY <1>1, FS_Subset
<1> QED
  BY <1>2, FS_CardinalityType

LEMMA EntriesOf ==
  ASSUME NEW c \in Seq(Module), NEW n \in DOMAIN c
  PROVE  c[n].entries \in Seq(Entry)
<1>1. c[n] \in Module
  OBVIOUS
<1> QED
  BY <1>1 DEF Module

LEMMA CountAppend ==
  ASSUME NEW S, NEW list \in Seq(S), NEW x \in S, NEW e
  PROVE  /\ Cardinality(Occurrences(list, e)) \in Nat
         /\ Cardinality(Occurrences(Append(list, x), e)) =
              IF x = e THEN Cardinality(Occurrences(list, e)) + 1
                       ELSE Cardinality(Occurrences(list, e))
<1>1. Len(list) \in Nat /\ DOMAIN list = 1..Len(list) /\ DOMAIN Append(list, x) = 1..(Len(list) + 1)
      /\ Append(list, x)[Len(list) + 1] = x
      /\ \A k \in 1..Len(list) : Append(list, x)[k] = list[k]
  OBVIOUS
<1>2. IsFiniteSet(Occurrences(list, e))
  <2>1. Occurrences(list, e) \subseteq 1..Len(list)
    BY <1>1 DEF Occurrences
  <2> QED
    BY <1>1, <2>1, FinitePart
<1>3. Cardinality(Occurrences(list, e)) \in Nat
  BY <1>2, FS_CardinalityType
<1>4. CASE x = e
  <2>1. Occurrences(Append(list, x), e) = Occurrences(list, e) \cup {Len(list) + 1}
    BY <1>1, <1>4 DEF Occurrences
  <2>2. Len(list) + 1 \notin Occurrences(list, e)
    BY <1>1 DEF Occurrences
  <2> QED
    BY <1>2, <1>3, <1>4, <2>1, <2>2, FS_AddElement
<1>5. CASE x # e
  <2>1. Occurrences(Append(list, x), e) = Occurrences(list, e)
    BY <1>1, <1>5 DEF Occurrences
  <2> QED
    BY <1>3, <1>5, <2>1
<1> QED
  BY <1>3, <1>4, <1>5

(* One step through a list of which the rest is left. *)
LEMMA Advance ==
  ASSUME NEW S, NEW whole \in Seq(S), NEW rest \in Seq(S), rest # <<>>,
         Len(whole) - Len(rest) \in Nat,
         \A n \in DOMAIN rest : rest[n] = whole[(Len(whole) - Len(rest)) + n]
  PROVE  /\ Len(whole) - Len(Tail(rest)) = (Len(whole) - Len(rest)) + 1
         /\ (Len(whole) - Len(rest)) + 1 \in DOMAIN whole
         /\ Head(rest) = whole[(Len(whole) - Len(rest)) + 1]
         /\ \A n \in DOMAIN Tail(rest) : Tail(rest)[n] = whole[((Len(whole) - Len(rest)) + 1) + n]
<1>1. PICK done \in Nat : done = Len(whole) - Len(rest)
  OBVIOUS
<1>2. /\ Len(rest) \in Nat \ {0} /\ Len(whole) \in Nat /\ Len(Tail(rest)) = Len(rest) - 1
      /\ DOMAIN rest = 1..Len(rest) /\ DOMAIN Tail(rest) = 1..(Len(rest) - 1)
      /\ Head(rest) = rest[1] /\ DOMAIN whole = 1..Len(whole)
      /\ \A n \in 1..(Len(rest) - 1) : Tail(rest)[n] = rest[n + 1]
  OBVIOUS
<1>3. Len(whole) - Len(Tail(rest)) = done + 1 /\ done + 1 \in DOMAIN whole
  BY <1>1, <1>2
<1>4. \A n \in 1..Len(rest) : rest[n] = whole[done + n]
  BY <1>1, <1>2
<1>5. Head(rest) = whole[done + 1]
  BY <1>2, <1>4
<1>6. \A n \in DOMAIN Tail(rest) : Tail(rest)[n] = whole[(done + 1) + n]
  <2>1. ASSUME NEW n \in 1..(Len(rest) - 1) PROVE Tail(rest)[n] = whole[(done + 1) + n]
    <3>1. n + 1 \in 1..Len(rest) /\ done + (n + 1) = (done + 1) + n
      BY <1>2
    <3> QED
      BY <1>2, <1>4, <3>1
  <2> QED
    BY <1>2, <2>1
<1> QED
  BY <1>1, <1>3, <1>5, <1>6

(* What is handed over, element by element. *)
LEMMA HandedElements ==
  ASSUME NEW e
  PROVE  /\ \A p : p \in Handed(e) <=>
              \E n \in 1..Opened : \E k \in Seen(n) :
                 /\ p = <<n, k>> /\ crate[n].entries[k].public /\ crate[n].entries[k].accepted
                 /\ crate[n].entries[k].item = e
         /\ \A p : p \in Handed(e)' <=>
              \E n \in 1..Opened' : \E k \in Seen(n)' :
                 /\ p = <<n, k>> /\ crate'[n].entries[k].public /\ crate'[n].entries[k].accepted
                 /\ crate'[n].entries[k].item = e
BY DEF Handed

(* At the end of a module everything it held has been looked at. *)
LEMMA AllSeen ==
  ASSUME ListsOK, ModulesInv, EntriesInv, pc = "items", entries = <<>>
  PROVE  /\ Opened \in DOMAIN crate
         /\ \A n \in 1..(Opened - 1) : PublicRefused(crate, n) = {}
         /\ IsFiniteSet(PublicRefused(crate, Opened))
         /\ Len(errors) = Cardinality(PublicRefused(crate, Opened))
         /\ \A k \in PublicRefused(crate, Opened) :
              \E i \in DOMAIN errors : errors[i] = crate[Opened].entries[k].item
<1>1. PICK o \in Nat \ {0} : o = Opened
  BY DEF ModulesInv, EntriesInv
<1>2. crate \in Seq(Module) /\ modules \in Seq(Module)
  BY DEF ListsOK, Crate
<1>3. o \in DOMAIN crate
  BY <1>1, <1>2 DEF Opened
<1>4. PICK given \in Seq(Entry) : given = crate[o].entries
  BY <1>2, <1>3, EntriesOf
<1>5. PICK done \in Nat : done = Len(given)
  OBVIOUS
<1>6. Len(given) - Len(entries) = done
  BY <1>5
<1>7. /\ Len(errors) = Cardinality(RefusedUpTo(crate, o, done))
      /\ \A k \in RefusedUpTo(crate, o, done) : \E i \in DOMAIN errors : errors[i] = given[k].item
  BY <1>1, <1>4, <1>6 DEF EntriesInv
<1>8. PublicRefused(crate, o) \subseteq 1..done
  BY <1>4, <1>5 DEF PublicRefused
<1>9. RefusedUpTo(crate, o, done) = PublicRefused(crate, o)
  BY <1>8 DEF RefusedUpTo
<1>10. IsFiniteSet(PublicRefused(crate, o))
  BY <1>8, FinitePart
<1>11. \A n \in 1..(o - 1) : n \in 1..o /\ n < o
  BY <1>1
<1>12. \A n \in 1..(o - 1) : PublicRefused(crate, n) = {}
  BY <1>1, <1>11 DEF ModulesInv
<1> QED
  BY <1>1, <1>3, <1>4, <1>7, <1>9, <1>10, <1>12

(* The modules and entries that have been dealt with and those to come make up the   *)
(* crate.                                                                            *)
LEMMA Scanning == Spec => []ScanInv
<1>1. Init => ScanInv
  BY DEF Init, ScanInv
<1>2. ListsOK /\ ListsOK' /\ ScanInv /\ [Next]_vars => ScanInv'
  <2> SUFFICES ASSUME ListsOK, ListsOK', ScanInv, [Next]_vars, pc' \in {"module", "items"}
               PROVE  ModulesInv' /\ EntriesInv' /\ \A e \in Item : HandedOver(e)'
    BY DEF ScanInv
  <2> USE DEF compiling
  <2>1. CASE RunBuild
    <3>1. modules' = crate' /\ lang' = <<>> /\ entries' = <<>> /\ errors' = <<>> /\ pc' = "module"
      BY <2>1 DEF RunBuild
    <3>2. Len(crate') \in Nat
      BY DEF ListsOK, Crate
    <3>3. Opened' = 0
      BY <3>1, <3>2 DEF Opened
    <3>4. ASSUME NEW e \in Item PROVE HandedOver(e)'
      <4>1. Handed(e)' = {}
        BY <3>3, HandedElements
      <4>2. {k \in DOMAIN lang' : lang'[k] = e} = {}
        BY <3>1
      <4> QED
        BY <4>1, <4>2, FS_EmptySet DEF HandedOver
    <3> QED
      BY <3>1, <3>2, <3>3, <3>4 DEF ModulesInv, EntriesInv
  <2>2. CASE OpenModule
    <3>1. /\ pc = "module" /\ modules # <<>> /\ pc' = "items" /\ Head(modules).parses
          /\ entries' = Head(modules).entries /\ modules' = Tail(modules)
          /\ UNCHANGED <<crate, errors, lang>>
      BY <2>2 DEF OpenModule
    <3>2. ModulesInv /\ entries = <<>> /\ errors = <<>> /\ \A e \in Item : HandedOver(e)
      BY <3>1 DEF ScanInv, EntriesInv
    <3>3. PICK o \in Nat : o = Opened
      BY <3>2 DEF ModulesInv
    <3>4. crate \in Seq(Module) /\ modules \in Seq(Module)
      BY DEF ListsOK, Crate
    <3>5. /\ Len(crate) - Len(Tail(modules)) = o + 1
          /\ o + 1 \in DOMAIN crate /\ Head(modules) = crate[o + 1]
          /\ \A n \in DOMAIN Tail(modules) : Tail(modules)[n] = crate[(o + 1) + n]
      <4>1. o = Len(crate) - Len(modules) /\ \A n \in DOMAIN modules : modules[n] = crate[o + n]
        BY <3>2, <3>3 DEF Opened, ModulesInv
      <4>2. /\ modules # <<>> /\ Len(crate) - Len(modules) \in Nat
            /\ \A n \in DOMAIN modules : modules[n] = crate[(Len(crate) - Len(modules)) + n]
        BY <3>1, <3>3, <4>1
      <4>3. /\ Len(crate) - Len(Tail(modules)) = (Len(crate) - Len(modules)) + 1
            /\ (Len(crate) - Len(modules)) + 1 \in DOMAIN crate
            /\ Head(modules) = crate[(Len(crate) - Len(modules)) + 1]
            /\ \A n \in DOMAIN Tail(modules) :
                 Tail(modules)[n] = crate[((Len(crate) - Len(modules)) + 1) + n]
        BY ONLY <3>4, <4>2, Advance
      <4> QED
        BY <4>1, <4>3
    <3>6. Opened' = o + 1 /\ entries' = crate[o + 1].entries /\ entries' \in Seq(Entry)
      BY <3>1, <3>5 DEF Opened, ListsOK
    <3>7. ModulesInv'
      BY <3>1, <3>2, <3>3, <3>5, <3>6 DEF ModulesInv, PublicRefused
    <3>8. Len(entries') - Len(entries') = 0 /\ DOMAIN entries' = 1..Len(entries')
      BY <3>6
    <3>9. EntriesInv'
      <4>1. PublicRefused(crate, o + 1) \subseteq 1..Len(entries')
        BY <3>6, <3>8 DEF PublicRefused
      <4>2. RefusedUpTo(crate, o + 1, 0) = {}
        BY <4>1 DEF RefusedUpTo
      <4>3. Len(errors') = Cardinality(RefusedUpTo(crate, o + 1, 0))
        BY <3>1, <3>2, <4>2, FS_EmptySet
      <4>4. PICK z : z = Len(entries') - Len(entries')
        OBVIOUS
      <4>5. z = 0 /\ Opened' # 0 /\ pc' # "module"
        BY <3>1, <3>3, <3>6, <3>8, <4>4
      <4>6. /\ \A n \in DOMAIN entries' : entries'[n] = entries'[z + n]
            /\ RefusedUpTo(crate', Opened', z) = {}
            /\ Len(errors') = Cardinality(RefusedUpTo(crate', Opened', z))
        BY <3>1, <3>6, <3>8, <4>2, <4>3, <4>5
      <4>7. entries' = crate'[Opened'].entries
        BY <3>1, <3>6
      <4> QED
        <5> DEFINE given == crate[Opened].entries
                   done == Len(given) - Len(entries)
        <5>1. given' = entries' /\ done' = z
          BY <4>4, <4>7
        <5>2. /\ Opened' # 0 /\ done' \in Nat /\ RefusedUpTo(crate', Opened', done') = {}
              /\ \A n \in DOMAIN entries' : entries'[n] = given'[done' + n]
              /\ Len(errors') = Cardinality(RefusedUpTo(crate', Opened', done'))
          BY <4>5, <4>6, <5>1
        <5> QED
          BY <4>5, <5>2 DEF EntriesInv
    <3>10. ASSUME NEW e \in Item PROVE HandedOver(e)'
      <4>1. ASSUME NEW n \in 1..o PROVE Seen(n) = DOMAIN crate[n].entries /\ Seen(n)' = DOMAIN crate[n].entries
        <5>1. crate[n].entries \in Seq(Entry)
          <6>1. o + 1 \in DOMAIN crate /\ crate \in Seq(Module)
            BY <3>4, <3>5
          <6>2. o + 1 \in 1..Len(crate) /\ Len(crate) \in Nat /\ DOMAIN crate = 1..Len(crate)
            BY ONLY <6>1
          <6>3. n \in DOMAIN crate
            BY ONLY <6>2, o \in Nat, n \in 1..o
          <6> QED
            BY <3>4, <6>3, EntriesOf
        <5>2. Len(entries) = 0 /\ n < o + 1 /\ n \in Nat
          BY <3>2
        <5>3. Len(crate[n].entries) - Len(entries) = Len(crate[n].entries)
              /\ DOMAIN crate[n].entries = 1..Len(crate[n].entries)
          BY <5>1, <5>2
        <5>4. Seen(n) = DOMAIN crate[n].entries
          BY <5>3 DEF Seen
        <5>5. Seen(n)' = DOMAIN crate[n].entries
          BY <3>1, <3>6, <5>2 DEF Seen
        <5> QED
          BY <5>4, <5>5
      <4>2. Seen(o + 1)' = {}
        <5>1. Seen(o + 1)' = {k \in DOMAIN entries' : o + 1 < o + 1 \/ k <= Len(entries') - Len(entries')}
          BY <3>1, <3>6 DEF Seen
        <5> QED
          BY <3>8, <5>1
      <4>3. \A p : p \in Handed(e)' <=> p \in Handed(e)
        <5>1. \A n \in 1..(o + 1) : n \in 1..o \/ n = o + 1
          BY <3>3
        <5>2. 1..o \subseteq 1..(o + 1)
          BY <3>3
        <5> QED
          BY <3>1, <3>3, <3>6, <4>1, <4>2, <5>1, <5>2, HandedElements
      <4>4. Handed(e)' = Handed(e)
        BY <4>3
      <4> QED
        BY <3>1, <3>2, <4>4 DEF HandedOver
    <3> QED
      BY <3>7, <3>9, <3>10
  <2>3. CASE ParseItem
    <3>1. PICK x : x = Head(entries)
      OBVIOUS
    <3>2. /\ pc = "items" /\ pc' = "items" /\ entries # <<>> /\ entries' = Tail(entries)
          /\ lang' = (IF x.public /\ x.accepted THEN Append(lang, x.item) ELSE lang)
          /\ errors' = (IF x.public /\ ~x.accepted THEN Append(errors, x.item) ELSE errors)
          /\ UNCHANGED <<crate, modules>>
      BY <2>3, <3>1 DEF ParseItem
    <3>3. ModulesInv /\ EntriesInv /\ \A e \in Item : HandedOver(e)
      BY <3>2 DEF ScanInv
    <3>4. PICK o \in Nat \ {0} : o = Opened
      BY <3>2, <3>3 DEF ModulesInv, EntriesInv
    <3>5. Opened' = o
      BY <3>2, <3>4 DEF Opened
    <3>6. PICK given : given = crate[o].entries
      OBVIOUS
    <3>7. given \in Seq(Entry) /\ entries \in Seq(Entry) /\ o \in 1..Opened
      <4>1. crate \in Seq(Module) /\ modules \in Seq(Module)
        BY DEF ListsOK, Crate
      <4>2. o \in DOMAIN crate
        BY <3>4, <4>1 DEF Opened
      <4>3. given \in Seq(Entry)
        BY <3>6, <4>1, <4>2, EntriesOf
      <4> QED
        BY <3>4, <4>3 DEF ListsOK
    <3>8. PICK done \in Nat : done = Len(given) - Len(entries)
      BY <3>2, <3>3, <3>4, <3>6 DEF EntriesInv
    <3>9. /\ \A n \in DOMAIN entries : entries[n] = given[done + n]
          /\ Len(errors) = Cardinality(RefusedUpTo(crate, o, done))
          /\ \A k \in RefusedUpTo(crate, o, done) : \E i \in DOMAIN errors : errors[i] = given[k].item
      BY <3>2, <3>3, <3>4, <3>6, <3>8 DEF EntriesInv
    <3>10. PICK j \in Nat : j = done + 1
      OBVIOUS
    <3>11. /\ Len(given) - Len(entries') = j /\ j \in DOMAIN given /\ x = given[j]
           /\ \A n \in DOMAIN entries' : entries'[n] = given[j + n]
      <4>1. /\ entries # <<>> /\ Len(given) - Len(entries) \in Nat
            /\ \A n \in DOMAIN entries : entries[n] = given[(Len(given) - Len(entries)) + n]
        BY <3>2, <3>8, <3>9
      <4>2. /\ Len(given) - Len(Tail(entries)) = (Len(given) - Len(entries)) + 1
            /\ (Len(given) - Len(entries)) + 1 \in DOMAIN given
            /\ Head(entries) = given[(Len(given) - Len(entries)) + 1]
            /\ \A n \in DOMAIN Tail(entries) :
                 Tail(entries)[n] = given[((Len(given) - Len(entries)) + 1) + n]
        BY ONLY <3>7, <4>1, Advance
      <4> QED
        BY <3>1, <3>2, <3>8, <3>10, <4>2
    <3>12. x \in Entry /\ x.item \in Item
      <4>1. x \in Entry
        BY <3>7, <3>11
      <4> QED
        BY <4>1 DEF Entry
    <3>13. ModulesInv'
      BY <3>2, <3>3, <3>4, <3>5 DEF ModulesInv, PublicRefused
    <3>14. EntriesInv'
      <4> DEFINE Refused(d) == RefusedUpTo(crate, o, d)
      <4>1. PublicRefused(crate, o) \subseteq 1..Len(given) /\ Len(given) \in Nat
        BY <3>6, <3>7 DEF PublicRefused
      <4>2. IsFiniteSet(Refused(done))
        BY <4>1, FinitePart DEF RefusedUpTo
      <4>3. \A k \in Refused(j) : k \in Refused(done) \/ k = j
        BY <3>10, <4>1 DEF RefusedUpTo
      <4>4. Refused(done) \subseteq Refused(j) /\ j \notin Refused(done)
        BY <3>10, <4>1 DEF RefusedUpTo
      <4>5. j \in Refused(j) <=> x.public /\ ~x.accepted
        BY <3>6, <3>10, <3>11 DEF PublicRefused, RefusedUpTo
      <4>6. errors \in Seq(Item)
        BY DEF ListsOK
      <4>7. /\ Len(errors') = Cardinality(Refused(j))
            /\ \A k \in Refused(j) : \E i \in DOMAIN errors' : errors'[i] = given[k].item
        <5>1. CASE x.public /\ ~x.accepted
          <6>1. errors' = Append(errors, x.item)
            BY <3>2, <5>1
          <6>2. Refused(j) = Refused(done) \cup {j}
            BY <4>3, <4>4, <4>5, <5>1
          <6>3. Cardinality(Refused(j)) = Cardinality(Refused(done)) + 1
            BY <4>2, <4>4, <6>2, FS_AddElement
          <6>4. Len(errors') = Len(errors) + 1
            BY <4>6, <3>12, <6>1
          <6>5. ASSUME NEW k \in Refused(j) PROVE \E i \in DOMAIN errors' : errors'[i] = given[k].item
            <7>1. CASE k \in Refused(done)
              <8>1. PICK i \in DOMAIN errors : errors[i] = given[k].item
                BY <3>9, <7>1
              <8>2. i \in DOMAIN errors' /\ errors'[i] = errors[i]
                BY <4>6, <3>12, <6>1
              <8> QED
                BY <8>1, <8>2
            <7>2. CASE k = j
              <8>1. Len(errors) + 1 \in DOMAIN errors' /\ errors'[Len(errors) + 1] = x.item
                BY <4>6, <3>12, <6>1
              <8> QED
                BY <3>11, <7>2, <8>1
            <7> QED
              BY <4>3, <7>1, <7>2
          <6> QED
            BY <3>9, <6>3, <6>4, <6>5
        <5>2. CASE ~(x.public /\ ~x.accepted)
          <6>1. errors' = errors
            BY <3>2, <5>2
          <6>2. Refused(j) = Refused(done)
            BY <4>3, <4>4, <4>5, <5>2
          <6> QED
            BY <3>9, <6>1, <6>2
        <5> QED
          BY <5>1, <5>2
      <4>8. PICK z : z = Len(given) - Len(entries')
        OBVIOUS
      <4>9. /\ z = j /\ crate' = crate /\ Opened' = o /\ o # 0 /\ pc' # "module" /\ given = crate'[Opened'].entries
            /\ Len(errors') = Cardinality(RefusedUpTo(crate', Opened', z))
            /\ \A k \in RefusedUpTo(crate', Opened', z) : \E i \in DOMAIN errors' : errors'[i] = given[k].item
        BY <3>2, <3>5, <3>6, <3>11, <4>7, <4>8
      <4> HIDE DEF Refused
      <4> QED
        BY <3>11, <4>8, <4>9 DEF EntriesInv
    <3>15. ASSUME NEW e \in Item PROVE HandedOver(e)'
      <4>1. Seen(o) = {k \in DOMAIN given : k <= done} /\ Seen(o)' = {k \in DOMAIN given : k <= j}
        BY <3>2, <3>4, <3>5, <3>6, <3>8, <3>11 DEF Seen
      <4>2. \A n \in 1..o : n # o => Seen(n)' = Seen(n)
        BY <3>2, <3>4, <3>5 DEF Seen
      <4>3. DOMAIN given \subseteq Nat
        BY <3>7
      <4>4. Seen(o)' = Seen(o) \cup {j} /\ j \notin Seen(o)
        BY <3>10, <3>11, <4>1, <4>3
      <4>5. IsFiniteSet(Handed(e)) /\ Cardinality(Occurrences(lang, e)) = Cardinality(Handed(e))
        BY <3>3 DEF HandedOver, Occurrences
      <4>6. lang \in Seq(Item)
        BY DEF ListsOK
      <4>7. CASE x.public /\ x.accepted /\ x.item = e
        <5>1. /\ crate' = crate /\ crate[o].entries[j].public /\ crate[o].entries[j].accepted
              /\ crate[o].entries[j].item = e /\ o \in 1..o /\ Opened = o /\ Opened' = o
          BY <3>2, <3>4, <3>5, <3>6, <3>7, <3>11, <4>7
        <5>2. ASSUME NEW p, p \in Handed(e)' PROVE p \in Handed(e) \/ p = <<o, j>>
          BY <4>2, <4>4, <5>1, <5>2, HandedElements
        <5>3. ASSUME NEW p, p \in Handed(e) \/ p = <<o, j>> PROVE p \in Handed(e)'
          BY <4>2, <4>4, <5>1, <5>3, HandedElements
        <5>4. \A p : p \in Handed(e)' <=> p \in Handed(e) \/ p = <<o, j>>
          BY <5>2, <5>3
        <5>5. Handed(e)' = Handed(e) \cup {<<o, j>>}
          BY <5>4
        <5>6. <<o, j>> \notin Handed(e)
          BY <4>4, HandedElements
        <5>7. IsFiniteSet(Handed(e)') /\ Cardinality(Handed(e)') = Cardinality(Handed(e)) + 1
          BY <4>5, <5>5, <5>6, FS_AddElement
        <5>8. lang' = Append(lang, x.item)
          BY <3>2, <4>7
        <5>9. Cardinality(Occurrences(lang', e)) = Cardinality(Occurrences(lang, e)) + 1
          BY <3>12, <4>6, <4>7, <5>8, CountAppend
        <5> QED
          BY <4>5, <5>7, <5>9 DEF HandedOver, Occurrences
      <4>8. CASE ~(x.public /\ x.accepted /\ x.item = e)
        <5>1. \A p : p \in Handed(e)' <=> p \in Handed(e)
          <6>1. \A n \in 1..o : \A k \in Seen(n)' : k \in Seen(n) \/ (n = o /\ k = j)
            BY <4>2, <4>4
          <6>2. \A n \in 1..o : Seen(n) \subseteq Seen(n)'
            BY <4>2, <4>4
          <6>3. ~(crate[o].entries[j].public /\ crate[o].entries[j].accepted /\ crate[o].entries[j].item = e)
            BY <3>6, <3>11, <4>8
          <6> QED
            BY <3>2, <3>4, <3>5, <6>1, <6>2, <6>3, HandedElements
        <5>2. Handed(e)' = Handed(e)
          BY <5>1
        <5>3. lang' = lang \/ (lang' = Append(lang, x.item) /\ x.item # e)
          BY <3>2, <4>8
        <5>4. Cardinality(Occurrences(lang', e)) = Cardinality(Occurrences(lang, e))
          <6>1. CASE lang' = lang
            BY <6>1
          <6>2. CASE lang' = Append(lang, x.item) /\ x.item # e
            BY <3>12, <4>6, <6>2, CountAppend
          <6> QED
            BY <5>3, <6>1, <6>2
        <5> QED
          BY <4>5, <5>2, <5>4 DEF HandedOver, Occurrences
      <4> QED
        BY <4>7, <4>8
    <3> QED
      BY <3>13, <3>14, <3>15
  <2>4. CASE EndModule
    <3>1. /\ pc = "items" /\ entries = <<>> /\ errors = <<>> /\ pc' = "module"
          /\ UNCHANGED <<crate, modules, entries, errors, lang>>
      BY <2>4 DEF EndModule
    <3>2. ModulesInv /\ EntriesInv /\ \A e \in Item : HandedOver(e)
      BY <3>1 DEF ScanInv
    <3>3. PublicRefused(crate, Opened) = {}
      <4>1. IsFiniteSet(PublicRefused(crate, Opened)) /\ Cardinality(PublicRefused(crate, Opened)) = 0
        BY <3>1, <3>2, AllSeen
      <4> QED
        BY <4>1, FS_EmptySet
    <3>4. Opened' = Opened /\ \A n : Seen(n)' = Seen(n)
      BY <3>1 DEF Opened, Seen
    <3>5. ModulesInv'
      <4>1. \A n \in 1..Opened : n < Opened \/ n = Opened
        BY <3>2 DEF ModulesInv
      <4> QED
        BY <3>1, <3>2, <3>3, <3>4, <4>1 DEF ModulesInv, PublicRefused
    <3>6. \A e \in Item : HandedOver(e)'
      BY <3>1, <3>2, <3>4 DEF HandedOver, Handed
    <3> QED
      BY <3>1, <3>5, <3>6 DEF EntriesInv
  <2>5. CASE Finalise \/ CreateFile \/ WriteAll \/ SyncAll \/ Return \/ Crash
    BY <2>5 DEF Finalise, CreateFile, WriteAll, SyncAll, Return, Crash, Fail
  <2>6. CASE UNCHANGED vars
    <3>1. UNCHANGED <<crate, pc, modules, entries, errors, lang>>
      BY <2>6 DEF vars
    <3>2. ModulesInv /\ EntriesInv /\ \A e \in Item : HandedOver(e)
      BY <3>1 DEF ScanInv
    <3>3. Opened' = Opened /\ \A n : Seen(n)' = Seen(n)
      BY <3>1 DEF Opened, Seen
    <3>4. ModulesInv'
      BY <3>1, <3>2, <3>3 DEF ModulesInv, PublicRefused
    <3>5. EntriesInv'
      BY <3>1, <3>2, <3>3 DEF EntriesInv, RefusedUpTo, PublicRefused
    <3>6. \A e \in Item : HandedOver(e)'
      BY <3>1, <3>2, <3>3 DEF HandedOver, Handed
    <3> QED
      BY <3>4, <3>5, <3>6
  <2> QED
    BY <2>1, <2>2, <2>3, <2>4, <2>5, <2>6 DEF Next, Step
<1> QED
  BY <1>1, <1>2, Lists, PTL DEF Spec

(* The report of a module names each of its refused items, and no module before it   *)
(* had one.                                                                          *)
THEOREM ReportComplete == Spec => []ReportIsComplete
<1>1. Init => ReportIsComplete
  BY DEF Init, ReportIsComplete
<1>2. ListsOK /\ ScanInv /\ ReportIsComplete /\ [Next]_vars => ReportIsComplete'
  <2> SUFFICES ASSUME ListsOK, ScanInv, ReportIsComplete, [Next]_vars,
                      pc' = "errors", errors' # <<>>
               PROVE  ReportIsComplete'
    BY DEF ReportIsComplete
  <2> USE DEF compiling
  <2>1. CASE EndModule
    <3>1. /\ pc = "items" /\ entries = <<>> /\ UNCHANGED <<crate, errors>>
      BY <2>1 DEF EndModule
    <3>2. ModulesInv /\ EntriesInv
      BY <3>1 DEF ScanInv
    <3>3. /\ Opened \in DOMAIN crate
          /\ \A n \in 1..(Opened - 1) : PublicRefused(crate, n) = {}
          /\ Len(errors) = Cardinality(PublicRefused(crate, Opened))
          /\ \A k \in PublicRefused(crate, Opened) :
               \E i \in DOMAIN errors : errors[i] = crate[Opened].entries[k].item
      BY <3>1, <3>2, AllSeen
    <3> QED
      BY <3>1, <3>3 DEF ReportIsComplete
  <2>2. CASE Finalise
    <3>1. errors = <<>> /\ errors' = errors
      BY <2>2 DEF Finalise, ScanInv, EntriesInv
    <3> QED
      BY <3>1
  <2>3. CASE RunBuild \/ OpenModule \/ ParseItem \/ CreateFile \/ WriteAll \/ SyncAll
             \/ Return \/ Crash
    BY <2>3 DEF RunBuild, OpenModule, ParseItem, CreateFile, WriteAll, SyncAll, Return,
                Crash, Fail
  <2>4. CASE UNCHANGED vars
    <3>1. UNCHANGED <<crate, pc, errors>>
      BY <2>4 DEF vars
    <3>2. PICK m \in DOMAIN crate :
            /\ \A n \in 1..(m - 1) : PublicRefused(crate, n) = {}
            /\ Len(errors) = Cardinality(PublicRefused(crate, m))
            /\ \A k \in PublicRefused(crate, m) :
                 \E i \in DOMAIN errors : errors[i] = crate[m].entries[k].item
      BY <3>1 DEF ReportIsComplete
    <3> QED
      BY <3>1, <3>2 DEF ReportIsComplete
  <2> QED
    BY <2>1, <2>2, <2>3, <2>4 DEF Next, Step
<1> QED
  BY <1>1, <1>2, Lists, Scanning, PTL DEF Spec

(* What is written was made from the whole crate, each public item once. *)
THEOREM WholeCrates == Spec => []OnlyWholeCratesAreWritten
<1>1. Init => OnlyWholeCratesAreWritten
  BY DEF Init, OnlyWholeCratesAreWritten, Writing, FileOpen
<1>2. ListsOK /\ ScanInv /\ OnlyWholeCratesAreWritten /\ [Next]_vars
        => OnlyWholeCratesAreWritten'
  <2> SUFFICES ASSUME ListsOK, ScanInv, OnlyWholeCratesAreWritten, [Next]_vars,
                      pc' \in Writing \cup {"done"}
               PROVE  OnlyWholeCratesAreWritten'
    BY DEF OnlyWholeCratesAreWritten
  <2> USE DEF compiling, Writing, FileOpen
  <2>1. CASE Finalise
    <3>1. /\ pc = "module" /\ modules = <<>> /\ crate' = crate
          /\ outputs' = Rendered(lang)
      BY <2>1 DEF Finalise
    <3>2. ModulesInv /\ entries = <<>> /\ \A e \in Item : HandedOver(e)
      BY <3>1 DEF ScanInv, EntriesInv
    <3>3. crate \in Seq(Module) /\ lang \in Seq(Item)
      BY DEF ListsOK, Crate
    <3>4. Opened = Len(crate) /\ DOMAIN crate = 1..Opened
      BY <3>1, <3>3 DEF Opened
    <3>5. \A m \in DOMAIN crate : crate[m].parses /\ PublicRefused(crate, m) = {}
      BY <3>1, <3>2, <3>4 DEF ModulesInv
    <3>6. \A n \in DOMAIN crate : Seen(n) = DOMAIN crate[n].entries
      <4>1. ASSUME NEW n \in DOMAIN crate PROVE Seen(n) = DOMAIN crate[n].entries
        <5>1. PICK given \in Seq(Entry) : given = crate[n].entries
          BY <3>3, EntriesOf
        <5>2. \A k \in DOMAIN given : k <= Len(given) - Len(entries)
          BY <3>2
        <5> QED
          BY <5>1, <5>2 DEF Seen
      <4> QED
        BY <4>1
    <3>7. ASSUME NEW e \in Item
          PROVE  Handed(e) = UNION {{<<m, k>> : k \in {j \in DOMAIN crate[m].entries :
                                        crate[m].entries[j].public /\ crate[m].entries[j].item = e}}
                                    : m \in DOMAIN crate}
      <4>1. \A m \in DOMAIN crate : \A j \in DOMAIN crate[m].entries :
              crate[m].entries[j].public => crate[m].entries[j].accepted
        BY <3>5 DEF PublicRefused
      <4>2. \A m \in DOMAIN crate :
              {j \in Seen(m) : LET x == crate[m].entries[j]
                               IN  x.public /\ x.accepted /\ x.item = e}
                = {j \in DOMAIN crate[m].entries :
                     crate[m].entries[j].public /\ crate[m].entries[j].item = e}
        BY <3>6, <4>1
      <4> QED
        BY <3>4, <4>2 DEF Handed
    <3>8. \A f \in DOMAIN outputs' : outputs'[f] = lang
      BY <3>1 DEF Rendered
    <3>9. ASSUME NEW f \in DOMAIN outputs', NEW e \in Item
          PROVE  Cardinality({k \in DOMAIN outputs'[f] : outputs'[f][k] = e})
                   = Cardinality(UNION {{<<m, k>> : k \in {j \in DOMAIN crate[m].entries :
                                        crate[m].entries[j].public /\ crate[m].entries[j].item = e}}
                                    : m \in DOMAIN crate})
      BY <3>2, <3>7, <3>8 DEF HandedOver
    <3> QED
      BY <3>1, <3>5, <3>9 DEF OnlyWholeCratesAreWritten
  <2>2. CASE CreateFile \/ WriteAll \/ SyncAll \/ Return \/ UNCHANGED vars
    <3>1. pc \in Writing \cup {"done"} /\ UNCHANGED <<crate, outputs>>
      BY <2>2 DEF CreateFile, WriteAll, SyncAll, Return, Fail, vars
    <3> QED
      BY <3>1 DEF OnlyWholeCratesAreWritten, PublicRefused
  <2>3. CASE RunBuild \/ OpenModule \/ ParseItem \/ EndModule \/ Crash
    BY <2>3 DEF RunBuild, OpenModule, ParseItem, EndModule, Crash, Fail
  <2> QED
    BY <2>1, <2>2, <2>3 DEF Next, Step
<1> QED
  BY <1>1, <1>2, Lists, Scanning, PTL DEF Spec
=============================================================================
