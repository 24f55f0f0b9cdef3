----------------------- MODULE JniMultiCallback_proofs -----------------------
(* The generated multi-callback code, for any number of callbacks and threads *)
(* and any number of calls.                                                    *)
EXTENDS JniMultiCallback, TLAPS

(* Every step keeps the variables in their types. *)
THEOREM TypeCorrect == Spec => []TypeOK
<1>1. Init => TypeOK
  <2> SUFFICES ASSUME Init PROVE TypeOK
    OBVIOUS
  <2>1. /\ slots \in [Idx -> BOOLEAN] /\ got \in [Thread -> BOOLEAN]
        /\ calls \in [Idx -> Nat] /\ javaCalls \in [Idx -> Nat]
    BY DEF Init
  <2>2. /\ pc \in [Thread -> {"idle", "read", "write", "call", "check", "drop"}]
        /\ idx \in [Thread -> Idx]
    BY DEF Init
  <2>3. /\ freed \in BOOLEAN /\ corrupt \in BOOLEAN /\ overlapped \in BOOLEAN
        /\ repeated \in BOOLEAN /\ failed \in BOOLEAN
    BY Zenon DEF Init
  <2> QED
    BY <2>1, <2>2, <2>3 DEF TypeOK
<1>2. TypeOK /\ [Next]_vars => TypeOK'
  <2> SUFFICES ASSUME TypeOK, [Next]_vars PROVE TypeOK'
    OBVIOUS
  <2> USE DEF TypeOK, Goto, Touch
  <2>1. ASSUME NEW t \in Thread, NEW i \in Idx, Invoke(t, i) PROVE TypeOK'
    BY <2>1 DEF Invoke
  <2>2. ASSUME NEW t \in Thread, TakeRead(t) PROVE TypeOK'
    BY <2>2 DEF TakeRead
  <2>3. ASSUME NEW t \in Thread, TakeWrite(t) PROVE TypeOK'
    BY <2>3 DEF TakeWrite
  <2>4. ASSUME NEW t \in Thread, CallJava(t) PROVE TypeOK'
    BY <2>4 DEF CallJava
  <2>5. ASSUME NEW t \in Thread, JniUnwrapFails(t) PROVE TypeOK'
    BY <2>5 DEF JniUnwrapFails
  <2>6. ASSUME NEW t \in Thread, Check(t) PROVE TypeOK'
    BY <2>6 DEF Check
  <2>7. ASSUME NEW t \in Thread, Drop(t) PROVE TypeOK'
    BY <2>7 DEF Drop
  <2>8. ASSUME UNCHANGED vars PROVE TypeOK'
    BY <2>8 DEF vars
  <2> QED
    BY <2>1, <2>2, <2>3, <2>4, <2>5, <2>6, <2>7, <2>8 DEF Next, Step
<1> QED
  BY <1>1, <1>2, PTL DEF Spec

(* However often the library calls its callbacks, as long as they do not overlap *)
(* no Java object is called twice.                                               *)
THEOREM JavaAtMostOnce == Spec => []JavaCalledAtMostOnce
<1>1. Init => OnceInv
  BY DEF Init, OnceInv, Alone, Unused
<1>2. TypeOK /\ OnceInv /\ [Next]_vars => OnceInv'
  <2> SUFFICES ASSUME TypeOK, OnceInv, [Next]_vars, ~overlapped' PROVE OnceInv'
    BY DEF OnceInv
  <2>1. ~overlapped
    BY DEF Next, Step, Invoke, TakeRead, TakeWrite, CallJava, JniUnwrapFails,
           Check, Drop, vars, TypeOK
  <2> USE <2>1 DEF TypeOK, OnceInv, Alone, Unused, Goto, Touch
  <2>2. ASSUME NEW t \in Thread, NEW i \in Idx, Invoke(t, i) PROVE OnceInv'
    BY <2>2 DEF Invoke
  <2>3. ASSUME NEW t \in Thread, TakeRead(t) PROVE OnceInv'
    BY <2>3 DEF TakeRead
  <2>4. ASSUME NEW t \in Thread, TakeWrite(t) PROVE OnceInv'
    BY <2>4 DEF TakeWrite
  <2>5. ASSUME NEW t \in Thread, CallJava(t) PROVE OnceInv'
    BY <2>5 DEF CallJava
  <2>6. ASSUME NEW t \in Thread, JniUnwrapFails(t) PROVE OnceInv'
    BY <2>6 DEF JniUnwrapFails
  <2>7. ASSUME NEW t \in Thread, Check(t) PROVE OnceInv'
    BY <2>7 DEF Check
  <2>8. ASSUME NEW t \in Thread, Drop(t) PROVE OnceInv'
    BY <2>8 DEF Drop
  <2>9. ASSUME UNCHANGED vars PROVE OnceInv'
    BY <2>9 DEF vars
  <2> QED
    BY <2>2, <2>3, <2>4, <2>5, <2>6, <2>7, <2>8, <2>9 DEF Next, Step
<1>3. OnceInv => JavaCalledAtMostOnce
  BY DEF OnceInv, JavaCalledAtMostOnce
<1> QED
  BY <1>1, <1>2, <1>3, TypeCorrect, PTL DEF Spec

(* The slots, the program counters and the calls agree while nothing is misused. *)
THEOREM UseInvariant == Spec => []UseInv
<1>1. Init => UseInv
  BY IdxAssumption
     DEF Init, UseInv, Misused, Alone, SlotsTell, Running, Quiet, AnyLeft, Inside
<1>2. TypeOK /\ UseInv /\ [Next]_vars => UseInv'
  <2> SUFFICES ASSUME TypeOK, UseInv, [Next]_vars, ~Misused' PROVE UseInv'
    BY DEF UseInv
  <2>1. ~Misused
    BY DEF Misused, Next, Step, Invoke, TakeRead, TakeWrite, CallJava, JniUnwrapFails,
           Check, Drop, vars, TypeOK
  <2>2. ~corrupt /\ Alone /\ SlotsTell /\ Running /\ (Quiet => (freed <=> ~AnyLeft))
    BY <2>1 DEF UseInv
  <2> USE <2>1, <2>2 DEF TypeOK, Goto, Touch
  <2>3. ASSUME NEW t \in Thread, NEW i \in Idx, Invoke(t, i) PROVE UseInv'
    <3>1. Quiet /\ calls[i] = 0
      <4>1. ~overlapped' /\ ~repeated'
        BY DEF Misused
      <4>2. ~(\E u \in Thread : pc[u] # "idle") /\ ~(calls[i] > 0)
        BY <2>3, <4>1, Zenon DEF Invoke
      <4> QED
        BY <4>2 DEF Quiet, SlotsTell
    <3>2. slots[i] /\ ~freed
      BY <3>1 DEF SlotsTell, AnyLeft
    <3>3. ~corrupt' /\ Alone'
      BY <2>3, <3>1 DEF Invoke, Quiet, Alone
    <3>4. SlotsTell'
      BY <2>3, <3>1, <3>2 DEF Invoke, Quiet, SlotsTell, Inside
    <3>5. Running'
      BY <2>3, <3>1, <3>2 DEF Invoke, Quiet, Running, AnyLeft
    <3>6. ~Quiet'
      BY <2>3 DEF Invoke, Quiet
    <3> QED
      BY <3>3, <3>4, <3>5, <3>6 DEF UseInv
  <2>4. ASSUME NEW t \in Thread, TakeRead(t) PROVE UseInv'
    <3>1. ~freed /\ slots[idx[t]] /\ ~corrupt' /\ Alone' /\ ~Quiet'
      BY <2>4 DEF TakeRead, Running, SlotsTell, Inside, Alone, Quiet
    <3>2. SlotsTell'
      BY <2>4 DEF TakeRead, SlotsTell, Inside
    <3>3. Running'
      BY <2>4, <3>1 DEF TakeRead, Running, AnyLeft
    <3> QED
      BY <3>1, <3>2, <3>3 DEF UseInv
  <2>5. ASSUME NEW t \in Thread, TakeWrite(t) PROVE UseInv'
    <3>1. /\ ~freed /\ got[t] /\ pc'[t] = "call" /\ calls[idx[t]] = 1
          /\ ~corrupt' /\ Alone' /\ ~Quiet'
      BY <2>5 DEF TakeWrite, Running, Alone, Quiet
    <3>2. \A u \in Thread : u # t => pc[u] = "idle"
      BY <2>5 DEF TakeWrite, Alone
    <3>3. SlotsTell'
      BY <2>5, <3>1, <3>2 DEF TakeWrite, SlotsTell, Inside
    <3>4. Running'
      BY <2>5, <3>1, <3>2 DEF TakeWrite, Running, AnyLeft
    <3> QED
      BY <3>1, <3>3, <3>4 DEF UseInv
  <2>6. ASSUME NEW t \in Thread, CallJava(t) PROVE UseInv'
    <3>1. ~corrupt' /\ Alone' /\ ~Quiet' /\ calls[idx[t]] = 1 /\ ~slots[idx[t]]
      BY <2>6 DEF CallJava, Running, Alone, Quiet, SlotsTell, Inside
    <3>2. \A u \in Thread : u # t => pc[u] = "idle"
      BY <2>6 DEF CallJava, Alone
    <3>3. SlotsTell'
      BY <2>6, <3>1, <3>2 DEF CallJava, SlotsTell, Inside
    <3>4. Running'
      BY <2>6, <3>1 DEF CallJava, Running, AnyLeft
    <3> QED
      BY <3>1, <3>3, <3>4 DEF UseInv
  <2>7. ASSUME NEW t \in Thread, JniUnwrapFails(t) PROVE UseInv'
    BY <2>7 DEF JniUnwrapFails, Misused
  <2>8. ASSUME NEW t \in Thread, Check(t) PROVE UseInv'
    <3>1. ~freed /\ ~corrupt' /\ Alone'
      BY <2>8 DEF Check, Running, Alone
    <3>2. \A u \in Thread : u # t => pc[u] = "idle"
      BY <2>8 DEF Check, Alone
    <3>3. SlotsTell'
      BY <2>8, <3>2 DEF Check, SlotsTell, Inside
    <3>4. Running'
      BY <2>8, <3>2 DEF Check, Running, AnyLeft
    <3>5. (Quiet => (freed <=> ~AnyLeft))'
      BY <2>8, <3>1 DEF Check, Quiet, AnyLeft
    <3> QED
      BY <3>1, <3>3, <3>4, <3>5 DEF UseInv
  <2>9. ASSUME NEW t \in Thread, Drop(t) PROVE UseInv'
    <3>1. ~corrupt' /\ Alone' /\ ~AnyLeft
      BY <2>9 DEF Drop, Running, Alone
    <3>2. \A u \in Thread : u # t => pc[u] = "idle"
      BY <2>9 DEF Drop, Alone
    <3>3. SlotsTell'
      BY <2>9, <3>2 DEF Drop, SlotsTell, Inside
    <3>4. Running'
      BY <2>9, <3>2 DEF Drop, Running
    <3>5. (freed <=> ~AnyLeft)'
      BY <2>9, <3>1 DEF Drop, AnyLeft
    <3> QED
      BY <3>1, <3>3, <3>4, <3>5 DEF UseInv
  <2>10. ASSUME UNCHANGED vars PROVE UseInv'
    BY <2>10 DEF vars, UseInv, Misused, Alone, SlotsTell, Running, Quiet, AnyLeft, Inside
  <2> QED
    BY <2>3, <2>4, <2>5, <2>6, <2>7, <2>8, <2>9, <2>10 DEF Next, Step
<1> QED
  BY <1>1, <1>2, TypeCorrect, PTL DEF Spec

(* The box is not used after it was freed, nor freed twice, when the library     *)
(* calls each callback at most once and one at a time and nothing fails.         *)
THEOREM SafeUse == Spec => []SafeUnlessMisused
<1>1. UseInv => SafeUnlessMisused
  BY DEF UseInv, SafeUnlessMisused
<1> QED
  BY <1>1, UseInvariant, PTL

(* Under that use the box is freed exactly when every callback has been called.  *)
THEOREM FreedWhenAllCalled == Spec => []FreedIffAllCalled
<1>1. UseInv => FreedIffAllCalled
  BY DEF UseInv, FreedIffAllCalled, SlotsTell, Quiet, AnyLeft, Inside
<1> QED
  BY <1>1, UseInvariant, PTL
=============================================================================
