---------------------------- MODULE CsTask_proofs ----------------------------
(* The tasks of the C# run-time support, for any number of calls, handles and *)
(* threads.                                                                   *)
EXTENDS CsTask, FiniteSetTheorems, TLAPS

(* A handler that runs belongs to the one callback of its call. *)
HandlersInv ==
    /\ \A t \in Thread : hpc[t] # "idle" =>
          calls[who[t]] = 1 /\ first[who[t]] = answer[t]
    /\ \A t, u \in Thread :
          hpc[t] # "idle" /\ hpc[u] # "idle" /\ who[t] = who[u] => t = u
    /\ \A t \in Thread : hpc[t] \in {"free", "dispatch"} => target[t] = who[t]

(* How far the wrapper has come tells whether there is a task and a callback. *)
WrapperInv ==
    \A c \in Call :
        /\ calls[c] # 0 => pc[c] \in {"inside", "returned"}
        /\ pc[c] \in {"idle", "converted"} => tasks[c] = "none"
        /\ pc[c] \in {"prepared", "inside", "returned"} => tasks[c] # "none"

(* What is queued or done is the answer to the call it completes. *)
AnswersInv ==
    /\ \A p \in pool : p.target = p.call /\ p.answer = first[p.call] /\ calls[p.call] = 1
    /\ \A c \in Call : tasks[c] \in Answer => calls[c] = 1 /\ tasks[c] = first[c]

HandlesInv == \A c \in Call, s \in Slot : handles[s] = c <=> Owing(c) /\ userData[c] = s

(* An answer is in a handler, in the pool or in its task, and in one of them only. *)
PlaceInv ==
    /\ \A t \in Thread : hpc[t] # "idle" =>
          tasks[who[t]] = "pending" /\ \A p \in pool : p.call # who[t]
    /\ \A p \in pool : tasks[p.call] = "pending"
    /\ \A p, q \in pool : p.call = q.call => p = q
    /\ \A c \in Call : calls[c] = 0 => first[c] = "none"
    /\ ~crashed => \A c \in Call : calls[c] # 0 =>
          \/ tasks[c] \in Answer
          \/ \E t \in Thread : hpc[t] # "idle" /\ who[t] = c
          \/ \E p \in pool : p.call = c

OnceInv == ~corrupt /\ HandlersInv /\ WrapperInv /\ AnswersInv /\ HandlesInv /\ PlaceInv

(* A handler that goes on has a target: on a freed handle it would have stopped. *)
TargetInv == ~corrupt => \A t \in Thread : hpc[t] \in {"free", "dispatch"} => target[t] # None

LEMMA QueuedType ==
  ASSUME TypeOK, TargetInv, NEW t \in Thread, CompleteTask(t)
  PROVE  Queued(t) \in Completion
  BY DEF TypeOK, TargetInv, CompleteTask, Alive, Queued, Completion

LEMMA Types == Spec => [](TypeOK /\ TargetInv)
<1>1. Init => TypeOK /\ TargetInv
  <2>1. ASSUME Init PROVE TypeOK
    <3>1. /\ pc \in [Call -> {"idle", "converted", "prepared", "inside", "returned", "threw"}]
          /\ hpc \in [Thread -> {"idle", "target", "free", "dispatch"}]
      BY <2>1 DEF Init
    <3>2. handles \in [Slot -> Call \cup {None}] /\ target \in [Thread -> Call \cup {None}]
      BY <2>1 DEF Init
    <3>3. /\ tasks \in [Call -> Answer \cup {"none", "pending"}]
          /\ answer \in [Thread -> Answer] /\ first \in [Call -> Answer \cup {"none"}]
      BY <2>1 DEF Init, Answer
    <3> QED
      BY <2>1, <3>1, <3>2, <3>3 DEF Init, TypeOK
  <2>2. Init => TargetInv
    BY DEF Init, TargetInv
  <2> QED
    BY <2>1, <2>2
<1>2. TypeOK /\ TargetInv /\ [Next]_vars => (TypeOK /\ TargetInv)'
  <2> SUFFICES ASSUME TypeOK, TargetInv, [Next]_vars PROVE (TypeOK /\ TargetInv)'
    OBVIOUS
  <2> USE DEF TypeOK, TargetInv, handlers, history, Answer, Alive
  <2>1. ASSUME NEW c \in Call, ToNative(c) PROVE (TypeOK /\ TargetInv)'
    BY <2>1 DEF ToNative
  <2>2. ASSUME NEW c \in Call, PrepareTask(c) PROVE (TypeOK /\ TargetInv)'
    BY <2>2 DEF PrepareTask
  <2>3. ASSUME NEW c \in Call, Extern(c) PROVE (TypeOK /\ TargetInv)'
    BY <2>3 DEF Extern
  <2>4. ASSUME NEW c \in Call, Return(c) PROVE (TypeOK /\ TargetInv)'
    BY <2>4 DEF Return
  <2>5. ASSUME NEW t \in Thread, NEW c \in Call, Invoke(t, c) PROVE (TypeOK /\ TargetInv)'
    BY <2>5 DEF Invoke
  <2>6. ASSUME NEW t \in Thread, ReadTarget(t) PROVE (TypeOK /\ TargetInv)'
    BY <2>6 DEF ReadTarget, UserData
  <2>7. ASSUME NEW t \in Thread, FreeHandle(t) PROVE (TypeOK /\ TargetInv)'
    BY <2>7 DEF FreeHandle, UserData
  <2>8. ASSUME NEW t \in Thread, CompleteTask(t) PROVE (TypeOK /\ TargetInv)'
    BY <2>8, QueuedType DEF CompleteTask
  <2>9. ASSUME NEW p \in pool, SetTask(p) PROVE (TypeOK /\ TargetInv)'
    BY <2>9 DEF SetTask, Completion
  <2>10. CASE UNCHANGED vars
    BY <2>10 DEF vars
  <2> QED
    BY <2>1, <2>2, <2>3, <2>4, <2>5, <2>6, <2>7, <2>8, <2>9, <2>10
       DEF Next, Wrapper, Handler, Pool
<1> QED
  BY <1>1, <1>2, PTL DEF Spec

(* The model keeps its types: handles refer to calls or to nothing, and every     *)
(* completion in the pool names a task that PrepareTask has made.                 *)
THEOREM TypeCorrect == Spec => []TypeOK
  BY Types, PTL
(* Before the first call nothing is owed, queued or done. *)
LEMMA OnceInit == Init => OnceInv
<1> SUFFICES ASSUME Init PROVE OnceInv
  OBVIOUS
<1>1. ~corrupt /\ HandlersInv /\ WrapperInv
  BY DEF Init, HandlersInv, WrapperInv
<1>2. AnswersInv
  BY DEF Init, AnswersInv, Answer
<1>3. HandlesInv
  BY NoneAssumption DEF Init, HandlesInv, Owing
<1>4. PlaceInv
  BY DEF Init, PlaceInv
<1> QED
  BY <1>1, <1>2, <1>3, <1>4 DEF OnceInv

(* A call that has a handler before the handle is freed still has its handle. *)
LEMMA HandleThere ==
  ASSUME TypeOK, OnceInv, NEW t \in Thread, hpc[t] \in {"target", "free"}
  PROVE  handles[userData[who[t]]] = who[t]
<1>1. who[t] \in Call /\ userData[who[t]] \in Slot
  BY DEF TypeOK
<1>2. calls[who[t]] = 1
  BY DEF OnceInv, HandlersInv
<1>3. Owing(who[t])
  BY <1>1, <1>2 DEF OnceInv, WrapperInv, Owing
<1> QED
  BY <1>1, <1>3 DEF OnceInv, HandlesInv

(* The wrapper's steps. *)
LEMMA OnceWrapper ==
  ASSUME TypeOK, OnceInv, NEW c \in Call, Wrapper(c)
  PROVE  OnceInv'
<1> USE DEF TypeOK, OnceInv, handlers, history
<1>1. CASE ToNative(c)
  <2>1. ~corrupt' /\ HandlersInv' /\ AnswersInv'
    BY <1>1 DEF ToNative, HandlersInv, AnswersInv
  <2>2. WrapperInv'
    BY <1>1 DEF ToNative, WrapperInv
  <2>3. \A d \in Call : Owing(d)' <=> Owing(d)
    BY <1>1 DEF ToNative, Owing, WrapperInv
  <2>4. PlaceInv'
    BY <1>1 DEF ToNative, PlaceInv
  <2> QED
    BY <1>1, <2>1, <2>2, <2>3, <2>4 DEF ToNative, HandlesInv
<1>2. CASE PrepareTask(c)
  <2>1. ~corrupt' /\ HandlersInv'
    BY <1>2 DEF PrepareTask, HandlersInv
  <2>2. WrapperInv'
    BY <1>2 DEF PrepareTask, WrapperInv
  <2>3. AnswersInv'
    BY <1>2 DEF PrepareTask, AnswersInv, Answer
  <2>4. PICK s \in Slot : /\ handles[s] = None
                          /\ handles' = [handles EXCEPT ![s] = c]
                          /\ userData' = [userData EXCEPT ![c] = s]
    BY <1>2 DEF PrepareTask
  <2>5. \A d \in Call \ {c} : Owing(d)' <=> Owing(d)
    BY <1>2 DEF PrepareTask, Owing
  <2>6. ~Owing(c) /\ Owing(c)'
    BY <1>2 DEF PrepareTask, Owing, WrapperInv
  <2>7. ASSUME NEW d \in Call, NEW r \in Slot
        PROVE  handles'[r] = d <=> Owing(d)' /\ userData'[d] = r
    BY <2>4, <2>5, <2>6, NoneAssumption DEF HandlesInv
  <2>8. PlaceInv'
    <3>1. tasks[c] = "none"
      BY <1>2 DEF PrepareTask, WrapperInv
    <3> QED
      BY <1>2, <3>1 DEF PrepareTask, PlaceInv, Answer
  <2> QED
    BY <2>1, <2>2, <2>3, <2>7, <2>8 DEF HandlesInv
<1>3. CASE Extern(c)
  <2>1. ~corrupt' /\ HandlersInv' /\ AnswersInv'
    BY <1>3 DEF Extern, HandlersInv, AnswersInv
  <2>2. WrapperInv'
    BY <1>3 DEF Extern, WrapperInv
  <2>3. \A d \in Call : Owing(d)' <=> Owing(d)
    BY <1>3 DEF Extern, Owing, WrapperInv
  <2>4. PlaceInv'
    BY <1>3 DEF Extern, PlaceInv
  <2> QED
    BY <1>3, <2>1, <2>2, <2>3, <2>4 DEF Extern, HandlesInv
<1>4. CASE Return(c)
  <2>1. ~corrupt' /\ HandlersInv' /\ AnswersInv'
    BY <1>4 DEF Return, HandlersInv, AnswersInv
  <2>2. WrapperInv'
    BY <1>4 DEF Return, WrapperInv
  <2>3. \A d \in Call : Owing(d)' <=> Owing(d)
    BY <1>4 DEF Return, Owing
  <2>4. PlaceInv'
    BY <1>4 DEF Return, PlaceInv
  <2> QED
    BY <1>4, <2>1, <2>2, <2>3, <2>4 DEF Return, HandlesInv
<1> QED
  BY <1>1, <1>2, <1>3, <1>4 DEF Wrapper

(* A callback that is not repeated is the first. *)
LEMMA OnceInvoke ==
  ASSUME TypeOK, OnceInv, CalledOnce', NEW t \in Thread, NEW c \in Call, Invoke(t, c)
  PROVE  OnceInv'
<1> USE DEF TypeOK, OnceInv
<1>1. calls[c] = 0 /\ calls'[c] = 1
  BY DEF Invoke, CalledOnce
<1>2. first' = [first EXCEPT ![c] = answer'[t]] /\ answer'[t] \in Answer
  BY <1>1 DEF Invoke
<1>3. \A u \in Thread : hpc[u] # "idle" => who[u] # c /\ u # t
  BY <1>1 DEF Invoke, HandlersInv
<1>4. HandlersInv'
  BY <1>1, <1>2, <1>3 DEF Invoke, HandlersInv
<1>5. ~corrupt' /\ WrapperInv'
  BY DEF Invoke, WrapperInv
<1>6. AnswersInv'
  BY <1>1, <1>2 DEF Invoke, AnswersInv, Completion
<1>7. \A d \in Call : Owing(d)' <=> Owing(d)
  <2>1. Owing(c)' <=> Owing(c)
    BY <1>1 DEF Invoke, Owing
  <2>2. ASSUME NEW d \in Call \ {c} PROVE Owing(d)' <=> Owing(d)
    BY <1>3 DEF Invoke, Owing
  <2> QED
    BY <2>1, <2>2
<1>8. HandlesInv'
  BY <1>7 DEF Invoke, HandlesInv
<1>9. PlaceInv'
  <2>1. tasks[c] = "pending"
    BY <1>1 DEF Invoke, WrapperInv, AnswersInv, Answer
  <2>2. \A p \in pool : p.call # c
    BY <1>1 DEF AnswersInv
  <2> QED
    BY <1>1, <1>3, <2>1, <2>2 DEF Invoke, PlaceInv
<1> QED
  BY <1>4, <1>5, <1>6, <1>8, <1>9
(* The handler's steps. *)
LEMMA OnceHandler ==
  ASSUME TypeOK, OnceInv, NEW t \in Thread, Handler(t)
  PROVE  OnceInv'
<1> USE DEF TypeOK, OnceInv, history
<1>1. CASE ReadTarget(t)
  <2>1. handles[userData[who[t]]] = who[t] /\ who[t] \in Call
    BY <1>1, HandleThere DEF ReadTarget
  <2>2. ~corrupt' /\ target' = [target EXCEPT ![t] = who[t]]
    BY <1>1, <2>1, NoneAssumption DEF ReadTarget, UserData
  <2>3. HandlersInv'
    BY <1>1, <2>2 DEF ReadTarget, HandlersInv
  <2>4. WrapperInv' /\ AnswersInv'
    BY <1>1 DEF ReadTarget, WrapperInv, AnswersInv
  <2>5. \A d \in Call : Owing(d)' <=> Owing(d)
    BY <1>1 DEF ReadTarget, Owing
  <2>6. PlaceInv'
    BY <1>1 DEF ReadTarget, PlaceInv
  <2> QED
    BY <1>1, <2>2, <2>3, <2>4, <2>5, <2>6 DEF ReadTarget, HandlesInv
<1>2. CASE FreeHandle(t)
  <2>1. handles[userData[who[t]]] = who[t] /\ who[t] \in Call
    BY <1>2, HandleThere DEF FreeHandle
  <2>2. ~corrupt' /\ handles' = [handles EXCEPT ![userData[who[t]]] = None]
    BY <1>2, <2>1, NoneAssumption DEF FreeHandle, UserData
  <2>3. HandlersInv'
    BY <1>2 DEF FreeHandle, HandlersInv
  <2>4. WrapperInv' /\ AnswersInv'
    BY <1>2 DEF FreeHandle, WrapperInv, AnswersInv
  <2>5. \A d \in Call : d = who[t] => ~Owing(d)'
    BY <1>2, <2>1 DEF FreeHandle, Owing, HandlersInv
  <2>6. \A d \in Call \ {who[t]} : Owing(d)' <=> Owing(d)
    BY <1>2 DEF FreeHandle, Owing
  <2>7. userData' = userData
    BY <1>2 DEF FreeHandle
  <2>8. ASSUME NEW d \in Call, NEW r \in Slot
        PROVE  handles'[r] = d <=> Owing(d)' /\ userData'[d] = r
    <3>1. CASE d = who[t]
      BY <2>1, <2>2, <2>5, <3>1, NoneAssumption DEF HandlesInv
    <3>2. CASE d # who[t]
      BY <2>1, <2>2, <2>6, <2>7, <3>2, NoneAssumption DEF HandlesInv
    <3> QED
      BY <3>1, <3>2
  <2>9. PlaceInv'
    BY <1>2 DEF FreeHandle, PlaceInv
  <2> QED
    BY <2>2, <2>3, <2>4, <2>8, <2>9 DEF HandlesInv
<1>3. CASE CompleteTask(t)
  <2>1. ~corrupt' /\ HandlersInv' /\ WrapperInv'
    BY <1>3 DEF CompleteTask, HandlersInv, WrapperInv
  <2>2. AnswersInv'
    BY <1>3 DEF CompleteTask, AnswersInv, Queued, HandlersInv
  <2>3. \A d \in Call : Owing(d)' <=> Owing(d)
    BY <1>3 DEF CompleteTask, Owing
  <2>4. PlaceInv'
    <3>1. CASE pool' = pool \cup {Queued(t)} /\ UNCHANGED crashed
      <4>1. \A u \in Thread : hpc'[u] # "idle" => hpc[u] # "idle" /\ who[u] # who[t]
        BY <1>3 DEF CompleteTask, HandlersInv
      <4>2. Queued(t).call = who[t]
        BY DEF Queued
      <4> QED
        BY <1>3, <3>1, <4>1, <4>2 DEF CompleteTask, PlaceInv
    <3>2. CASE crashed' = TRUE /\ UNCHANGED pool
      BY <1>3, <3>2 DEF CompleteTask, PlaceInv
    <3> QED
      BY <1>3, <3>1, <3>2 DEF CompleteTask
  <2> QED
    BY <1>3, <2>1, <2>2, <2>3, <2>4 DEF CompleteTask, HandlesInv
<1> QED
  BY <1>1, <1>2, <1>3 DEF Handler

(* A step of the pool. *)
LEMMA OncePool ==
  ASSUME TypeOK, OnceInv, NEW p \in pool, SetTask(p)
  PROVE  OnceInv'
<1> USE DEF TypeOK, OnceInv, history, handlers
<1>1. p.target \in Call /\ p.answer = first[p.target] /\ calls[p.target] = 1 /\ p.answer \in Answer
  BY DEF AnswersInv, Completion
<1>2. ~corrupt' /\ HandlersInv' /\ WrapperInv'
  BY <1>1 DEF SetTask, HandlersInv, WrapperInv, Answer
<1>3. AnswersInv'
  BY <1>1 DEF SetTask, AnswersInv, Completion
<1>4. \A d \in Call : Owing(d)' <=> Owing(d)
  BY <1>1 DEF SetTask, Owing, Answer
<1>5. PlaceInv'
  <2>1. p.target = p.call /\ tasks[p.call] = "pending" /\ \A q \in pool' : q.call # p.call
    BY DEF AnswersInv, PlaceInv, SetTask
  <2>2. tasks' = [tasks EXCEPT ![p.call] = p.answer]
    BY <2>1 DEF SetTask
  <2>3. \A t \in Thread : hpc[t] # "idle" => who[t] # p.call
    BY DEF PlaceInv
  <2> QED
    BY <1>1, <2>1, <2>2, <2>3 DEF SetTask, PlaceInv
<1> QED
  BY <1>2, <1>3, <1>4, <1>5 DEF SetTask, HandlesInv

(* Calls are only counted up: once the library repeats itself, all bets are off. *)
LEMMA CalledOnceBefore ==
  ASSUME TypeOK, [Next]_vars, CalledOnce'
  PROVE  CalledOnce
<1>1. \A c \in Call : calls[c] \in Nat /\ calls'[c] \in {calls[c], calls[c] + 1}
  BY DEF TypeOK, Next, Wrapper, Handler, Pool, ToNative, PrepareTask, Extern, Return, Invoke,
         ReadTarget, FreeHandle, CompleteTask, SetTask, vars, history
<1>2. SUFFICES ASSUME NEW c \in Call PROVE calls[c] <= 1
  BY DEF CalledOnce
<1>3. calls'[c] <= 1
  BY DEF CalledOnce
<1> QED
  BY <1>1, <1>3

(* The inductive invariant of a library that calls back at most once per call: a    *)
(* handle is allocated exactly while its call is owed an answer, and a handler, the *)
(* pool or the task has the answer that call was given.                             *)
THEOREM OnceInvariant == Spec => [](CalledOnce => OnceInv)
<1>1. Init => (CalledOnce => OnceInv)
  BY OnceInit
<1>2. TypeOK /\ (CalledOnce => OnceInv) /\ [Next]_vars => (CalledOnce => OnceInv)'
  <2> SUFFICES ASSUME TypeOK, CalledOnce => OnceInv, [Next]_vars, CalledOnce' PROVE OnceInv'
    OBVIOUS
  <2>1. OnceInv
    BY CalledOnceBefore
  <2>2. CASE UNCHANGED vars
    BY <2>1, <2>2 DEF vars, OnceInv, HandlersInv, WrapperInv, AnswersInv, HandlesInv, Owing, PlaceInv,
                      handlers, history
  <2>3. CASE Next
    BY <2>1, <2>3, OnceWrapper, OnceInvoke, OnceHandler, OncePool DEF Next, Pool
  <2> QED
    BY <2>2, <2>3
<1> QED
  BY <1>1, <1>2, TypeCorrect, PTL DEF Spec

(* A library that calls back at most once per call never makes the support use a    *)
(* freed handle, and no task is given the answer to another call, for any number of  *)
(* concurrent calls and however handles are allocated again.                         *)
THEOREM OwnAnswers == Spec => []OwnAnswer
<1>1. (CalledOnce => OnceInv) => OwnAnswer
  BY DEF OnceInv, AnswersInv, OwnAnswer
<1> QED
  BY <1>1, OnceInvariant, PTL

(* Under the same use a handle is allocated exactly from PrepareTask until the       *)
(* handler has read it; only an extern function that throws leaves one for good.     *)
THEOREM HandlesAccounted == Spec => []HandleHeldUntilAnswered
<1>1. (CalledOnce => OnceInv) => HandleHeldUntilAnswered
  BY DEF OnceInv, HandlesInv, HandleHeldUntilAnswered
<1> QED
  BY <1>1, OnceInvariant, PTL
-----------------------------------------------------------------------------
(* Until it is answered, a call whose extern function runs has a pending task. *)
LEMMA PendingUntilAnswered ==
  ASSUME TypeOK, OnceInv, NEW c \in Call, pc[c] \in {"prepared", "inside", "returned"}, calls[c] = 0
  PROVE  tasks[c] = "pending"
  BY DEF TypeOK, OnceInv, WrapperInv, AnswersInv, Answer

LEMMA PromiseStep ==
  ASSUME TypeOK, OnceInv, TypeOK', OnceInv', CalledOnce, CalledOnce', [Next]_vars
  PROVE  P!Next \/ UNCHANGED P!vars
<1> USE DEF P!vars, P!Next, P!Bound, Alive, history, handlers
<1>1. ASSUME NEW c \in Call, PrepareTask(c) PROVE P!Ask(c)
  BY <1>1 DEF PrepareTask, P!Ask, OnceInv, WrapperInv
<1>2. ASSUME NEW t \in Thread, NEW c \in Call, Invoke(t, c) PROVE P!Give(c)
  <2>1. calls[c] = 0
    BY <1>2 DEF Invoke, CalledOnce, TypeOK
  <2>2. tasks[c] = "pending"
    BY <1>2, <2>1, PendingUntilAnswered DEF Invoke
  <2>3. first[c] = "none"
    BY <2>1 DEF OnceInv, PlaceInv
  <2> QED
    BY <1>2, <2>1, <2>2, <2>3 DEF Invoke, P!Give
<1>3. ASSUME NEW p \in pool, SetTask(p) PROVE P!Keep(p.target) \/ UNCHANGED P!vars
  <2>1. /\ p.target \in Call /\ p.answer = first[p.target] /\ p.answer \in Answer
    BY DEF OnceInv, AnswersInv, TypeOK, Completion
  <2>2. CASE tasks[p.target] = "pending"
    <3>1. tasks' = [tasks EXCEPT ![p.target] = first[p.target]] /\ first[p.target] # "none"
      BY <1>3, <2>1, <2>2 DEF SetTask, Answer
    <3> QED
      BY <1>3, <2>2, <3>1 DEF SetTask, P!Keep
  <2>3. CASE tasks[p.target] # "pending"
    <3>1. tasks' = tasks
      BY <1>3, <2>1, <2>3 DEF SetTask, TypeOK
    <3> QED
      BY <1>3, <3>1 DEF SetTask
  <2> QED
    BY <2>2, <2>3
<1>4. ASSUME NEW t \in Thread, CompleteTask(t) PROVE P!Die \/ UNCHANGED P!vars
  <2>1. first[who[t]] # "none" /\ tasks[who[t]] = "pending" /\ who[t] \in Call
    BY <1>4 DEF CompleteTask, OnceInv, HandlersInv, PlaceInv, TypeOK, Answer
  <2> QED
    BY <1>4, <2>1 DEF CompleteTask, P!Die
<1>5. ASSUME NEW c \in Call, ToNative(c) \/ Extern(c) \/ Return(c) PROVE UNCHANGED P!vars
  BY <1>5 DEF ToNative, Extern, Return
<1>6. ASSUME NEW t \in Thread, ReadTarget(t) \/ FreeHandle(t) PROVE UNCHANGED P!vars
  BY <1>6 DEF ReadTarget, FreeHandle
<1>7. CASE UNCHANGED vars
  BY <1>7 DEF vars
<1> QED
  BY <1>1, <1>2, <1>3, <1>4, <1>5, <1>6, <1>7 DEF Next, Wrapper, Handler, Pool, OnceInv, AnswersInv, TypeOK, Completion

LEMMA PromiseInit == Init => P!Init
  BY DEF Init, P!Init, CalledOnce

(* The emitted wrapper, its handler and the run-time support implement the promise    *)
(* of a task, for any number of calls, handles and threads: each task is completed at *)
(* most once, after its call has been answered and with that answer.                  *)
THEOREM PromiseKept == Spec => KeepsPromise
<1>1. /\ TypeOK /\ TypeOK' /\ (CalledOnce => OnceInv) /\ (CalledOnce => OnceInv)'
      /\ [Next]_vars
      => [P!Next]_(P!vars)
  <2> SUFFICES ASSUME TypeOK, TypeOK', CalledOnce => OnceInv, (CalledOnce => OnceInv)',
                      [Next]_vars
               PROVE  P!Next \/ UNCHANGED P!vars
    OBVIOUS
  <2>1. CASE CalledOnce'
    <3>1. CalledOnce
      BY <2>1, CalledOnceBefore
    <3> QED
      BY <2>1, <3>1, PromiseStep
  <2>2. CASE ~CalledOnce'
    BY <2>2 DEF P!Next, P!Misuse
  <2> QED
    BY <2>1, <2>2
<1> QED
  BY <1>1, PromiseInit, TypeCorrect, OnceInvariant, PTL DEF Spec, KeepsPromise, P!Spec

(* No answer is lost and none is delivered twice: of each call the library has answered *)
(* there is one handler that runs, one completion in the pool, or one answered task.    *)
THEOREM NoAnswerLost == Spec => []AnswersConserved
<1>1. TypeOK /\ (CalledOnce => OnceInv) => AnswersConserved
  <2> SUFFICES ASSUME TypeOK, OnceInv, CalledOnce, ~crashed, NEW c \in Call
               PROVE  Cardinality(Stages(c)) = calls[c]
    BY DEF AnswersConserved
  <2> DEFINE H == {<<"handler", t>> : t \in {u \in Thread : hpc[u] # "idle" /\ who[u] = c}}
             Q == {<<"pool", p>> : p \in {q \in pool : q.target = c}}
             T == {<<"task", c>> : x \in {y \in {c} : tasks[y] \in Answer}}
  <2>1. Stages(c) = H \cup Q \cup T
    BY DEF Stages
  <2>2. calls[c] \in {0, 1}
    BY DEF TypeOK, CalledOnce
  <2>3. \A p \in pool : p.target = p.call
    BY DEF OnceInv, AnswersInv
  <2>4. CASE calls[c] = 0
    <3>1. H = {} /\ Q = {} /\ T = {}
      BY <2>4 DEF OnceInv, HandlersInv, AnswersInv
    <3> QED
      BY <2>1, <2>4, <3>1, FS_EmptySet
  <2>5. CASE calls[c] = 1
    <3>1. CASE tasks[c] \in Answer
      <4>1. H = {} /\ Q = {} /\ T = {<<"task", c>>}
        BY <2>3, <3>1 DEF OnceInv, PlaceInv, Answer
      <4> QED
        BY <2>1, <2>5, <4>1, FS_Singleton
    <3>2. ASSUME NEW t \in Thread, hpc[t] # "idle", who[t] = c PROVE Stages(c) = {<<"handler", t>>}
      <4>1. H = {<<"handler", t>>}
        BY <3>2 DEF OnceInv, HandlersInv
      <4>2. Q = {} /\ T = {}
        BY <2>3, <3>2 DEF OnceInv, PlaceInv, Answer
      <4> QED
        BY <2>1, <4>1, <4>2
    <3>3. ASSUME NEW p \in pool, p.call = c PROVE Stages(c) = {<<"pool", p>>}
      <4>1. Q = {<<"pool", p>>}
        BY <2>3, <3>3 DEF OnceInv, PlaceInv
      <4>2. H = {} /\ T = {}
        BY <3>3 DEF OnceInv, PlaceInv, Answer
      <4> QED
        BY <2>1, <4>1, <4>2
    <3>4. \/ tasks[c] \in Answer
          \/ \E t \in Thread : hpc[t] # "idle" /\ who[t] = c
          \/ \E p \in pool : p.call = c
      BY <2>5 DEF OnceInv, PlaceInv
    <3>5. \A x : Cardinality({x}) = 1
      BY FS_Singleton
    <3>6. CASE \E t \in Thread : hpc[t] # "idle" /\ who[t] = c
      BY <2>5, <3>2, <3>5, <3>6
    <3>7. CASE \E p \in pool : p.call = c
      BY <2>5, <3>3, <3>5, <3>7
    <3> QED
      BY <3>1, <3>4, <3>6, <3>7
  <2> QED
    BY <2>2, <2>4, <2>5
<1> QED
  BY <1>1, TypeCorrect, OnceInvariant, PTL
=============================================================================
