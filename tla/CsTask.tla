-------------------------------- MODULE CsTask --------------------------------
(***************************************************************************)
(* The C# wrapper that emit_wrapper_function emits for a native function     *)
(* with a callback, the handler of emit_callback_wrapper, and the run-time   *)
(* support of src/resources/csharp/Utils.cs.template that joins them: a      *)
(* GCHandle on a TaskCompletionSource goes through the native library as     *)
(* user_data, and the handler completes the task that the wrapper has        *)
(* returned, from a task of the thread pool.                                 *)
(*                                                                         *)
(* The native library calls back when and from where it likes, before or     *)
(* after the native function has returned, never, or again.                  *)
(***************************************************************************)
EXTENDS Naturals, FiniteSets

CONSTANTS
    Call,      \* calls of wrappers, each made once
    Slot,      \* GCHandles; one that is freed may be allocated again
    Thread,    \* threads the library calls back from
    None,      \* no handle, no target
    MaxCalls   \* bound: how often the library calls back for one call

ASSUME NoneAssumption == None \notin Call
ASSUME MaxCallsAssumption == MaxCalls \in Nat

(* FfiResult.ErrorCode is zero or not. *)
Answer == {"ok", "error"}

VARIABLES
    pc,       \* where the wrapper of each call is
    userData, \* the handle that PrepareTask has given it
    handles,  \* what each allocated handle refers to
    tasks,    \* the task of each call
    hpc, who, answer, target, \* each handler: its place, call, answer, and tcs
    pool,     \* completions that Task.Run has queued
    crashed,  \* an exception has left a handler: the process is gone
    corrupt,  \* a handle was used after it had been freed
    calls,    \* history: how often the library has called back for each call
    first     \* history: the first answer to each call

handlers == <<hpc, who, answer, target>>
history == <<calls, first>>
vars == <<pc, userData, handles, tasks, handlers, pool, crashed, corrupt, history>>

Completion == [call : Call, n : Nat, target : Call, answer : Answer]
Alive == ~crashed /\ ~corrupt

Init ==
    /\ pc = [c \in Call |-> "idle"] /\ userData \in [Call -> Slot]
    /\ handles = [s \in Slot |-> None] /\ tasks = [c \in Call |-> "none"]
    /\ hpc = [t \in Thread |-> "idle"] /\ who \in [Thread -> Call]
    /\ answer = [t \in Thread |-> "ok"] /\ target = [t \in Thread |-> None]
    /\ pool = {} /\ crashed = FALSE /\ corrupt = FALSE
    /\ calls = [c \in Call |-> 0] /\ first = [c \in Call |-> "none"]

-----------------------------------------------------------------------------
(* The wrapper.  Its arguments are copied into native structs first, which may    *)
(* throw.                                                                         *)
ToNative(c) ==
    /\ Alive /\ pc[c] = "idle"
    /\ \E next \in {"converted", "threw"} : pc' = [pc EXCEPT ![c] = next]
    /\ UNCHANGED <<userData, handles, tasks, handlers, pool, crashed, corrupt, history>>

(* new TaskCompletionSource, GCHandle.Alloc *)
PrepareTask(c) ==
    /\ Alive /\ pc[c] = "converted"
    /\ \E s \in Slot :
        /\ handles[s] = None
        /\ handles' = [handles EXCEPT ![s] = c]
        /\ userData' = [userData EXCEPT ![c] = s]
    /\ tasks' = [tasks EXCEPT ![c] = "pending"]
    /\ pc' = [pc EXCEPT ![c] = "prepared"]
    /\ UNCHANGED <<handlers, pool, crashed, corrupt, history>>

(* The extern function, whose library or entry point may be missing. *)
Extern(c) ==
    /\ Alive /\ pc[c] = "prepared"
    /\ \E next \in {"inside", "threw"} : pc' = [pc EXCEPT ![c] = next]
    /\ UNCHANGED <<userData, handles, tasks, handlers, pool, crashed, corrupt, history>>

(* Mutant: the wrapper frees the handle with the native structs. *)
ReturnFrees(c) ==
    /\ Alive /\ pc[c] = "inside"
    /\ pc' = [pc EXCEPT ![c] = "returned"]
    /\ handles' = [handles EXCEPT ![userData[c]] = None]
    /\ UNCHANGED <<userData, tasks, handlers, pool, crashed, corrupt, history>>

Return(c) ==
    /\ Alive /\ pc[c] = "inside"
    /\ pc' = [pc EXCEPT ![c] = "returned"]
    /\ UNCHANGED <<userData, handles, tasks, handlers, pool, crashed, corrupt, history>>

-----------------------------------------------------------------------------
(* The library, once it has been called, calls back on a thread that is free. *)
Invoke(t, c) ==
    /\ Alive /\ hpc[t] = "idle" /\ pc[c] \in {"inside", "returned"}
    /\ calls[c] < MaxCalls
    /\ \E a \in Answer :
        /\ answer' = [answer EXCEPT ![t] = a]
        /\ first' = [first EXCEPT ![c] = IF calls[c] = 0 THEN a ELSE @]
    /\ calls' = [calls EXCEPT ![c] = @ + 1]
    /\ who' = [who EXCEPT ![t] = c] /\ hpc' = [hpc EXCEPT ![t] = "target"]
    /\ UNCHANGED <<pc, userData, handles, tasks, target, pool, crashed, corrupt>>

UserData(t) == userData[who[t]]

(* FromHandlePtr: handle.Target, then handle.Free(). *)
ReadTarget(t) ==
    /\ Alive /\ hpc[t] = "target"
    /\ target' = [target EXCEPT ![t] = handles[UserData(t)]]
    /\ corrupt' = (handles[UserData(t)] = None)
    /\ hpc' = [hpc EXCEPT ![t] = "free"]
    /\ UNCHANGED <<pc, userData, handles, tasks, who, answer, pool, crashed, history>>

(* Mutants: free = false; the answer is lost on the way. *)
KeepHandle(t) ==
    /\ Alive /\ hpc[t] = "free"
    /\ hpc' = [hpc EXCEPT ![t] = "dispatch"]
    /\ UNCHANGED <<pc, userData, handles, tasks, who, answer, target, pool, crashed, corrupt, history>>

FreeHandle(t) ==
    /\ Alive /\ hpc[t] = "free"
    /\ handles' = [handles EXCEPT ![UserData(t)] = None]
    /\ corrupt' = (handles[UserData(t)] = None)
    /\ hpc' = [hpc EXCEPT ![t] = "dispatch"]
    /\ UNCHANGED <<pc, userData, tasks, who, answer, target, pool, crashed, history>>

Queued(t) ==
    [call |-> who[t], n |-> calls[who[t]], target |-> target[t], answer |-> answer[t]]

(* Mutants: errors are not passed on; they are passed on as results as well. *)
CompleteTaskDrops(t) ==
    /\ Alive /\ hpc[t] = "dispatch" /\ hpc' = [hpc EXCEPT ![t] = "idle"]
    /\ pool' = IF answer[t] = "ok" THEN pool \cup {Queued(t)} ELSE pool
    /\ UNCHANGED <<pc, userData, handles, tasks, who, answer, target, crashed, corrupt, history>>
CompleteTaskTwice(t) ==
    /\ Alive /\ hpc[t] = "dispatch" /\ hpc' = [hpc EXCEPT ![t] = "idle"]
    /\ pool' = pool \cup {Queued(t), [Queued(t) EXCEPT !.answer = "ok"]}
    /\ UNCHANGED <<pc, userData, handles, tasks, who, answer, target, crashed, corrupt, history>>

(* CompleteTask: argFunc runs in the handler, where the arguments are still valid, *)
(* and an exception there has nowhere to go.                                       *)
CompleteTask(t) ==
    /\ Alive /\ hpc[t] = "dispatch" /\ hpc' = [hpc EXCEPT ![t] = "idle"]
    /\ \/ pool' = pool \cup {Queued(t)} /\ UNCHANGED crashed
       \/ answer[t] = "ok" /\ crashed' = TRUE /\ UNCHANGED pool
    /\ UNCHANGED <<pc, userData, handles, tasks, who, answer, target, corrupt, history>>

(* SetResult or SetException in the pool; on a completed task it throws into a task *)
(* that nobody looks at.                                                            *)
SetTask(p) ==
    /\ Alive /\ p \in pool
    /\ pool' = pool \ {p}
    /\ tasks' = [tasks EXCEPT ![p.target] = IF @ = "pending" THEN p.answer ELSE @]
    /\ UNCHANGED <<pc, userData, handles, handlers, crashed, corrupt, history>>

Wrapper(c) == ToNative(c) \/ PrepareTask(c) \/ Extern(c) \/ Return(c)
Handler(t) == ReadTarget(t) \/ FreeHandle(t) \/ CompleteTask(t)
Pool == \E p \in pool : SetTask(p)

Next ==
    \/ \E c \in Call : Wrapper(c)
    \/ \E t \in Thread : (\E c \in Call : Invoke(t, c)) \/ Handler(t)
    \/ Pool

(* A thread that is in a handler goes on, and so does the thread pool.  Nothing   *)
(* makes the library call back, or an application make calls.                     *)
Fairness == (\A t \in Thread : WF_vars(Handler(t))) /\ WF_vars(Pool)

Spec == Init /\ [][Next]_vars /\ Fairness

-----------------------------------------------------------------------------
TypeOK ==
    /\ pc \in [Call -> {"idle", "converted", "prepared", "inside", "returned", "threw"}]
    /\ userData \in [Call -> Slot] /\ handles \in [Slot -> Call \cup {None}]
    /\ tasks \in [Call -> Answer \cup {"none", "pending"}]
    /\ hpc \in [Thread -> {"idle", "target", "free", "dispatch"}]
    /\ who \in [Thread -> Call] /\ answer \in [Thread -> Answer]
    /\ target \in [Thread -> Call \cup {None}]
    /\ pool \subseteq Completion /\ crashed \in BOOLEAN /\ corrupt \in BOOLEAN
    /\ calls \in [Call -> Nat] /\ first \in [Call -> Answer \cup {"none"}]

(* A library that calls back at most once for each call: the use that FromHandlePtr, *)
(* which frees what it reads, is made for.                                           *)
CalledOnce == \A c \in Call : calls[c] <= 1

(* A task is completed with the answer the library has given to its own call, however *)
(* calls, callbacks and the pool interleave and handles are allocated again.          *)
OwnAnswer ==
    CalledOnce =>
        /\ ~corrupt
        /\ \A c \in Call : tasks[c] \in Answer => tasks[c] = first[c]

Stages(c) ==
    {<<"handler", t>> : t \in {u \in Thread : hpc[u] # "idle" /\ who[u] = c}}
    \cup {<<"pool", p>> : p \in {q \in pool : q.target = c}}
    \cup {<<"task", c>> : x \in {y \in {c} : tasks[y] \in Answer}}

(* An answer is in one place: in a handler, in the pool, or in its task.  None is   *)
(* lost and none reaches a task twice, short of a crash.                            *)
AnswersConserved ==
    CalledOnce /\ ~crashed => \A c \in Call : Cardinality(Stages(c)) = calls[c]

(* The handle keeps the task alive from PrepareTask until the handler has read it,  *)
(* and is given back then: what stays allocated belongs to a call that has not been *)
(* answered, or whose extern function threw.  A call that throws while it converts  *)
(* its arguments leaves no handle behind.                                           *)
Owing(c) ==
    /\ pc[c] \in {"prepared", "inside", "returned"} \/ (pc[c] = "threw" /\ tasks[c] # "none")
    /\ calls[c] = 0 \/ \E t \in Thread : who[t] = c /\ hpc[t] \in {"target", "free"}

HandleHeldUntilAnswered ==
    CalledOnce =>
        \A c \in Call, s \in Slot : handles[s] = c <=> Owing(c) /\ userData[c] = s

-----------------------------------------------------------------------------
(* The promise of a task, of which the application sees the task only. *)
P == INSTANCE Promise
     WITH task <- tasks, given <- first, misused <- ~CalledOnce, dead <- crashed

(* Wrapper, handler, handles and pool together keep the promise: a task comes to be   *)
(* before it is answered, is completed once, and with the answer to its own call.     *)
KeepsPromise == P!Spec

(* An answer completes the task in the end, unless an exception ends the process or   *)
(* the library calls back again.                                                      *)
AnswerArrives == P!AnswersArrive
=============================================================================
