-------------------------------- MODULE Promise --------------------------------
(***************************************************************************)
(* What an asynchronous wrapper promises to the application that calls it:   *)
(* the task that a call returns is completed once, with the answer that the  *)
(* native library has given to that call, and so with no answer the library  *)
(* has given to another.  The promise is off once the library answers a call *)
(* a second time, and ends with the process.                                 *)
(*                                                                         *)
(* CsTask shows that the emitted wrapper, its handler and the run-time        *)
(* support keep it, handles, threads and the pool left out here.             *)
(***************************************************************************)
CONSTANTS
    Call,   \* calls of wrappers
    Answer  \* what the library may answer

VARIABLES
    task,     \* "none" until the task exists, then "pending", then its answer
    given,    \* the answer the library has given to each call, or "none"
    misused,  \* the library has answered a call twice
    dead      \* the process has ended

vars == <<task, given, misused, dead>>

Init ==
    /\ task = [c \in Call |-> "none"] /\ given = [c \in Call |-> "none"]
    /\ misused = FALSE /\ dead = FALSE

Bound == ~misused /\ ~dead

Ask(c) ==
    /\ Bound /\ task[c] = "none"
    /\ task' = [task EXCEPT ![c] = "pending"]
    /\ UNCHANGED <<given, misused, dead>>

(* No answer is given before there is a task that can take it. *)
Give(c) ==
    /\ Bound /\ task[c] = "pending" /\ given[c] = "none"
    /\ \E a \in Answer : given' = [given EXCEPT ![c] = a]
    /\ UNCHANGED <<task, misused, dead>>

Keep(c) ==
    /\ Bound /\ task[c] = "pending" /\ given[c] # "none"
    /\ task' = [task EXCEPT ![c] = given[c]]
    /\ UNCHANGED <<given, misused, dead>>

(* An exception in a handler, which runs while an answer is on its way. *)
Die ==
    /\ Bound /\ dead' = TRUE
    /\ \E c \in Call : given[c] # "none" /\ task[c] = "pending"
    /\ UNCHANGED <<task, given, misused>>

(* After a second answer nothing is promised of the tasks. *)
Misuse == misused' = TRUE

Next == (\E c \in Call : Ask(c) \/ Give(c) \/ Keep(c)) \/ Die \/ Misuse

Spec == Init /\ [][Next]_vars

(* An answer that is given completes its task in the end. *)
AnswersArrive ==
    \A c \in Call : given[c] # "none" ~> (task[c] \in Answer \/ dead \/ misused)
================================================================================
