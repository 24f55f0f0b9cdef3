------------------------------ MODULE LangLedger ------------------------------
(***************************************************************************)
(* What a back end owes to Bindgen::compile, which gives it one item after    *)
(* the other through the trait Lang (src/src/common.rs) and asks it for the   *)
(* files in the end: each item it has accepted appears in them or is held for *)
(* a later call, and appears once unless it is of the kind that is kept.  A   *)
(* panic ends the session, and costs it the items of one batch at most.       *)
(***************************************************************************)
EXTENDS Naturals

CONSTANT Batch  \* the lists in which items wait

VARIABLES
    next,    \* number of the next item that is accepted
    pending, \* per batch, accepted items that have not been in the files
    kept,    \* accepted items that may be in the files again and again
    files,   \* items in the files
    shown,   \* items that are or have been in the files
    lost,    \* items that a panic took away
    broken   \* the session has panicked

vars == <<next, pending, kept, files, shown, lost, broken>>

Waiting == UNION {pending[b] : b \in Batch}

Init ==
    /\ next = 1 /\ pending = [b \in Batch |-> {}] /\ kept = {} /\ files = {} /\ shown = {}
    /\ lost = {} /\ broken = FALSE

(* parse_const, parse_ty, parse_enum, parse_struct, parse_fn *)
Accept ==
    /\ ~broken
    /\ next' = next + 1
    /\ \/ /\ \E b \in Batch : pending' = [pending EXCEPT ![b] = @ \cup {next}]
          /\ UNCHANGED kept
       \/ kept' = kept \cup {next} /\ UNCHANGED pending
    /\ UNCHANGED <<files, shown, lost, broken>>

(* What waits no more, when nothing starts to wait. *)
Gone == Waiting \ Waiting'
Release ==
    /\ ~broken
    /\ Waiting' \subseteq Waiting
    /\ files' \subseteq files \cup Gone \cup kept
    /\ shown' = shown \cup files'
    /\ UNCHANGED <<next, kept>>

(* finalise_output: what is pending no more is in the files, together with what *)
(* was there before or is kept, and with nothing that is pending.               *)
Show == Release /\ Gone \subseteq files' /\ UNCHANGED <<lost, broken>>

(* finalise_output panics: of what is pending no more, all that is not in the *)
(* files is lost, and it comes from one batch.                                *)
Break ==
    /\ Release
    /\ lost' = Gone \ files' /\ \E b \in Batch : lost' \subseteq pending[b]
    /\ broken' = TRUE

(* The files of the next build start empty. *)
Fresh == ~broken /\ files' = {} /\ UNCHANGED <<next, pending, kept, shown, lost, broken>>

Next == Accept \/ Show \/ Break \/ Fresh

Spec == Init /\ [][Next]_vars

Accounted ==
    /\ 1..(next - 1) = Waiting \cup kept \cup shown \cup lost
    /\ Waiting \cap (kept \cup shown) = {}
    /\ lost \cap (Waiting \cup kept \cup shown) = {}
    /\ files \subseteq shown
    /\ lost # {} => broken
================================================================================
