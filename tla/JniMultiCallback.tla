--------------------------- MODULE JniMultiCallback ---------------------------
(***************************************************************************)
(* The Rust code that generate_multi_jni_callback (src/src/java/jni.rs:443)  *)
(* emits for a native function with several callbacks.  The JNI function     *)
(* boxes one global reference to a Java object per callback and passes the   *)
(* box as user_data.  Each callback rebuilds the box from the raw pointer,   *)
(* takes its own reference out, calls Java, and then either forgets the box  *)
(* again, when other references are left, or lets it be dropped.             *)
(*                                                                         *)
(* The native library decides which callbacks it calls, how often and from   *)
(* which threads: the generated code does not restrict it.                   *)
(***************************************************************************)
EXTENDS Naturals, FiniteSets

CONSTANTS
    Idx,       \* the callbacks of the function
    Thread,    \* the threads of the native library
    MaxCalls   \* bound: how often the library calls one callback

ASSUME IdxAssumption == Idx # {}
ASSUME MaxCallsAssumption == MaxCalls \in Nat

VARIABLES
    slots,       \* the contents of the box: is the reference still there
    freed,       \* the box has been dropped
    pc, idx,     \* where each thread is, and in which callback
    got,         \* what take() has returned to it
    calls,       \* how often the library has called each callback
    javaCalls,   \* how often its Java object has been called
    corrupt,     \* the box was used or dropped after it had been freed
    overlapped,  \* history: a callback began while another was running
    repeated,    \* history: a callback was called again
    failed       \* history: a conversion failed or the Java method threw

vars == <<slots, freed, pc, idx, got, calls, javaCalls, corrupt,
          overlapped, repeated, failed>>

(* gen_ctx! in the JNI function. *)
Init ==
    /\ slots = [i \in Idx |-> TRUE] /\ freed = FALSE
    /\ pc = [t \in Thread |-> "idle"] /\ idx \in [Thread -> Idx]
    /\ got = [t \in Thread |-> FALSE]
    /\ calls = [i \in Idx |-> 0] /\ javaCalls = [i \in Idx |-> 0]
    /\ corrupt = FALSE /\ overlapped = FALSE /\ repeated = FALSE /\ failed = FALSE

Goto(t, label) == pc' = [pc EXCEPT ![t] = label]

(* The native library calls callback i. *)
Invoke(t, i) ==
    /\ ~corrupt /\ pc[t] = "idle" /\ calls[i] < MaxCalls
    /\ Goto(t, "read")
    /\ idx' = [idx EXCEPT ![t] = i]
    /\ calls' = [calls EXCEPT ![i] = @ + 1]
    /\ overlapped' = (overlapped \/ \E u \in Thread : pc[u] # "idle")
    /\ repeated' = (repeated \/ calls[i] > 0)
    /\ UNCHANGED <<slots, freed, got, javaCalls, corrupt, failed>>

(* Box::from_raw and the two halves of cbs[idx].take(): nothing orders them with *)
(* those of another thread.                                                      *)
Touch(t) == ~corrupt /\ corrupt' = freed

TakeRead(t) ==
    /\ pc[t] = "read" /\ Touch(t) /\ Goto(t, "write")
    /\ got' = [got EXCEPT ![t] = slots[idx[t]]]
    /\ UNCHANGED <<slots, freed, idx, calls, javaCalls, overlapped, repeated, failed>>

(* Mutant: the reference is copied out, not taken. *)
TakeCopies(t) ==
    /\ pc[t] = "write" /\ Touch(t)
    /\ Goto(t, IF got[t] THEN "call" ELSE "check")
    /\ UNCHANGED <<slots, freed, idx, got, calls, javaCalls, overlapped, repeated, failed>>

TakeWrite(t) ==
    /\ pc[t] = "write" /\ Touch(t)
    /\ slots' = [slots EXCEPT ![idx[t]] = FALSE]
    /\ Goto(t, IF got[t] THEN "call" ELSE "check")
    /\ UNCHANGED <<freed, idx, got, calls, javaCalls, overlapped, repeated, failed>>

CallJava(t) ==
    /\ ~corrupt /\ pc[t] = "call" /\ Goto(t, "check")
    /\ javaCalls' = [javaCalls EXCEPT ![idx[t]] = @ + 1]
    /\ UNCHANGED <<slots, freed, idx, got, calls, corrupt, overlapped, repeated, failed>>

(* jni_unwrap! gives up, before the Java method is called or because it threw:   *)
(* unwinding drops the box.                                                      *)
JniUnwrapFails(t) ==
    /\ ~corrupt /\ pc[t] = "call" /\ Goto(t, "drop")
    /\ \E threw \in {0, 1} : javaCalls' = [javaCalls EXCEPT ![idx[t]] = @ + threw]
    /\ failed' = TRUE
    /\ UNCHANGED <<slots, freed, idx, got, calls, corrupt, overlapped, repeated>>

(* cbs.iter().any(|cb| cb.is_some()) decides between mem::forget and the drop at *)
(* the end of the block.                                                         *)
AnyLeft == \E i \in Idx : slots[i]
(* Mutants: the box is never forgotten, or always. *)
CheckDrops(t) ==
    /\ pc[t] = "check" /\ Touch(t) /\ Goto(t, "drop")
    /\ UNCHANGED <<slots, freed, idx, got, calls, javaCalls, overlapped, repeated, failed>>
CheckForgets(t) ==
    /\ pc[t] = "check" /\ Touch(t) /\ Goto(t, "idle")
    /\ UNCHANGED <<slots, freed, idx, got, calls, javaCalls, overlapped, repeated, failed>>

Check(t) ==
    /\ pc[t] = "check" /\ Touch(t)
    /\ Goto(t, IF AnyLeft THEN "idle" ELSE "drop")
    /\ UNCHANGED <<slots, freed, idx, got, calls, javaCalls, overlapped, repeated, failed>>

Drop(t) ==
    /\ pc[t] = "drop" /\ Touch(t) /\ Goto(t, "idle")
    /\ freed' = TRUE
    /\ UNCHANGED <<slots, idx, got, calls, javaCalls, overlapped, repeated, failed>>

Step(t) ==
    \/ TakeRead(t)
    \/ TakeWrite(t)
    \/ CallJava(t)
    \/ JniUnwrapFails(t)
    \/ Check(t)
    \/ Drop(t)

Next == \E t \in Thread : Step(t) \/ \E i \in Idx : Invoke(t, i)

(* A callback that runs goes on; the library need not call any. *)
Spec == Init /\ [][Next]_vars /\ \A t \in Thread : WF_vars(Step(t))

-----------------------------------------------------------------------------
TypeOK ==
    /\ slots \in [Idx -> BOOLEAN] /\ freed \in BOOLEAN
    /\ pc \in [Thread -> {"idle", "read", "write", "call", "check", "drop"}]
    /\ idx \in [Thread -> Idx] /\ got \in [Thread -> BOOLEAN]
    /\ calls \in [Idx -> Nat] /\ javaCalls \in [Idx -> Nat]
    /\ corrupt \in BOOLEAN /\ overlapped \in BOOLEAN
    /\ repeated \in BOOLEAN /\ failed \in BOOLEAN

Misused == overlapped \/ repeated \/ failed
Quiet == \A t \in Thread : pc[t] = "idle"

(* The box is never used or dropped after it was freed as long as the library    *)
(* calls every callback at most once, one after the other, and no conversion or  *)
(* Java method fails.  Each of the three can break it: the code itself enforces  *)
(* none of them.                                                                 *)
SafeUnlessMisused == corrupt => Misused

(* Without overlap a Java object is called at most once, also when the library   *)
(* repeats a callback: its reference has been taken, and the repetition is lost. *)
JavaCalledAtMostOnce == ~overlapped => \A i \in Idx : javaCalls[i] <= 1

(* The memory is given back exactly when every callback has been called: a       *)
(* library that calls only some of them, for instance either the result or the   *)
(* error callback, leaves the box and the other references behind for ever.      *)
FreedIffAllCalled ==
    Quiet /\ ~Misused /\ ~corrupt => (freed <=> \A i \in Idx : javaCalls[i] = 1)

(* Once every callback has been called, the box is freed, unless the use was one *)
(* that can corrupt it.                                                          *)
AllCalledLeadsToFreed ==
    (\A i \in Idx : calls[i] = 1) ~> (freed \/ Misused)

-----------------------------------------------------------------------------
(* What carries the proofs.  While callbacks do not overlap, at most one thread   *)
(* is inside one, and a reference still in the box has not been used.             *)
Alone == \A t, u \in Thread : pc[t] # "idle" /\ pc[u] # "idle" => t = u
Unused(i) == slots[i] => javaCalls[i] = 0
OnceInv ==
    ~overlapped =>
        /\ Alone
        /\ \A i \in Idx : Unused(i) /\ javaCalls[i] <= 1
        /\ \A t \in Thread : pc[t] = "write" /\ got[t] => slots[idx[t]]
        /\ \A t \in Thread : pc[t] = "call" => ~slots[idx[t]] /\ javaCalls[idx[t]] = 0

(* While nothing is misused, the slots tell which callbacks are yet to come, and  *)
(* the box is alive while a callback runs.                                        *)
Inside(i, labels) == \E t \in Thread : idx[t] = i /\ pc[t] \in labels
SlotsTell ==
    \A i \in Idx :
        /\ calls[i] \in {0, 1}
        /\ slots[i] <=> calls[i] = 0 \/ Inside(i, {"read", "write"})
        /\ javaCalls[i] = IF calls[i] = 1 /\ ~Inside(i, {"read", "write", "call"})
                          THEN 1 ELSE 0
Running ==
    \A t \in Thread :
        /\ pc[t] # "idle" => ~freed /\ calls[idx[t]] = 1
        /\ pc[t] = "write" => got[t]
        /\ pc[t] = "drop" => ~AnyLeft
UseInv ==
    ~Misused => ~corrupt /\ Alone /\ SlotsTell /\ Running /\ (Quiet => (freed <=> ~AnyLeft))
=============================================================================
