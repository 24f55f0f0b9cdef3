-------------------------- MODULE MCJniMultiCallback --------------------------
(* Three callbacks, two threads of the native library. *)
EXTENDS JniMultiCallback

CONSTANTS c1, c2, c3, t1, t2
=============================================================================
