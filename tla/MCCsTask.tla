------------------------------- MODULE MCCsTask -------------------------------
(* Two calls, so that the handle of one is allocated again for the other. *)
EXTENDS CsTask

CONSTANTS c1, c2, s1, s2, t1, t2
=============================================================================
