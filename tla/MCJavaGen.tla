------------------------------ MODULE MCJavaGen ------------------------------
(* Crates of up to two items.  Two callback types share an interface, as u32 and  *)
(* i32 do in Java; a third has its own, a fourth no signature.                    *)
EXTENDS JavaGen

CONSTANTS f, g, h, S, T, CbA, CbB, t1, t2, t3, t0

Cb(t) == [kind |-> "callback", type |-> t]
Plain == [kind |-> "plain"]
Bad == [kind |-> "bad"]
Fn(n, as) == [kind |-> "fn", name |-> n, exported |-> TRUE, outcome |-> "ok", args |-> as]
St(n, sh) == [kind |-> "struct", name |-> n, exported |-> TRUE, shape |-> sh]

MCInterface(t) == IF t \in {t1, t2} THEN CbA ELSE CbB

Good == {Fn(f, <<Cb(t1)>>), Fn(f, <<Plain>>), Fn(g, <<Plain, Cb(t1)>>), Fn(g, <<Cb(t3), Cb(t1)>>),
         Fn(h, <<Cb(t3), Cb(t3)>>), Fn(h, <<Cb(t2)>>), St(S, "fields"),
         St(T, "fields"), St(T, "newtype")}
Refused == {Fn(f, <<Cb(t3), Bad>>), Fn(f, <<Cb(t0)>>), Fn(g, <<Cb(t3), Cb(t0)>>),
            [Fn(g, <<Cb(t1)>>) EXCEPT !.outcome = "never"],
            [Fn(g, <<>>) EXCEPT !.outcome = "generic"],
            [Fn(h, <<Cb(t1)>>) EXCEPT !.exported = FALSE], St(S, "refused")}

MCItems == Good \cup Refused
MCCrates == {c \in UNION {[1..n -> MCItems] : n \in 0..2} :
               Len(c) = 2 => c[1].name # c[2].name}
=============================================================================
