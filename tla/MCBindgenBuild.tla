--------------------------- MODULE MCBindgenBuild ---------------------------
(* A root that re-exports one module, in several states of the sources. *)
EXTENDS BindgenBuild

CONSTANTS a, b, c, f1, f2, f3

Pub(i) == [item |-> i, public |-> TRUE, accepted |-> TRUE]
Priv(i) == [item |-> i, public |-> FALSE, accepted |-> FALSE]
Bad(i) == [item |-> i, public |-> TRUE, accepted |-> FALSE]
Mod(es) == [parses |-> TRUE, entries |-> es]

MCProduces(i) == CASE i = a -> {f1, f2} [] i = b -> {f2} [] i = c -> {f3}

MCCrates ==
    { <<Mod(<<Pub(a), Priv(b)>>), Mod(<<Pub(c)>>)>>,
      <<Mod(<<Pub(b), Pub(b)>>)>>,
      <<Mod(<<Pub(a)>>), Mod(<<Bad(b), Pub(c), Bad(a)>>), Mod(<<Bad(c)>>)>>,
      <<Mod(<<Bad(a), Bad(b)>>), Mod(<<>>)>>,
      <<Mod(<<Pub(a)>>), [parses |-> FALSE, entries |-> <<>>]>> }
=============================================================================
