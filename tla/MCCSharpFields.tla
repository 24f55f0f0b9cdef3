--------------------------- MODULE MCCSharpFields ---------------------------
(* Every struct of up to MaxFields fields of distinct names; the stem of `y` is  *)
(* longer than a whole name made from `x`.                                       *)
EXTENDS CSharpFields

CONSTANTS x, y, MaxFields

D(s, suf, kd) == [name |-> [stem |-> s, suffix |-> suf], kind |-> kd]

Decls == {D(x, "ptr", "pointer"), D(x, "none", "pointer"), D(x, "len", "usize"),
          D(x, "cap", "usize"), D(x, "cap", "value"), D(x, "none", "usize"),
          D(y, "none", "pointer"), D(y, "ptr", "value"), D(y, "len", "usize"),
          D(y, "cap", "usize"), D(y, "none", "native"), D(y, "none", "void"),
          D(y, "cap", "unsupported")}

MCStructs == {l \in UNION {[1..n -> Decls] : n \in 0..MaxFields} :
                \A i, j \in DOMAIN l : l[i].name = l[j].name => i = j}
MCLength(s) == IF s = x THEN 1 ELSE 6
=============================================================================
