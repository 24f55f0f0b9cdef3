--------------------------- MODULE MCCSharpParams ---------------------------
(* Every list of distinct names over two stems, user data and a callback. *)
EXTENDS CSharpParams

CONSTANTS x, y, ud, ret, MaxParams

N(s, suf) == [stem |-> s, suffix |-> suf]
D(s, suf, kd) == [name |-> N(s, suf), kind |-> kd]

Decls == {D(x, "ptr", "pointer"), D(x, "none", "value"), D(x, "len", "usize"),
          D(y, "none", "pointer"), D(y, "len", "usize"), D(y, "len", "value"),
          D(ud, "none", "void"), D(ud, "ptr", "pointer"), D(ud, "len", "usize"), D(y, "none", "callback"),
          D(x, "none", "unsupported"),
          D(x, "none", "native"), D(ud, "none", "native"), D(y, "len", "native"),
          D(ret, "none", "pointer"), D(ret, "len", "usize")}

MCLists == {l \in UNION {[1..n -> Decls] : n \in 0..MaxParams} :
              \A i, j \in DOMAIN l : l[i].name = l[j].name => i = j}
=============================================================================
