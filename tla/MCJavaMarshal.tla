---------------------------- MODULE MCJavaMarshal ----------------------------
EXTENDS JavaMarshal

CONSTANTS x, y, MaxFields

(* Every list of up to three parameters, and of four of those that the loops tell *)
(* apart by their neighbours.                                                     *)
P(n, w, b) == [name |-> n, wrap |-> w, base |-> b]

Common == {P("user_data", "mut", "c_void"), P("other", "none", "callback"), P("other", "const", "u8"),
           P("len", "none", "usize"), P("result", "const", "FfiResult"), P("other", "mut", "App")}
Rare == {P("other", "const", "c_char"), P("other", "const", "Struct"), P("other", "none", "Struct"),
         P("other", "none", "usize"), P("other", "none", "bool"), P("other", "none", "f64"),
         P("other", "none", "c_char"), P("len", "none", "u8"), P("other", "mut", "Authenticator"),
         P("user_data", "const", "c_void")}

MCLists == UNION {[1..n -> Common \cup Rare] : n \in 0..3} \cup [1..4 -> Common]

(* Opaque pointers and structs, mapped and not. *)
MCTypeMaps == { [b \in {"App"} |-> JavaTy("long", 0)],
                [b \in {"App", "Struct"} |-> IF b = "App" THEN JavaTy("long", 0) ELSE JavaTy("byte", 1)],
                [b \in {"Authenticator", "Struct"} |->
                    IF b = "Struct" THEN JavaTy("int", 0) ELSE JavaTy("long", 0)] }

-----------------------------------------------------------------------------
(* Every struct of up to MaxFields fields of distinct names over two words. *)
F(s, suf, t) == [name |-> [stem |-> s, suffix |-> suf], type |-> t]

Choices == {F(x, "ptr", "*u8"), F(x, "none", "*Struct"), F(x, "len", "usize"),
            F(x, "len", "u32"), F(x, "cap", "usize"), F(x, "cap", "*c_char"),
            F(y, "ptr", "*c_char"), F(y, "none", "Struct"), F(y, "len", "*Struct"),
            F(y, "cap", "usize"), F(x, "none", "fn"), F(y, "none", "fn"), F(y, "len", "fn"),
            F(y, "none", "other")}

MCStructs == {l \in UNION {[1..n -> Choices] : n \in 0..MaxFields} :
                \A i, j \in DOMAIN l : l[i].name = l[j].name => i = j}
=============================================================================
