----------------------------- MODULE MCCSharpGen -----------------------------
(* Instances of CSharpGen: the crates, and the paths and classes of             *)
(* LangCSharp::new.                                                             *)
EXTENDS CSharpGen

CONSTANTS A, B, X, Y, f, g, h, E, K, u8, u64, k1, k2, k3, k4, k5,
          p1, p2, p3, p4, p5, p6, p7

Ty(w, b) == [wraps |-> w, base |-> b, args |-> <<>>]
Arg(w, b) == [wraps |-> w, base |-> b]
Cb(args) == [wraps |-> <<>>, base |-> Fn, args |-> <<UserData>> \o args]
It(kind, name, types) == [kind |-> kind, name |-> name, shape |-> "good", types |-> types]

MCSection ==
    [s \in Section |->
        CASE s = "interface" -> [path |-> p1, class |-> k1]
          [] s = "functions" -> [path |-> p2, class |-> k2]
          [] s = "consts"    -> [path |-> p3, class |-> k3]
          [] s = "types"     -> [path |-> p4, class |-> k4]
          [] s = "utils"     -> [path |-> p5, class |-> k5]]

(* The crate of a single build, fed in any order.  B is native because A is.     *)
(* X is u64 through Y.  f has one callback, g has that callback (once Y is       *)
(* resolved) and a second one, and h has none.                                   *)
MCCrate ==
    { It("struct", A, <<Ty(<<"dyn">>, u8), Ty(<<>>, u64)>>),
      It("struct", B, <<Ty(<<>>, A)>>),
      It("type", X, <<Ty(<<>>, Y)>>),
      It("type", Y, <<Ty(<<>>, u64)>>),
      It("const", K, <<Ty(<<>>, X)>>),
      It("fn", f, <<Ty(<<>>, Unit), Ty(<<"ptr">>, B), Cb(<<Arg(<<>>, Y)>>)>>),
      It("fn", g, <<Ty(<<>>, X), Cb(<<Arg(<<>>, u64)>>), Cb(<<Arg(<<"ptr">>, A)>>)>>),
      It("fn", h, <<Ty(<<>>, Unit), Ty(<<>>, A)>>) }

(* The crate of a session that is finalised twice: it has a native struct; f has a *)
(* wrapper unless it is blacklisted, and h, with two callbacks, has none; g's     *)
(* handler would have to copy an array that Utils.cs cannot, B holds a function   *)
(* pointer and X is an empty array of them, each of which makes a section panic;  *)
(* and there is an enum the parser refuses and a struct it skips.                 *)
Bare(w) == [wraps |-> w, base |-> Fn, args |-> <<>>]
ReuseCrate ==
    { It("struct", A, <<Ty(<<"dyn">>, u8)>>),
      It("struct", B, <<Ty(<<"ptr">>, A), Bare(<<>>)>>),
      It("enum", E, <<>>),
      It("const", K, <<Ty(<<>>, u64)>>),
      It("const", X, <<Bare(<<"fixed">>)>>),
      It("fn", f, <<Ty(<<>>, Unit), Ty(<<>>, A), Cb(<<Arg(<<>>, u64)>>)>>),
      It("fn", g, <<Ty(<<>>, Unit), Cb(<<Arg(<<"dyn">>, u64)>>)>>),
      It("fn", h, <<Ty(<<>>, Unit), Cb(<<Arg(<<>>, u64)>>), Cb(<<Arg(<<>>, u64)>>)>>),
      [kind |-> "enum", name |-> h, shape |-> "bad", types |-> <<>>],
      [kind |-> "struct", name |-> h, shape |-> "skip", types |-> <<>>] }

(* B's field is an alias of a struct that needs a native twin. *)
AliasCrate ==
    { It("struct", A, <<Ty(<<"dyn">>, u8)>>),
      It("type", X, <<Ty(<<>>, A)>>),
      It("struct", B, <<Ty(<<>>, X)>>) }

(* Where the session may move its types between two builds. *)
OtherSections == { [section |-> "types", path |-> p6, class |-> k5] }
=============================================================================
