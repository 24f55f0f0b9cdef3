---------------------------- MODULE NativeMarking ----------------------------
(***************************************************************************)
(* resolve_native_types (src/src/csharp/mod.rs:252): the loop that marks     *)
(* the structs which need a native twin.  It passes over the structs in the  *)
(* order they were parsed and starts another pass as long as the last one    *)
(* marked something.  CSharpGen!ResolveNative is its result in one step.     *)
(***************************************************************************)
EXTENDS Naturals, Sequences

CONSTANTS
    StructName,
    MarkInputs  \* the struct lists and earlier markings to start from

(* Of a struct only its name matters, whether it has a dynamic array, and the *)
(* names its other fields hold directly or behind pointers.                   *)
MarkStruct == [name : StructName, dynamic : BOOLEAN, refs : SUBSET StructName]

ASSUME MarkInputsAssumption ==
    MarkInputs \subseteq [given : Seq(MarkStruct), native : SUBSET StructName]

VARIABLES
    given,  \* the structs the call is to mark
    native,
    run,    \* the loop flag
    at,     \* the struct to be examined next
    pc,     \* "test" at the head of the while loop, "scan" inside it, "done"
    start   \* history: the marking the call found

markVars == <<given, native, run, at, pc, start>>

MarkInit ==
    /\ \E in \in MarkInputs : given = in.given /\ native = in.native /\ start = in.native
    /\ run = TRUE /\ at = 1 /\ pc = "test"

MustMark(s) == s.dynamic \/ s.refs \cap native # {}

(* Mutant: the flag is not lowered. *)
StartPassAgain ==
    /\ pc = "test" /\ run
    /\ at' = 1 /\ pc' = "scan"
    /\ UNCHANGED <<given, native, run, start>>

StartPass ==
    /\ pc = "test" /\ run
    /\ run' = FALSE /\ at' = 1 /\ pc' = "scan"
    /\ UNCHANGED <<given, native, start>>

Return ==
    /\ pc = "test" /\ ~run
    /\ pc' = "done"
    /\ UNCHANGED <<given, native, run, at, start>>

(* Mutant: no further pass is asked for. *)
MarkLast ==
    /\ pc = "scan" /\ at <= Len(given)
    /\ given[at].name \notin native /\ MustMark(given[at])
    /\ native' = native \cup {given[at].name}
    /\ at' = at + 1
    /\ UNCHANGED <<given, run, pc, start>>

Mark ==
    /\ pc = "scan" /\ at <= Len(given)
    /\ given[at].name \notin native /\ MustMark(given[at])
    /\ native' = native \cup {given[at].name}
    /\ run' = TRUE /\ at' = at + 1
    /\ UNCHANGED <<given, pc, start>>

Skip ==
    /\ pc = "scan" /\ at <= Len(given)
    /\ given[at].name \in native \/ ~MustMark(given[at])
    /\ at' = at + 1
    /\ UNCHANGED <<given, native, run, pc, start>>

EndPass ==
    /\ pc = "scan" /\ at > Len(given)
    /\ pc' = "test"
    /\ UNCHANGED <<given, native, run, at, start>>

MarkNext == StartPass \/ Return \/ Mark \/ Skip \/ EndPass

(* The function runs to its end on the thread that calls it. *)
MarkSpec == MarkInit /\ [][MarkNext]_markVars /\ WF_markVars(MarkNext)

-----------------------------------------------------------------------------
MarkTypeOK ==
    /\ given \in Seq(MarkStruct)
    /\ native \in SUBSET StructName /\ start \in SUBSET StructName
    /\ run \in BOOLEAN /\ at \in Nat \ {0}
    /\ pc \in {"test", "scan", "done"}

ClosedUnder(M, s) == s.dynamic \/ s.refs \cap M # {} => s.name \in M
ClosedMarking(M) == \A k \in DOMAIN given : ClosedUnder(M, given[k])
Least == {n \in StructName : \A M \in SUBSET StructName : start \subseteq M /\ ClosedMarking(M) => n \in M}

(* The loop ends with the least marking that contains the one it found and is    *)
(* closed: it neither stops before the last consequence of a mark is drawn,      *)
(* however the structs are ordered and even when they refer to each other in a   *)
(* cycle, nor marks a struct without cause.                                      *)
ResultIsLeast == pc = "done" => native = Least

(* The loop ends for every list of structs. *)
Terminates == <>(pc = "done")

(* What carries the proof: every mark is forced, and a pass that has marked      *)
(* nothing so far has found the structs it passed in order.                      *)
Forced == \A M \in SUBSET StructName : start \subseteq M /\ ClosedMarking(M) => native \subseteq M
PassClean ==
    /\ pc = "scan" /\ ~run => \A k \in 1..Len(given) : k < at => ClosedUnder(native, given[k])
    /\ pc = "test" /\ ~run => ClosedMarking(native)
    /\ pc = "done" => ClosedMarking(native)
MarkInv == MarkTypeOK /\ start \subseteq native /\ Forced /\ PassClean
=============================================================================
