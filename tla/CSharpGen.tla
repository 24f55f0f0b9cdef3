------------------------------ MODULE CSharpGen ------------------------------
(***************************************************************************)
(* The C# back end, LangCSharp (src/src/csharp/mod.rs): one value that a    *)
(* build script configures, that Bindgen::compile feeds one public item at  *)
(* a time, and that renders what it has gathered into a map from file paths *)
(* to contents when finalise_output is called.  The same value may be       *)
(* configured, fed and finalised again.                                     *)
(*                                                                         *)
(* A file is represented by what its text is computed from: the section it  *)
(* belongs to, the declarations rendered, the functions that get a wrapper  *)
(* (or, in the interface, a declaration), the delegates, and the native and *)
(* opaque names under which all that was rendered.                          *)
(***************************************************************************)
EXTENDS Naturals, Sequences, FiniteSets

CONSTANTS
    Name,           \* identifiers of types, functions and constants
    Prim,           \* primitive types, strings included
    CopyPrim,       \* those of which Utils.cs can copy an array
    Unit,           \* Type::Unit, that is c_void
    Fn,             \* marks a Type::Function
    Class, Path,    \* class names and file paths
    Crate,          \* the public items the source code may contain
    FilterName,     \* identifiers the script may filter,
    BlacklistName,  \*   exclude from wrapping,
    OpaqueName,     \*   declare opaque
    CustomName,     \*   or define as constants of its own
    Toggle,         \* the sections the script may enable and disable
    SectionChoice,  \* the sections the script may configure, with the values
    LibName,        \* the library names it may choose
    DefaultSection, \* Section::new(...) of LangCSharp::new
    DefaultLib,
    MaxSnippets,    \* bound: items accepted in one session
    MaxFinalise     \* bound: calls of finalise_output in one session

Section == {"interface", "functions", "consts", "types", "utils"}
Wrap == {"ptr", "fixed", "dyn"}
Base == Name \cup Prim \cup {Unit, Fn}

(* A type is the wrappers around a base, outermost first, and for a function *)
(* pointer the types of its parameters.                                      *)
SimpleType == [wraps : Seq(Wrap), base : Base]
Type == [wraps : Seq(Wrap), base : Base, args : Seq(SimpleType)]

Kind == {"type", "const", "enum", "struct", "fn"}

(* What the parser makes of an item: it is transformed, silently skipped (no *)
(* repr(C), not extern, a generic alias) or refused with an error.  "types"  *)
(* holds an alias's or a constant's type, a struct's fields, or a function's *)
(* result followed by its parameters.                                        *)
Item == [kind : Kind, name : Name, shape : {"good", "skip", "bad"},
         types : Seq(Type)]
Snippet == [id : Nat, kind : Kind, name : Name, types : Seq(Type)]
Delegate == [name : Seq([arrays : SUBSET Wrap, base : Base]),
             args : Seq(SimpleType), single : BOOLEAN]
File == [section : Section, class : Class, decls : Seq(Snippet),
         customs : SUBSET Name, wrapped : SUBSET Nat,
         delegates : SUBSET Delegate,
         native : SUBSET Name, opaque : SUBSET Name]

ASSUME CrateAssumption == Crate \subseteq Item
ASSUME AliasAssumption == \A item \in Crate : item.kind = "type" => item.types # <<>>
ASSUME EnumAssumption == \A item \in Crate : item.kind = "enum" => item.types = <<>>
ASSUME NamesAssumption ==
    /\ FilterName \cup BlacklistName \cup OpaqueName \cup CustomName \subseteq Name
    /\ Toggle \subseteq {"consts", "types", "utils"}
    /\ CopyPrim \subseteq Prim
ASSUME SectionAssumption ==
    /\ DefaultSection \in [Section -> [path : Path, class : Class]]
    /\ SectionChoice \subseteq [section : Section, path : Path, class : Class]
    /\ LibName \cup {DefaultLib} \subseteq Class
(* The script gives no section a path that another one has or had: the file that   *)
(* is inserted first would be replaced by the other.                               *)
PathsOf(s) == {DefaultSection[s].path} \cup {c.path : c \in {d \in SectionChoice : d.section = s}}
ASSUME PathAssumption == \A s, t \in Section : s # t => PathsOf(s) \cap PathsOf(t) = {}
ASSUME BoundAssumption == MaxSnippets \in Nat /\ MaxFinalise \in Nat

VARIABLES
    filter, filterMode, wrapperBlacklist, enabled, section, libName,
    opaqueTypes, nativeTypes,
    customConsts, consts, enums, structs, functions, aliases,
    outputs,
    result,         \* what the last call returned, or "panic"
    nextId,         \* history: number of the next accepted item
    rendered,       \* history: items that have appeared in some output
    lost,           \* history: items drained by a section that then panicked
    marked,         \* history: structs present at the last finalise_output
    finalised       \* history: number of finalise_output calls

config == <<filter, filterMode, wrapperBlacklist, enabled, section, libName>>
gathered == <<customConsts, consts, enums, structs, functions, aliases>>
history == <<nextId, rendered, lost, marked, finalised>>
vars == <<config, opaqueTypes, nativeTypes, gathered, outputs, result, history>>

-----------------------------------------------------------------------------
(* Helpers of the code. *)

Outermost(t) == IF t.wraps = <<>> THEN "none" ELSE t.wraps[1]
IsDynamicArray(t) == Outermost(t) = "dyn"

IsNativeType(N, t) ==
    t.base \in N /\ \A i \in DOMAIN t.wraps : t.wraps[i] = "ptr"

(* A struct needs a native twin under the marking N. *)
NeedsNative(N, s) ==
    \E i \in DOMAIN s.types : IsDynamicArray(s.types[i]) \/ IsNativeType(N, s.types[i])

Closed(N, ss) == \A i \in DOMAIN ss : NeedsNative(N, ss[i]) => ss[i].name \in N

(* Mutant: a single pass over the structs. *)
ResolveNativeOnce(N, ss) == N \cup {ss[i].name : i \in {j \in DOMAIN ss : NeedsNative(N, ss[j])}}

(* resolve_native_types repeats its pass until it adds nothing: starting from *)
(* N it ends with the least closed set that contains N (NativeMarking shows   *)
(* the loop itself).                                                          *)
ResolveNative(N, ss) ==
    {n \in Name : \A M \in SUBSET Name : N \subseteq M /\ Closed(M, ss) => n \in M}

IsIgnored(n) == IF filterMode = "blacklist" THEN n \in filter ELSE n \notin filter

(* lookup_alias follows a chain of plain names.  The aliases of a crate that  *)
(* rustc accepts have no cycle, on which the code would recurse for ever.     *)
Plain(a, n) == n \in DOMAIN a /\ a[n].wraps = <<>> /\ a[n].base \in DOMAIN a
Chain(a, n) ==
    {m \in Name : \A S \in SUBSET Name :
        n \in S /\ (\A k \in S : Plain(a, k) => a[k].base \in S) => m \in S}
(* Mutant: one link of the chain. *)
LookupAliasOnce(a, n) == a[n]
LookupAlias(a, n) ==
    LET ends == {m \in Chain(a, n) \cap DOMAIN a : ~Plain(a, m)}
    IN  IF ends = {} THEN a[n] ELSE a[CHOOSE m \in ends : TRUE]

(* resolve_alias replaces the innermost name by the end of its chain and does *)
(* not look into what it has put there.                                       *)
ResolveArg(a, t) ==
    IF t.base \in DOMAIN a
    THEN LET e == LookupAlias(a, t.base)
         IN  [wraps |-> t.wraps \o e.wraps, base |-> e.base]
    ELSE t
ResolveAlias(a, t) ==
    IF t.base \in DOMAIN a
    THEN LET e == LookupAlias(a, t.base)
         IN  [wraps |-> t.wraps \o e.wraps, base |-> e.base, args |-> e.args]
    ELSE [t EXCEPT !.args = [i \in DOMAIN t.args |-> ResolveArg(a, t.args[i])]]

(* A struct whose own name is an alias of a name takes that name. *)
ResolveName(a, s) ==
    IF s.kind = "struct" /\ s.name \in DOMAIN a
    THEN LET e == LookupAlias(a, s.name)
         IN  IF e.wraps = <<>> /\ e.base \in Name THEN e.base ELSE s.name
    ELSE s.name

ResolveAliases(a, list) ==
    [i \in DOMAIN list |->
        [list[i] EXCEPT !.name = ResolveName(a, list[i]),
                        !.types = [j \in DOMAIN list[i].types |->
                                      ResolveAlias(a, list[i].types[j])]]]

(* A callback is a function pointer whose first parameter is user_data. *)
UserData == [wraps |-> <<"ptr">>, base |-> Unit]
IsCallback(t) ==
    /\ t.wraps = <<>> /\ t.base = Fn
    /\ t.args # <<>> /\ t.args[1] = UserData

Callbacks(s) == {i \in DOMAIN s.types : i > 1 /\ IsCallback(s.types[i])}

IsInterfaceFunction(s) ==
    s.name \notin wrapperBlacklist /\ Cardinality(Callbacks(s)) <= 1

(* The delegate of a callback is named by the parameters after user_data; a   *)
(* pointer is named like what it points to.                                   *)
PartName(t) == [arrays |-> {t.wraps[i] : i \in DOMAIN t.wraps} \ {"ptr"},
                base |-> t.base]
DelegateName(args) == [i \in 1..(Len(args) - 1) |-> PartName(args[i + 1])]

CallbackUses(fs) == UNION {{<<i, j>> : j \in Callbacks(fs[i])} : i \in DOMAIN fs}

(* Mutant: only the first use of a delegate tells whether it is single. *)
CollectCallbacksFirst(fs) ==
    LET uses == CallbackUses(fs)
        args(u) == fs[u[1]].types[u[2]].args
        before(u, v) == u[1] < v[1] \/ (u[1] = v[1] /\ u[2] < v[2])
        named(u) == {v \in uses : DelegateName(args(v)) = DelegateName(args(u))}
    IN  {[name |-> DelegateName(args(u)), args |-> args(u),
          single |-> Cardinality(Callbacks(fs[u[1]])) = 1]
            : u \in {u \in uses : ~\E v \in named(u) : before(v, u)}}

(* collect_callbacks keeps the first callback of each delegate name, and notes *)
(* whether any function has a callback of that name as its only one.           *)
CollectCallbacks(fs) ==
    LET uses == CallbackUses(fs)
        args(u) == fs[u[1]].types[u[2]].args
        before(u, v) == u[1] < v[1] \/ (u[1] = v[1] /\ u[2] < v[2])
        named(u) == {v \in uses : DelegateName(args(v)) = DelegateName(args(u))}
        only(u) == Cardinality(Callbacks(fs[u[1]])) = 1
    IN  {[name |-> DelegateName(args(u)), args |-> args(u),
          single |-> \E v \in named(u) : only(v)]
            : u \in {u \in uses : ~\E v \in named(u) : before(v, u)}}

(* emit_type has no text for a function: not outside a pointer, nor in an array, *)
(* of which it looks through a pointer as well.                                   *)
Unsupported(t) ==
    /\ t.base = Fn
    /\ \A i \in DOMAIN t.wraps :
          t.wraps[i] = "ptr" => i < Len(t.wraps) /\ t.wraps[i + 1] # "ptr"

(* An array, or what a pointer to one points to, is copied element by element, *)
(* which Utils.cs can do for some primitive types and for structs.             *)
Uncopyable(t) ==
    \E i \in DOMAIN t.wraps :
        /\ t.wraps[i] # "ptr" /\ (i = 1 \/ (i = 2 /\ t.wraps[1] = "ptr"))
        /\ i < Len(t.wraps) \/ t.base \notin Name \cup CopyPrim

(* What the sections panic on.  An extern declaration that returns or takes a   *)
(* function pointer which is no callback parameter; a callback that takes one   *)
(* and so has no name; a handler whose callback takes nothing but user_data, or *)
(* an array it cannot copy.                                                     *)
FunctionsUnsupported(fs) ==
    \/ \E i \in DOMAIN fs : \E j \in DOMAIN fs[i].types :
          IF j \in Callbacks(fs[i])
          THEN \E k \in DOMAIN fs[i].types[j].args : fs[i].types[j].args[k].base = Fn
          ELSE Unsupported(fs[i].types[j])
    \/ \E d \in CollectCallbacks(fs) :
          d.single /\ (Len(d.args) = 1 \/ \E k \in DOMAIN d.args : Uncopyable(d.args[k]))

ConstsUnsupported(cs) == \E i \in DOMAIN cs : \E j \in DOMAIN cs[i].types : Unsupported(cs[i].types[j])

(* A dynamic array in a struct without a native twin is a pointer and a length; *)
(* one with a twin has it as a list, too, and copies it.                        *)
StructsUnsupported(ss) ==
    \E i \in DOMAIN ss : \E j \in DOMAIN ss[i].types :
        LET t == ss[i].types[j]
        IN  IF IsDynamicArray(t)
            THEN ss[i].name \in nativeTypes /\ (Unsupported(t) \/ Uncopyable(t))
            ELSE Unsupported(t)

Ids(list) == {list[i].id : i \in DOMAIN list}
-----------------------------------------------------------------------------
(* LangCSharp::new *)
Init ==
    /\ filter = {} /\ filterMode = "blacklist"
    /\ wrapperBlacklist = {}
    /\ enabled = {"consts", "types", "utils"}
    /\ section = DefaultSection /\ libName = DefaultLib
    /\ opaqueTypes = {} /\ nativeTypes = {}
    /\ customConsts = {} /\ consts = <<>> /\ enums = <<>>
    /\ structs = <<>> /\ functions = <<>>
    /\ aliases = <<>>
    /\ outputs = <<>>
    /\ result = "ok"
    /\ nextId = 1 /\ rendered = {} /\ lost = {} /\ marked = 0 /\ finalised = 0

(* The setters of the build script.  A panic of the generator unwinds it.      *)
Alive == result # "panic"

ResetFilter(mode) ==
    /\ Alive
    /\ filter' = {} /\ filterMode' = mode
    /\ UNCHANGED <<wrapperBlacklist, enabled, section, libName, opaqueTypes,
                   nativeTypes, gathered, outputs, result, history>>

Filter(n) ==
    /\ Alive
    /\ filter' = filter \cup {n}
    /\ UNCHANGED <<filterMode, wrapperBlacklist, enabled, section, libName, opaqueTypes,
                   nativeTypes, gathered, outputs, result, history>>

BlacklistWrapperFunction(n) ==
    /\ Alive
    /\ wrapperBlacklist' = wrapperBlacklist \cup {n}
    /\ UNCHANGED <<filter, filterMode, enabled, section, libName, opaqueTypes,
                   nativeTypes, gathered, outputs, result, history>>

ResetWrapperFunctionBlacklist ==
    /\ Alive
    /\ wrapperBlacklist' = {}
    /\ UNCHANGED <<filter, filterMode, enabled, section, libName, opaqueTypes,
                   nativeTypes, gathered, outputs, result, history>>

SetEnabled(s, on) ==
    /\ Alive
    /\ enabled' = IF on THEN enabled \cup {s} ELSE enabled \ {s}
    /\ UNCHANGED <<filter, filterMode, wrapperBlacklist, section, libName, opaqueTypes,
                   nativeTypes, gathered, outputs, result, history>>

SetSection(c) ==
    /\ Alive
    /\ section' = [section EXCEPT ![c.section] = [path |-> c.path, class |-> c.class]]
    /\ UNCHANGED <<filter, filterMode, wrapperBlacklist, enabled, libName, opaqueTypes,
                   nativeTypes, gathered, outputs, result, history>>

SetLibName(n) ==
    /\ Alive
    /\ libName' = n
    /\ UNCHANGED <<filter, filterMode, wrapperBlacklist, enabled, section, opaqueTypes,
                   nativeTypes, gathered, outputs, result, history>>

AddOpaqueType(n) ==
    /\ Alive
    /\ opaqueTypes' = opaqueTypes \cup {n}
    /\ UNCHANGED <<config, nativeTypes, gathered, outputs, result, history>>

AddConst(n) ==
    /\ Alive
    /\ customConsts' = customConsts \cup {n}
    /\ UNCHANGED <<config, opaqueTypes, nativeTypes, consts, enums, structs, functions,
                   aliases, outputs, result, history>>

-----------------------------------------------------------------------------
(* One item of the crate reaches the session.  Ignored and skipped items and    *)
(* refused ones leave what has been gathered alone.                             *)
Dropped(item) == IsIgnored(item.name) \/ item.shape # "good"

ParseDropped(item) ==
    /\ Alive /\ Dropped(item)
    /\ result' = IF ~IsIgnored(item.name) /\ item.shape = "bad" THEN "err" ELSE "ok"
    /\ UNCHANGED <<config, opaqueTypes, nativeTypes, gathered, outputs, history>>

Accepts(item, kind) ==
    /\ Alive /\ item.kind = kind /\ ~Dropped(item)
    /\ result' = "ok"

Snip(item) == [id |-> nextId, kind |-> item.kind, name |-> item.name, types |-> item.types]

Number ==
    /\ nextId <= MaxSnippets
    /\ nextId' = nextId + 1
    /\ UNCHANGED <<rendered, lost, marked, finalised>>

ParseTy(item) ==
    /\ Accepts(item, "type")
    /\ aliases' = [n \in DOMAIN aliases \cup {item.name} |->
                      IF n = item.name THEN item.types[1] ELSE aliases[n]]
    /\ UNCHANGED <<config, opaqueTypes, nativeTypes, customConsts, consts, enums,
                   structs, functions, outputs, history>>

ParseConst(item) ==
    /\ Accepts(item, "const") /\ Number
    /\ consts' = Append(consts, Snip(item))
    /\ UNCHANGED <<config, opaqueTypes, nativeTypes, customConsts, enums,
                   structs, functions, aliases, outputs>>

ParseEnum(item) ==
    /\ Accepts(item, "enum") /\ Number
    /\ enums' = Append(enums, Snip(item))
    /\ UNCHANGED <<config, opaqueTypes, nativeTypes, customConsts, consts,
                   structs, functions, aliases, outputs>>

ParseStruct(item) ==
    /\ Accepts(item, "struct") /\ Number
    /\ structs' = Append(structs, Snip(item))
    /\ nativeTypes' = ResolveNative(nativeTypes, structs')
    /\ UNCHANGED <<config, opaqueTypes, customConsts, consts, enums,
                   functions, aliases, outputs>>

ParseFn(item) ==
    /\ Accepts(item, "fn") /\ Number
    /\ functions' = Append(functions, Snip(item))
    /\ UNCHANGED <<config, opaqueTypes, nativeTypes, customConsts, consts, enums,
                   structs, aliases, outputs>>

-----------------------------------------------------------------------------
(* finalise_output.  Each section is rendered under its condition and inserted  *)
(* under its path, in this order; an insertion replaces what the path held.     *)
Rendering(s, decls) ==
    [section |-> s, class |-> section[s].class, decls |-> decls, customs |-> {},
     wrapped |-> {}, delegates |-> {}, native |-> nativeTypes, opaque |-> opaqueTypes]

Insert(out, cond, file) ==
    IF cond
    THEN LET path == section[file.section].path
         IN  [p \in DOMAIN out \cup {path} |-> IF p = path THEN file ELSE out[p]]
    ELSE out

InterfaceIds(fs) == {fs[i].id : i \in {j \in DOMAIN fs : IsInterfaceFunction(fs[j])}}

FunctionsFile(fs) == [Rendering("functions", fs) EXCEPT !.wrapped = InterfaceIds(fs),
                                                        !.delegates = CollectCallbacks(fs)]
(* Mutant: the interface does not honour the blacklist. *)
InterfaceFileAll(fs) == [Rendering("interface", <<>>) EXCEPT !.wrapped = Ids(fs)]
InterfaceFile(fs) == [Rendering("interface", <<>>) EXCEPT !.wrapped = InterfaceIds(fs)]
ConstsFile(cs) == [Rendering("consts", cs) EXCEPT !.customs = customConsts]
(* Mutant: the structs are forgotten. *)
TypesFileEnums(ss) == Rendering("types", enums)
TypesFile(ss) == Rendering("types", enums \o ss)
UtilsFile == Rendering("utils", <<>>)

ConstsRendered == "consts" \in enabled /\ (consts # <<>> \/ customConsts # {})
TypesRendered == "types" \in enabled /\ (enums # <<>> \/ structs # <<>>)

(* Mutant: constants are drained whether or not they are rendered. *)
ConstsKeptNever(cs) == <<>>

(* What a section that is not rendered had gathered waits for a later call; the *)
(* structs always stay.                                                         *)
ConstsKept(cs) == IF ConstsRendered THEN <<>> ELSE cs
EnumsKept == IF TypesRendered THEN <<>> ELSE enums

(* The sections are rendered and inserted, until `done' have been: the functions *)
(* and the interface always come first, and leave the session with them.          *)
RenderSections(done) ==
    LET cs == ResolveAliases(aliases, consts)
        ss == ResolveAliases(aliases, structs)
        fs == ResolveAliases(aliases, functions)
        o1 == Insert(outputs, fs # <<>>, FunctionsFile(fs))
        o2 == Insert(o1, InterfaceIds(fs) # {}, InterfaceFile(fs))
        o3 == Insert(o2, ConstsRendered /\ "consts" \in done, ConstsFile(cs))
        o4 == Insert(o3, TypesRendered /\ "types" \in done, TypesFile(ss))
        o5 == Insert(o4, "utils" \in enabled \cap done, UtilsFile)
    IN  /\ Alive /\ finalised < MaxFinalise
        /\ ~FunctionsUnsupported(fs)
        /\ outputs' = o5
        /\ rendered' = rendered \cup UNION {Ids(o5[p].decls) : p \in DOMAIN o5}
        /\ functions' = <<>>
        /\ structs' = ss
        /\ finalised' = finalised + 1
        /\ UNCHANGED <<config, aliases, nextId>>

ConstsPanic == ConstsRendered /\ ConstsUnsupported(ResolveAliases(aliases, consts))
TypesPanic == TypesRendered /\ StructsUnsupported(ResolveAliases(aliases, structs))

FinaliseOutput ==
    /\ ~ConstsPanic /\ ~TypesPanic
    /\ RenderSections({"consts", "types", "utils"})
    /\ consts' = ConstsKept(ResolveAliases(aliases, consts))
    /\ customConsts' = IF ConstsRendered THEN {} ELSE customConsts
    /\ enums' = EnumsKept
    /\ opaqueTypes' = {} /\ nativeTypes' = {}
    /\ result' = "ok"
    /\ marked' = Len(structs)
    /\ UNCHANGED lost

(* A panic while the functions are rendered comes before anything is inserted.  *)
FinalisePanics ==
    /\ Alive /\ finalised < MaxFinalise
    /\ FunctionsUnsupported(ResolveAliases(aliases, functions))
    /\ consts' = ResolveAliases(aliases, consts)
    /\ structs' = ResolveAliases(aliases, structs)
    /\ functions' = ResolveAliases(aliases, functions)
    /\ result' = "panic"
    /\ finalised' = finalised + 1
    /\ UNCHANGED <<config, opaqueTypes, nativeTypes, customConsts, enums, aliases,
                   outputs, nextId, rendered, lost, marked>>

(* One while the constants or the types are comes when the constants or the     *)
(* enums have been drained for a file that is never inserted.                   *)
FinaliseLosesConsts ==
    /\ ConstsPanic
    /\ RenderSections({})
    /\ consts' = <<>> /\ lost' = lost \cup Ids(consts)
    /\ result' = "panic"
    /\ UNCHANGED <<opaqueTypes, nativeTypes, customConsts, enums, marked>>

FinaliseLosesEnums ==
    /\ ~ConstsPanic /\ TypesPanic
    /\ RenderSections({"consts"})
    /\ consts' = ConstsKept(ResolveAliases(aliases, consts))
    /\ customConsts' = IF ConstsRendered THEN {} ELSE customConsts
    /\ enums' = <<>> /\ lost' = lost \cup Ids(enums)
    /\ result' = "panic"
    /\ UNCHANGED <<opaqueTypes, nativeTypes, marked>>

(* The script starts the next build with an empty map (Bindgen::run_build). *)
FreshOutputs ==
    /\ Alive /\ outputs # <<>>
    /\ outputs' = <<>>
    /\ UNCHANGED <<config, opaqueTypes, nativeTypes, gathered, result, history>>

Configure ==
    \/ \E n \in FilterName : Filter(n)
    \/ FilterName # {} /\ \E m \in {"blacklist", "whitelist"} : ResetFilter(m)
    \/ \E n \in BlacklistName : BlacklistWrapperFunction(n)
    \/ ResetWrapperFunctionBlacklist
    \/ \E s \in Toggle, on \in BOOLEAN : SetEnabled(s, on)
    \/ \E c \in SectionChoice : SetSection(c)
    \/ \E n \in LibName : SetLibName(n)
    \/ \E n \in OpaqueName : AddOpaqueType(n)
    \/ \E n \in CustomName : AddConst(n)

Parse ==
    \E item \in Crate :
        \/ ParseDropped(item)
        \/ ParseTy(item)
        \/ ParseConst(item)
        \/ ParseEnum(item)
        \/ ParseStruct(item)
        \/ ParseFn(item)

Next == \/ Configure \/ Parse \/ FreshOutputs
        \/ FinaliseOutput \/ FinalisePanics \/ FinaliseLosesConsts \/ FinaliseLosesEnums

Spec == Init /\ [][Next]_vars

-----------------------------------------------------------------------------
ConfigTypeOK ==
    /\ filter \subseteq Name /\ filterMode \in {"blacklist", "whitelist"}
    /\ wrapperBlacklist \subseteq Name
    /\ enabled \subseteq {"consts", "types", "utils"}
    /\ section \in [Section -> [path : Path, class : Class]]
    /\ libName \in Class
GatheredTypeOK ==
    /\ customConsts \subseteq Name
    /\ consts \in Seq(Snippet) /\ enums \in Seq(Snippet)
    /\ structs \in Seq(Snippet) /\ functions \in Seq(Snippet)
    /\ DOMAIN aliases \subseteq Name /\ aliases \in [DOMAIN aliases -> Type]
OutputsType(out) == DOMAIN out \subseteq Path /\ out \in [DOMAIN out -> File]
TypeOK ==
    /\ ConfigTypeOK /\ GatheredTypeOK /\ OutputsType(outputs)
    /\ opaqueTypes \subseteq Name /\ nativeTypes \subseteq Name
    /\ result \in {"ok", "err", "panic"}
    /\ nextId \in Nat /\ rendered \cup lost \subseteq Nat
    /\ marked \in 0..Len(structs) /\ finalised \in Nat

(* The incremental marking of parse_struct never goes stale between two calls of *)
(* finalise_output: once a struct has been accepted, the native set is the least *)
(* set closed under "has a dynamic array or a native field" over ALL structs the *)
(* session holds, those kept from earlier builds and renamed by aliases included,*)
(* although finalise_output empties the set and the marking starts over from     *)
(* nothing with the next struct.  Without a new struct the set stays empty.      *)
NativeIsLeast ==
    Alive => nativeTypes = IF Len(structs) > marked THEN ResolveNative({}, structs) ELSE {}

Pending == [consts |-> Ids(consts), enums |-> Ids(enums), functions |-> Ids(functions)]

Displayed == UNION {Ids(outputs[p].decls) : p \in DOMAIN outputs}

Ledger == INSTANCE LangLedger
          WITH Batch <- {"consts", "enums", "functions"}, next <- nextId,
               pending <- Pending, kept <- Ids(structs), files <- Displayed,
               shown <- rendered, broken <- ~Alive

(* Whatever order of parsing, disabling sections and finalising the script       *)
(* chooses, what leaves the session is in the files it leaves for, no section's  *)
(* file is replaced by that of another, and constants, enums and functions that  *)
(* have been in the files are not put there again: a disabled section waits.     *)
(* Only a panic takes something away that has not been in the files, at most the *)
(* constants or the enums, and nothing more comes of the session.                *)
KeepsLedger == Ledger!Spec

(* So every accepted item is in the files, was, or is held for a later call, as    *)
(* long as the session lives; when it has panicked, or was lost by the panic.     *)
NothingLost == Ledger!Accounted

Files(s) == {outputs[p] : p \in {p \in DOMAIN outputs : outputs[p].section = s}}

(* Whatever a rendered function refers to for its callbacks is rendered with it: *)
(* the delegate its extern declaration names, and the static method its wrapper  *)
(* passes, which exists only if some function has that callback as its only one. *)
CallbacksDefined ==
    \A f \in Files("functions") : \A i \in DOMAIN f.decls :
        \A j \in Callbacks(f.decls[i]) : \E d \in f.delegates :
            /\ d.name = DelegateName(f.decls[i].types[j].args)
            /\ f.decls[i].id \in f.wrapped => d.single

(* The class and the interface agree: where the functions file has wrappers, the *)
(* interface file declares exactly those functions, also when a later build into *)
(* the same outputs wraps others than the earlier one did.                       *)
InterfaceMatchesClass ==
    \A f \in Files("functions") :
        f.wrapped # {} => \E g \in Files("interface") : g.wrapped = f.wrapped

(* No rendered type is an alias name, whatever chain of aliases led to it and    *)
(* wherever the aliases stood in the source, except one that an alias hides      *)
(* behind a pointer or an array: resolve_alias does not look into what it has    *)
(* substituted.                                                                  *)
HiddenAlias(n) == \E a \in DOMAIN aliases : aliases[a].wraps # <<>> /\ aliases[a].base = n
AliasFree(file) ==
    \A i \in DOMAIN file.decls : \A j \in DOMAIN file.decls[i].types :
        LET t == file.decls[i].types[j]
        IN  /\ t.base \in DOMAIN aliases => HiddenAlias(t.base)
            /\ \A k \in DOMAIN t.args :
                  t.args[k].base \in DOMAIN aliases => HiddenAlias(t.args[k].base)
NoAliasRendered ==
    [][\A p \in DOMAIN outputs' :
          p \notin DOMAIN outputs \/ outputs'[p] # outputs[p] => AliasFree(outputs'[p])]_vars

(* As long as finalise_output returns, a wrapper that converts a parameter with  *)
(* XNative uses a struct that the types file of the same outputs renders together *)
(* with its native twin.                                                          *)
NativeNamesDefined ==
    Alive => \A f \in Files("functions") : \A i \in DOMAIN f.decls : \A j \in DOMAIN f.decls[i].types :
        IsNativeType(f.native, f.decls[i].types[j]) =>
            \E g \in Files("types") : \E k \in DOMAIN g.decls :
                /\ g.decls[k].kind = "struct"
                /\ g.decls[k].name = f.decls[i].types[j].base
                /\ g.decls[k].name \in g.native

(* "check it one of its fields is native, and if it is, mark the struct as       *)
(* native" (src/src/csharp/mod.rs:263): a struct rendered without a native twin  *)
(* has no dynamic array and no native field.                                     *)
LayoutAgrees ==
    \A g \in Files("types") : \A k \in DOMAIN g.decls :
        g.decls[k].kind = "struct" /\ NeedsNative(g.native, g.decls[k])
            => g.decls[k].name \in g.native

-----------------------------------------------------------------------------
(* What carries the proofs.  A section's file is under one of its paths, and what    *)
(* is gathered keeps its number.                                                     *)
SectionInv == \A p \in DOMAIN outputs : p \in PathsOf(outputs[p].section)
UniqueInv == \A i, j \in DOMAIN functions : functions[i].id = functions[j].id => i = j

(* The delegates of a file are those of the functions in it; what has a wrapper has   *)
(* at most one callback.                                                             *)
DelegateInv ==
    \A f \in Files("functions") :
        /\ f.delegates = CollectCallbacks(f.decls)
        /\ \A i \in DOMAIN f.decls :
             f.decls[i].id \in f.wrapped => Cardinality(Callbacks(f.decls[i])) <= 1

(* Until finalise_output renames them structs bear the names they have in the crate,  *)
(* and aliases always stand for what the crate says.                                 *)
OriginInv ==
    /\ finalised = 0 => outputs = <<>> /\ marked = 0
    /\ finalised = 0 => \A i \in DOMAIN structs :
         structs[i].kind = "struct" /\ \E item \in Crate :
             item.kind = "struct" /\ item.name = structs[i].name
    /\ \A i \in DOMAIN enums : enums[i].kind = "enum" /\ enums[i].types = <<>>
    /\ \A a \in DOMAIN aliases : \E item \in Crate :
         item.kind = "type" /\ item.name = a /\ item.types[1] = aliases[a]
=============================================================================
