------------------------------ MODULE JavaGen ------------------------------
(***************************************************************************)
(* The Java back end (LangJava, src/src/java/mod.rs and jni.rs) in the hands *)
(* of Bindgen::compile: one LangJava and a map of virtual files take the     *)
(* public items of one crate after the other, and are finalised when the     *)
(* caller asks for it.  Unlike the C# back end this one writes to the map    *)
(* while it parses; beside the map it remembers the JNI callbacks that it    *)
(* has generated.                                                            *)
(***************************************************************************)
EXTENDS Naturals, Sequences, FiniteSets

CONSTANTS
    Crates,     \* the sequences of items that a compilation may be given
    FnName,     \* native functions
    ClassName,  \* Java classes and interfaces
    CbType,     \* C types of callbacks
    Interface(_), \* the name that callback_name makes of one
    NoSignature,  \* those for which rust_ty_to_signature has no answer
    MaxBuilds     \* bound: compilations in a session

(* An argument is a callback, something else, or of a type that rust_to_java       *)
(* refuses.                                                                        *)
Arg == [kind : {"callback"}, type : CbType] \cup [kind : {"plain", "bad"}]

(* Exported: #[no_mangle] and extern "C", or #[repr(C)].  A struct has named        *)
(* fields, or is a newtype, or is refused (generic, a tuple, an unknown type).      *)
Item == [kind : {"fn"}, name : FnName, exported : BOOLEAN,
         outcome : {"ok", "generic", "never"}, args : Seq(Arg)]
        \cup [kind : {"struct"}, name : ClassName, exported : BOOLEAN,
              shape : {"fields", "newtype", "refused"}]

ASSUME CratesAssumption == Crates \subseteq Seq(Item)
ASSUME InterfaceAssumption == \A t \in CbType : Interface(t) \in ClassName
ASSUME MaxBuildsAssumption == MaxBuilds \in Nat

VARIABLES
    pc,
    crate,      \* history: the items of this compilation
    items,      \* items of the crate still to be dispatched
    args,       \* arguments of the current function still to be transformed
    failed,     \* the compilation has met an error
    finalise,   \* the flag of this compilation
    defined,    \* jni.rs: its callbacks, each with the place it was generated for
    code,       \* jni.rs: its bindings
    converted,  \* jni.rs: the structs it converts
    bindings,   \* NativeBindings.java: its declarations
    headers,    \* NativeBindings.java: how often it was made a class
    classes,    \* the other files: the package of each
    generated,  \* Context.generated_jni_cbs
    elsewhere,  \* history: callbacks that were generated into an earlier map
    builds      \* compilations so far

rust == <<defined, code, converted>>
java == <<bindings, headers>>
outputs == <<rust, java, classes>>
session == <<crate, finalise, elsewhere, builds>>
vars == <<pc, session, items, args, failed, outputs, generated>>

(* A callback bears the name of its interface, or that of its function and its      *)
(* index among several; callers name what they call the same way.                   *)
CbName == [base : ClassName \cup FnName, idx : Nat]
Use == [name : CbName, type : CbType]
Definition == [name : CbName, type : CbType, at : Nat \X Nat]
Binding == [name : FnName, uses : SUBSET Use]

NoClass == [c \in {} |-> "model"]

Init ==
    /\ pc = "idle" /\ crate = <<>> /\ items = <<>> /\ args = <<>>
    /\ failed = FALSE /\ finalise \in BOOLEAN
    /\ defined = {} /\ code = <<>> /\ converted = {}
    /\ bindings = <<>> /\ headers = 0 /\ classes = NoClass
    /\ generated = {} /\ elsewhere = {} /\ builds = 0

-----------------------------------------------------------------------------
(* compile, over the map of the last compilation or, as run_build does it, over an *)
(* empty one.                                                                      *)
Compile(empty) ==
    /\ pc \in {"idle", "compiled", "finalised"}
    /\ builds < MaxBuilds
    /\ crate' \in Crates /\ items' = crate' /\ finalise' \in BOOLEAN
    /\ pc' = "items" /\ args' = <<>> /\ failed' = FALSE
    /\ IF empty
       THEN /\ defined' = {} /\ code' = <<>> /\ converted' = {}
            /\ bindings' = <<>> /\ headers' = 0 /\ classes' = NoClass
       ELSE UNCHANGED outputs
    /\ elsewhere' = IF empty THEN generated ELSE elsewhere
    /\ builds' = builds + 1
    /\ UNCHANGED generated

Ignored(i) == ~i.exported

Ignore ==
    /\ pc = "items" /\ items # <<>> /\ Ignored(Head(items))
    /\ items' = Tail(items)
    /\ UNCHANGED <<pc, args, failed, session, outputs, generated>>

(* parse_struct: the class goes to the package of the bindings. *)
Put(class, package) ==
    classes' = [c \in DOMAIN classes \cup {class} |-> IF c = class THEN package ELSE classes[c]]

(* Mutant: jni.rs is inserted and not appended to. *)
ConversionsOver(i) == IF i.shape = "fields" THEN {i.name} ELSE converted

(* generate_struct and append_output: a newtype has no conversions. *)
Conversions(i) == IF i.shape = "fields" THEN converted \cup {i.name} ELSE converted

ParseStruct ==
    /\ pc = "items" /\ items # <<>>
    /\ LET i == Head(items)
       IN  /\ i.kind = "struct" /\ ~Ignored(i)
           /\ IF i.shape = "refused"
              THEN failed' = TRUE /\ UNCHANGED outputs
              ELSE /\ converted' = Conversions(i)
                   /\ Put(i.name, "bindings")
                   /\ UNCHANGED <<defined, code, java, failed>>
    /\ items' = Tail(items)
    /\ UNCHANGED <<pc, args, session, generated>>

(* parse_fn hands over to transform_native_fn. *)
ParseFn ==
    /\ pc = "items" /\ items # <<>>
    /\ LET i == Head(items)
       IN  /\ i.kind = "fn" /\ ~Ignored(i)
           /\ IF i.outcome = "generic"
              THEN failed' = TRUE /\ items' = Tail(items) /\ UNCHANGED <<pc, args>>
              ELSE pc' = "args" /\ args' = i.args /\ UNCHANGED <<failed, items>>
    /\ UNCHANGED <<session, outputs, generated>>

(* Mutant: the declaration has been put out before. *)
AbandonLate ==
    /\ failed' = TRUE /\ pc' = "items" /\ items' = Tail(items) /\ args' = <<>>
    /\ bindings' = Append(bindings, Head(items).name)
    /\ UNCHANGED <<session, rust, headers, classes, generated>>

Abandon ==
    /\ failed' = TRUE /\ pc' = "items" /\ items' = Tail(items) /\ args' = <<>>
    /\ UNCHANGED <<session, outputs, generated>>

(* An argument that is refused ends the function, not what it has put out so far.   *)
RefuseArg ==
    /\ pc = "args" /\ args # <<>> /\ Head(args).kind = "bad"
    /\ Abandon

PlainArg ==
    /\ pc = "args" /\ args # <<>> /\ Head(args).kind = "plain"
    /\ args' = Tail(args)
    /\ UNCHANGED <<pc, items, failed, session, outputs, generated>>

(* The place is that of an argument of the function that is being transformed. *)
Callback(use, n) == [name |-> use.name, type |-> use.type, at |-> <<Len(code), n>>]

(* The interface is the sign that the JNI callback may have to be generated. *)
CallbackArg ==
    /\ pc = "args" /\ args # <<>> /\ Head(args).kind = "callback"
    /\ LET t == Head(args).type
           class == Interface(t)
           use == [name |-> [base |-> class, idx |-> 0], type |-> t]
       IN  IF class \in DOMAIN classes
           THEN pc' = pc /\ UNCHANGED <<outputs, generated>>
           ELSE /\ Put(class, "model")
                /\ UNCHANGED <<code, converted, java>>
                /\ IF use.name \in generated
                   THEN pc' = pc /\ UNCHANGED <<defined, generated>>
                   ELSE IF t \in NoSignature
                        THEN pc' = "panicked" /\ UNCHANGED <<defined, generated>>
                        ELSE /\ defined' = defined \cup {Callback(use, Len(args))}
                             /\ generated' = generated \cup {use.name}
                             /\ pc' = pc
    /\ args' = Tail(args)
    /\ UNCHANGED <<items, failed, session>>

CallbacksOf(fn) == {n \in DOMAIN fn.args : fn.args[n].kind = "callback"}
Index(fn, n) == Cardinality({m \in CallbacksOf(fn) : m <= n})

(* call_<interface> for one callback, call_<function>_<index> for each of several. *)
UseOf(fn, n) ==
    [name |-> IF CallbacksOf(fn) = {n} THEN [base |-> Interface(fn.args[n].type), idx |-> 0]
                                       ELSE [base |-> fn.name, idx |-> Index(fn, n)],
     type |-> fn.args[n].type]

(* Mutant: generated_jni_cbs is not asked. *)
MultiCallbacksAgain(fn) == {n \in CallbacksOf(fn) : CallbacksOf(fn) # {n}}

MultiCallbacks(fn) ==
    {n \in CallbacksOf(fn) : CallbacksOf(fn) # {n} /\ UseOf(fn, n).name \notin generated}

(* Mutant: all are generated from the first. *)
MultiFirst(fn) ==
    LET first == CHOOSE n \in CallbacksOf(fn) : Index(fn, n) = 1
    IN  {Callback([UseOf(fn, n) EXCEPT !.type = fn.args[first].type], n) : n \in MultiCallbacks(fn)}

Multi(fn) == {Callback(UseOf(fn, n), n) : n \in MultiCallbacks(fn)}

(* The declaration, then generate_jni_function: the callbacks that only this        *)
(* function has, then the binding.                                                  *)
FinishFn ==
    /\ pc = "args" /\ args = <<>>
    /\ LET fn == Head(items)
       IN  IF fn.outcome = "never"
           THEN Abandon
           ELSE /\ bindings' = Append(bindings, fn.name)
                /\ IF \E d \in Multi(fn) : d.type \in NoSignature
                   THEN pc' = "panicked" /\ UNCHANGED <<rust, generated, items>>
                   ELSE /\ defined' = defined \cup Multi(fn)
                        /\ code' = Append(code, [name |-> fn.name,
                                        uses |-> {UseOf(fn, n) : n \in CallbacksOf(fn)}])
                        /\ generated' = generated \cup {d.name : d \in Multi(fn)}
                        /\ pc' = "items" /\ items' = Tail(items)
                        /\ UNCHANGED converted
                /\ UNCHANGED <<args, failed, session, headers, classes>>

(* The end of compile: the errors are returned before anything is finalised.        *)
EndCompile ==
    /\ pc = "items" /\ items = <<>>
    /\ IF failed \/ ~finalise
       THEN pc' = "compiled" /\ UNCHANGED <<headers, failed>>
       ELSE IF bindings = <<>> \/ (defined = {} /\ code = <<>> /\ converted = {})
            THEN pc' = "compiled" /\ failed' = TRUE /\ UNCHANGED headers
            ELSE pc' = "finalised" /\ headers' = headers + 1 /\ UNCHANGED failed
    /\ UNCHANGED <<items, args, session, rust, bindings, classes, generated>>

Next ==
    \/ \E empty \in BOOLEAN : Compile(empty)
    \/ Ignore \/ ParseStruct \/ ParseFn
    \/ RefuseArg \/ PlainArg \/ CallbackArg \/ FinishFn \/ EndCompile

Spec == Init /\ [][Next]_vars

-----------------------------------------------------------------------------
FilesOK ==
    /\ defined \subseteq Definition /\ code \in Seq(Binding) /\ converted \subseteq ClassName
    /\ bindings \in Seq(FnName) /\ headers \in Nat
    /\ DOMAIN classes \subseteq ClassName
    /\ \A c \in DOMAIN classes : classes[c] \in {"model", "bindings"}
QueueOK ==
    /\ crate \in Seq(Item) /\ items \in Seq(Item) /\ args \in Seq(Arg)
    /\ pc = "args" => items # <<>> /\ Head(items).kind = "fn"

TypeOK ==
    /\ pc \in {"idle", "items", "args", "compiled", "finalised", "panicked"}
    /\ failed \in BOOLEAN /\ finalise \in BOOLEAN
    /\ generated \subseteq CbName /\ elsewhere \subseteq CbName /\ builds \in 0..MaxBuilds
    /\ QueueOK /\ FilesOK

AtRest == pc \in {"idle", "compiled", "finalised"}

Definitions(n) == {d \in defined : d.name = n}

(* Every JNI callback that a binding names is defined in jni.rs, and only once,      *)
(* whichever functions shared it, in this compilation or an earlier one, and         *)
(* whichever functions were given up half way.  The exception is a LangJava that     *)
(* starts on a new map: what it generated into the old one is missing in the new,    *)
(* because nothing clears generated_jni_cbs.                                         *)
CallbacksDefinedOnce ==
    AtRest =>
        \A b \in DOMAIN code : \A use \in code[b].uses :
            IF use.name \in elsewhere THEN Definitions(use.name) = {}
                                      ELSE Cardinality(Definitions(use.name)) = 1

(* The callback that a binding passes has the C type the native function asks for,   *)
(* or at least one with the same Java interface (callback_name does not tell u32     *)
(* from i32): the numbering of several callbacks in the call and in their            *)
(* definitions agree.  Functions that come twice with different callbacks are left   *)
(* out: no library has two symbols of one name.                                      *)
OneSignature(b) ==
    \A c \in DOMAIN code : code[c].name = code[b].name => code[c].uses = code[b].uses

CallbackFitsItsUse ==
    AtRest =>
        \A b \in {c \in DOMAIN code : OneSignature(c)} :
            \A use \in code[b].uses : \A d \in Definitions(use.name) :
                Interface(d.type) = Interface(use.type)

(* A Java declaration and the native code behind it come in pairs, in one order.     *)
DeclarationsMatchBindings ==
    AtRest =>
        Len(bindings) = Len(code) /\ \A i \in DOMAIN bindings : bindings[i] = code[i].name

(* An item is there: the class of a struct and, unless it is a newtype, its           *)
(* conversions in jni.rs; the declaration of a function, its binding in jni.rs and    *)
(* the interfaces of its callbacks.                                                  *)
Present(i) ==
    IF i.kind = "struct"
    THEN i.name \in DOMAIN classes /\ (i.shape = "fields" => i.name \in converted)
    ELSE /\ \E j \in DOMAIN bindings : bindings[j] = i.name
         /\ \E j \in DOMAIN code : code[j].name = i.name
         /\ \A a \in DOMAIN i.args : i.args[a].kind = "callback" =>
                                       Interface(i.args[a].type) \in DOMAIN classes

(* What is finalised is whole: each exported item of the crate is there, in Java and  *)
(* in jni.rs.                                                                        *)
FinalisedIsComplete ==
    pc = "finalised" =>
        \A i \in DOMAIN crate : crate[i].exported => Present(crate[i])

-----------------------------------------------------------------------------
(* What carries the proofs.  No struct has the name of a callback's interface: if    *)
(* one had, its class would pass for the interface, and the callback would be left   *)
(* out.                                                                              *)
NamesApart ==
    \A c \in Crates : \A i \in DOMAIN c : c[i].kind = "struct" =>
        \A t \in CbType : c[i].name # Interface(t)

(* The function that is being transformed and the arguments it has left.             *)
ArgsInv ==
    /\ \A i \in DOMAIN items : \E c \in Crates : \E j \in DOMAIN c : items[i] = c[j]
    /\ pc = "args" =>
          LET given == Head(items).args
              done == Len(given) - Len(args)
          IN  /\ done \in Nat
              /\ \A n \in DOMAIN args : args[n] = given[done + n]
              /\ \A n \in 1..done : given[n].kind = "callback" =>
                                      Interface(given[n].type) \in DOMAIN classes

(* generated_jni_cbs is what jni.rs defines, but for what went into an earlier map;  *)
(* it holds what the interfaces stand for and what the bindings use.                 *)
GeneratedInv ==
    pc # "panicked" =>
        /\ elsewhere \subseteq generated
        /\ \A d \in defined : d.name \in generated \ elsewhere
        /\ \A d, e \in defined : d.name = e.name => d = e
        /\ \A n \in generated \ elsewhere : \E d \in defined : d.name = n
        /\ \A t \in CbType : Interface(t) \in DOMAIN classes =>
               [base |-> Interface(t), idx |-> 0] \in generated
        /\ \A b \in DOMAIN code : \A use \in code[b].uses : use.name \in generated

(* What compile has been through so far is there, unless it has met an error.        *)
ProgressInv ==
    /\ pc \in {"items", "args"} =>
          LET done == Len(crate) - Len(items)
          IN  /\ done \in Nat
              /\ \A n \in DOMAIN items : items[n] = crate[done + n]
              /\ ~failed => \A i \in 1..done : crate[i].exported => Present(crate[i])
    /\ pc = "finalised" => \A i \in DOMAIN crate : crate[i].exported => Present(crate[i])

(* A name says what it stands for: an interface, or a place among the callbacks of a *)
(* function that has a binding.                                                      *)
FitsInv ==
    /\ \A b \in DOMAIN code : \A use \in code[b].uses :
          /\ use.name.base = IF use.name.idx = 0 THEN Interface(use.type) ELSE code[b].name
          /\ \A other \in code[b].uses : other.name = use.name => Interface(other.type) = Interface(use.type)
    /\ \A d \in defined :
          IF d.name.idx = 0
          THEN Interface(d.type) = d.name.base
          ELSE \E b \in DOMAIN code : /\ code[b].name = d.name.base
                                      /\ [name |-> d.name, type |-> d.type] \in code[b].uses

PairedInv ==
    pc # "panicked" =>
        Len(bindings) = Len(code) /\ \A i \in DOMAIN bindings : bindings[i] = code[i].name
=============================================================================
