------------------------------ MODULE JniParams ------------------------------
(***************************************************************************)
(* How the parameters of a native function, or of a callback that it takes,  *)
(* cross JNI.  For a function: transform_native_fn (src/src/java/mod.rs)     *)
(* declares a Java method, generate_jni_function (src/src/java/jni.rs) the    *)
(* Rust function the JVM calls for it, which calls the native one.  For a    *)
(* callback: callback_to_java declares the method of the Java interface,     *)
(* generate_callback the parameters of the handler that is passed to the     *)
(* native library and the signature under which it looks up that method.     *)
(* Each pair is two loops over one list, which nothing compares.             *)
(***************************************************************************)
EXTENDS Naturals, Sequences

CONSTANTS
    Lists,   \* the lists of parameters to try
    TypeMaps \* Context.type_map to try: Rust types and the Java types they become

Opaque == {"App", "Authenticator"}
Base == {"u8", "usize", "bool", "f64", "c_char", "c_void", "FfiResult", "Struct", "callback"} \cup Opaque

(* A name is told apart by what is_user_data_arg, is_result_arg and is_ptr_len_arg  *)
(* look for; "len" stands for the names that is_ptr_len_arg takes.                  *)
Param == {p \in [name : {"user_data", "result", "len", "other"}, wrap : {"none", "const", "mut"}, base : Base] :
            p.base = "callback" => p.wrap = "none"}

(* A Java type, with the dimensions of an array. *)
JavaTy(elem, dims) == [elem |-> elem, dims |-> dims]
ArrayTy(t) == [t EXCEPT !.dims = @ + 1]

ASSUME ListsAssumption == Lists \subseteq Seq(Param)
(* The map gives a struct or an opaque pointer a primitive type or an array of them. *)
ASSUME TypeMapsAssumption ==
    \A map \in TypeMaps :
        /\ DOMAIN map \subseteq Opaque \cup {"Struct"}
        /\ map \in [DOMAIN map -> [elem : {"byte", "int", "long", "boolean", "double"}, dims : Nat]]

VARIABLES
    typeMap,   \* the map of the session
    role,      \* "function" or "callback"
    params,    \* the parameters of one or of the other
    pc,
    next,      \* the parameters that the loop has taken are before this place
    java,      \* the Java method's parameters: what each is of, and its type
    inputs,    \* parameters of the Rust function that is generated
    call,      \* arguments it passes on: to the native function, or to Java
    callbacks, \* places of a function's callbacks
    signature  \* types in the signature of `call`, and of the values it gets

vars == <<typeMap, role, params, pc, next, java, inputs, call, callbacks, signature>>

-----------------------------------------------------------------------------
IsPointer(p) == p.wrap # "none"
IsUserData(p) == p.name = "user_data" /\ p.wrap = "mut" /\ p.base = "c_void"
IsResult(p) == p.name = "result" /\ p.wrap = "const" /\ p.base = "FfiResult"
IsLen(p) == p.name = "len" /\ p.wrap = "none" /\ p.base = "usize"

(* All four loops filter user_data first, so that they look past it for a length. *)
Rest == {i \in DOMAIN params : i >= next /\ ~IsUserData(params[i])}
First(places) == CHOOSE i \in places : \A j \in places : i <= j
Arg == First(Rest)
NextArg == First(Rest \ {Arg})

(* is_array_arg, of the parameter that comes next in the loop *)
IsArray ==
    /\ IsPointer(params[Arg]) /\ ~IsResult(params[Arg])
    /\ Rest # {Arg} /\ IsLen(params[NextArg])

Advance == next' = IF IsArray THEN NextArg + 1 ELSE Arg + 1

Primitive == [b \in {"u8", "usize", "bool", "f64"} |->
                CASE b = "u8" -> "byte" [] b = "usize" -> "long"
                  [] b = "bool" -> "boolean" [] b = "f64" -> "double"]

(* rust_to_java: a pointer is what it points to, but for strings. *)
RustToJava(p) ==
    CASE p.base = "callback" -> JavaTy("interface", 0)
      [] p.base = "c_char" -> JavaTy(IF IsPointer(p) THEN "String" ELSE "byte", 0)
      [] p.base = "c_void" -> JavaTy("void", 0)
      [] p.base \in DOMAIN Primitive -> JavaTy(Primitive[p.base], 0)
      [] p.base \in DOMAIN typeMap -> typeMap[p.base]
      [] OTHER -> JavaTy(p.base, 0)

Declared == IF IsArray THEN ArrayTy(RustToJava(params[Arg])) ELSE RustToJava(params[Arg])

Init ==
    /\ typeMap \in TypeMaps /\ role \in {"function", "callback"} /\ params \in Lists
    /\ pc = "java" /\ next = 1
    /\ java = <<>> /\ inputs = <<>> /\ call = <<>> /\ callbacks = <<>> /\ signature = <<>>

(* Mutant: the length is declared as well. *)
DeclareLength ==
    /\ pc = "java" /\ Rest # {}
    /\ java' = Append(java, [of |-> Arg, type |-> Declared])
    /\ next' = Arg + 1
    /\ UNCHANGED <<typeMap, role, params, pc, inputs, call, callbacks, signature>>

(* The loops of transform_native_fn and callback_to_java. *)
Declare ==
    /\ pc = "java" /\ Rest # {}
    /\ java' = Append(java, [of |-> Arg, type |-> Declared])
    /\ Advance
    /\ UNCHANGED <<typeMap, role, params, pc, inputs, call, callbacks, signature>>

DeclaredAll ==
    /\ pc = "java" /\ Rest = {}
    /\ pc' = role /\ next' = 1
    /\ UNCHANGED <<typeMap, role, params, java, inputs, call, callbacks, signature>>

-----------------------------------------------------------------------------
(* transform_jni_arg *)
JniInput(p) ==
    IF IsPointer(p)
    THEN CASE p.base = "c_char" -> "JString"
           [] p.base \in Opaque -> "jlong"
           [] OTHER -> "JObject"
    ELSE CASE p.base = "callback" -> "JObject"
           [] p.base \in {"u8", "c_char"} -> "jbyte"
           [] p.base = "usize" -> "jlong"
           [] OTHER -> p.base

Passed(i, how) == [of |-> i, as |-> how]

How(p) ==
    CASE IsPointer(p) /\ p.base \in Opaque -> "opaque"
      [] IsPointer(p) /\ p.base = "c_char" -> "string"
      [] IsPointer(p) /\ p.base \notin Opaque \cup {"c_char"} -> "reference"
      [] OTHER -> "value"

(* An array is passed as pointer and length of the Vec that is made of it; the    *)
(* callbacks wait for the end.                                                    *)
JniArg ==
    /\ pc = "function" /\ Rest # {}
    /\ LET i == Arg
       IN  /\ inputs' = Append(inputs, [of |-> i, type |-> JniInput(params[i])])
           /\ call' = CASE IsArray -> call \o <<Passed(i, "pointer"), Passed(NextArg, "length")>>
                        [] ~IsArray /\ params[i].base = "callback" -> call
                        [] OTHER -> Append(call, Passed(i, How(params[i])))
           /\ callbacks' = IF params[i].base = "callback" THEN Append(callbacks, i) ELSE callbacks
    /\ Advance
    /\ UNCHANGED <<typeMap, role, params, pc, java, signature>>

Ctx == Passed(0, "ctx")
Handlers == [n \in DOMAIN callbacks |-> Passed(callbacks[n], "handler")]

(* Mutant: the context comes last. *)
JniFunctionCtxLast ==
    /\ pc = "function" /\ Rest = {}
    /\ call' = IF callbacks = <<>> THEN call ELSE call \o Append(Handlers, Ctx)
    /\ pc' = "done"
    /\ UNCHANGED <<typeMap, role, params, next, java, inputs, callbacks, signature>>

(* gen_ctx! puts the callbacks into one box, which is passed before their handlers. *)
JniFunction ==
    /\ pc = "function" /\ Rest = {}
    /\ call' = IF callbacks = <<>> THEN call ELSE call \o <<Ctx>> \o Handlers
    /\ pc' = "done"
    /\ UNCHANGED <<typeMap, role, params, next, java, inputs, callbacks, signature>>

-----------------------------------------------------------------------------
(* rust_ty_to_signature: java_ty_to_signature knows two of the types of the map.  *)
Signature(p) ==
    CASE p.base = "callback" -> JavaTy("java/lang/Object", 0)
      [] p.base = "c_char" /\ IsPointer(p) -> JavaTy("String", 0)
      [] p.base = "bool" -> JavaTy("java/lang/Boolean", 0)
      [] p.base \in {"u8", "usize"} -> JavaTy(Primitive[p.base], 0)
      [] p.base \in DOMAIN typeMap /\ typeMap[p.base] \in {JavaTy("long", 0), JavaTy("byte", 1)}
           -> typeMap[p.base]
      [] OTHER -> JavaTy(p.base, 0)

(* Opaque pointers are passed on as jlong, anything else by to_java, which makes  *)
(* what the signature says.                                                       *)
Value(p, type) == IF IsPointer(p) /\ p.base \in Opaque /\ ~IsArray THEN JavaTy("long", 0) ELSE type

(* Mutants: the handler has no parameter for the length; the signature has an      *)
(* element for the array.                                                          *)
CallbackArgNoLength ==
    /\ pc = "callback" /\ Rest # {}
    /\ LET p == params[Arg]
           type == IF IsArray THEN ArrayTy(Signature(p)) ELSE Signature(p)
       IN  /\ inputs' = Append(inputs, Arg)
           /\ signature' = Append(signature, [of |-> Arg, type |-> type, value |-> Value(p, type)])
    /\ call' = Append(call, Passed(Arg, "value"))
    /\ Advance
    /\ UNCHANGED <<typeMap, role, params, pc, java, callbacks>>
CallbackArgElement ==
    /\ pc = "callback" /\ Rest # {}
    /\ LET p == params[Arg]
           type == Signature(p)
       IN  /\ inputs' = inputs \o (IF IsArray THEN <<Arg, NextArg>> ELSE <<Arg>>)
           /\ signature' = Append(signature, [of |-> Arg, type |-> type, value |-> Value(p, type)])
    /\ call' = Append(call, Passed(Arg, "value"))
    /\ Advance
    /\ UNCHANGED <<typeMap, role, params, pc, java, callbacks>>

(* The loop of generate_callback. *)
CallbackArg ==
    /\ pc = "callback" /\ Rest # {}
    /\ LET p == params[Arg]
           type == IF IsArray THEN ArrayTy(Signature(p)) ELSE Signature(p)
       IN  /\ inputs' = inputs \o (IF IsArray THEN <<Arg, NextArg>> ELSE <<Arg>>)
           /\ signature' = Append(signature, [of |-> Arg, type |-> type, value |-> Value(p, type)])
    /\ call' = Append(call, Passed(Arg, "value"))
    /\ Advance
    /\ UNCHANGED <<typeMap, role, params, pc, java, callbacks>>

(* generate_jni_callback and generate_multi_jni_callback put ctx before the inputs. *)
CallbackHandler ==
    /\ pc = "callback" /\ Rest = {}
    /\ inputs' = <<0>> \o inputs
    /\ pc' = "done"
    /\ UNCHANGED <<typeMap, role, params, next, java, call, callbacks, signature>>

Next == Declare \/ DeclaredAll \/ JniArg \/ JniFunction \/ CallbackArg \/ CallbackHandler

Spec == Init /\ [][Next]_vars

-----------------------------------------------------------------------------
Done(r) == pc = "done" /\ role = r

(* The parameters that a Java caller sees, in order: neither user data nor lengths  *)
(* that follow a pointer.                                                           *)
LengthOf(i, j) ==
    /\ i < j /\ \A n \in (i + 1)..(j - 1) : IsUserData(params[n])
    /\ IsPointer(params[i]) /\ ~IsUserData(params[i]) /\ ~IsResult(params[i]) /\ IsLen(params[j])
IsSized(i) == \E j \in DOMAIN params : LengthOf(i, j)
Seen == {i \in DOMAIN params : ~IsUserData(params[i]) /\ ~\E j \in DOMAIN params : LengthOf(j, i)}

(* A list with an element for each of them. *)
Presents(list) ==
    /\ {list[n].of : n \in DOMAIN list} = Seen
    /\ \A m, n \in DOMAIN list : m < n => list[m].of < list[n].of

(* What the JVM passes for a parameter of a Java type; none is void. *)
JPrimitive == [t \in {"byte", "int", "long", "boolean", "double"} |->
                 CASE t = "byte" -> "jbyte" [] t = "int" -> "jint" [] t = "long" -> "jlong"
                   [] t = "boolean" -> "bool" [] t = "double" -> "f64"]
JvmPasses(t) ==
    CASE t.elem = "void" -> {}
      [] t.dims = 0 /\ t.elem \in DOMAIN JPrimitive -> {JPrimitive[t.elem]}
      [] OTHER -> {"JObject", "JString"}

MappedTo(b, ts) == b \in DOMAIN typeMap /\ typeMap[b] \in ts
Scalar == {JavaTy(t, 0) : t \in DOMAIN JPrimitive}

(* The types the two sides agree on: no struct by value, no pointer to void or to a  *)
(* single primitive, opaque pointers only if the map makes them long and never in arrays,   *)
(* and no pointer to a struct that the map makes a primitive.                        *)
ServedByFunctions(i) ==
    LET p == params[i]
    IN  IF ~IsPointer(p) THEN p.base \in DOMAIN Primitive \cup {"c_char", "callback"}
        ELSE IF IsSized(i) THEN p.base \notin Opaque \cup {"c_void"}
        ELSE \/ p.base \in {"c_char", "FfiResult", "Struct"} /\ ~MappedTo(p.base, Scalar)
             \/ p.base \in Opaque /\ MappedTo(p.base, {JavaTy("long", 0)})

(* The Java declaration and the JNI function behind it agree on the parameters, in   *)
(* number and in order, and on what the JVM passes for each of them, for exactly the *)
(* types that are served.                                                            *)
DeclarationFitsBinding ==
    Done("function") =>
        /\ Presents(java) /\ Len(inputs) = Len(java)
        /\ \A n \in DOMAIN java :
              /\ inputs[n].of = java[n].of
              /\ inputs[n].type \in JvmPasses(java[n].type) <=> ServedByFunctions(java[n].of)

(* Either no callback and no user data, or user data followed by the callbacks at    *)
(* the end.                                                                          *)
Conventional ==
    LET cbs == {i \in DOMAIN params : params[i].base = "callback"}
        uds == {i \in DOMAIN params : IsUserData(params[i])}
    IN  \/ cbs = {} /\ uds = {}
        \/ cbs # {} /\ \E u \in DOMAIN params : uds = {u} /\ cbs = (u + 1)..Len(params)

(* The JNI function passes every parameter of the native function in its place for   *)
(* exactly those functions that take user data and then their callbacks at the end.  *)
CallMatchesNative ==
    Done("function") =>
        (/\ Len(call) = Len(params)
         /\ \A i \in DOMAIN params : IF IsUserData(params[i]) THEN call[i] = Ctx ELSE call[i].of = i)
        <=> Conventional

(* The handler has the C type of the callback for exactly the callbacks that take    *)
(* user data once, before anything else.                                             *)
HandlerMatchesCallback ==
    Done("callback") =>
        (/\ Len(inputs) = Len(params)
         /\ \A i \in DOMAIN params : inputs[i] = IF IsUserData(params[i]) THEN 0 ELSE i)
        <=> {i \in DOMAIN params : IsUserData(params[i])} = {1}

ServedByCallbacks(i) ==
    LET p == params[i]
    IN  /\ p.base \notin {"callback", "bool", "f64", "c_void"}
        /\ p.base = "c_char" => IsPointer(p)
        /\ p.base \in DOMAIN typeMap => typeMap[p.base] \in {JavaTy("long", 0), JavaTy("byte", 1)}
        /\ IsPointer(p) /\ p.base \in Opaque /\ ~IsSized(i) => MappedTo(p.base, {JavaTy("long", 0)})

(* The handler finds the method of the Java interface, and passes it what it expects, *)
(* for exactly the types that are served: a callback with a bool, a floating-point    *)
(* number, a character or a callback looks up a method that is not there.             *)
SignatureMatchesInterface ==
    Done("callback") =>
        /\ Presents(java) /\ Len(signature) = Len(java) /\ Len(call) = Len(java)
        /\ \A n \in DOMAIN java :
              /\ signature[n].of = java[n].of /\ call[n].of = java[n].of
              /\ (signature[n].type = java[n].type /\ signature[n].value = java[n].type)
                 <=> ServedByCallbacks(java[n].of)
-----------------------------------------------------------------------------
(* What carries the proofs.  A loop never stops between a pointer and its length, so *)
(* that it takes the parameters that a Java caller sees, one after the other.        *)
JavaElem == Base \cup {"interface", "String", "byte", "int", "long", "boolean", "double", "void",
                      "java/lang/Object", "java/lang/Boolean"}
JavaType == [elem : JavaElem, dims : Nat]
RustType == Base \cup {"JString", "JObject", "jbyte", "jlong"}
Passing == {"pointer", "length", "opaque", "string", "reference", "value", "ctx", "handler"}
Place == DOMAIN params
TypeOK ==
    /\ typeMap \in TypeMaps /\ role \in {"function", "callback"} /\ params \in Lists
    /\ pc \in {"java", role, "done"} /\ next \in 1..(Len(params) + 1)
    /\ java \in Seq([of : Place, type : JavaType])
    /\ inputs \in IF role = "callback" THEN Seq(Place \cup {0}) ELSE Seq([of : Place, type : RustType])
    /\ call \in Seq([of : Place \cup {0}, as : Passing])
    /\ callbacks \in Seq(Place)
    /\ signature \in Seq([of : Place, type : JavaType, value : JavaType])

LoopInv == \A i, j \in DOMAIN params : i < next /\ next <= j => ~LengthOf(i, j)

Taken(list) ==
    /\ \A n \in DOMAIN list : list[n].of \in Seen /\ list[n].of < next
    /\ \A i \in Seen : i < next => \E n \in DOMAIN list : list[n].of = i
    /\ \A m, n \in DOMAIN list : m < n => list[m].of < list[n].of
InStep(list) == Len(list) <= Len(java) /\ \A n \in DOMAIN list : list[n].of = java[n].of

TypeAt(i, t) == IF IsSized(i) THEN ArrayTy(t) ELSE t
ValueAt(i, type) ==
    IF IsPointer(params[i]) /\ params[i].base \in Opaque /\ ~IsSized(i) THEN JavaTy("long", 0) ELSE type

JavaInv ==
    /\ pc = "java" => /\ Taken(java)
                      /\ inputs = <<>> /\ call = <<>> /\ callbacks = <<>> /\ signature = <<>>
    /\ pc # "java" => Presents(java)
    /\ \A n \in DOMAIN java : java[n].type = TypeAt(java[n].of, RustToJava(params[java[n].of]))

(* What the function passes on keeps step with what it takes as long as there is      *)
(* neither user data nor a callback, that is before u if user data is at u and the    *)
(* callbacks behind it; u is past the end if there are none.                          *)
Splits(u) ==
    /\ u \in 1..(Len(params) + 1) /\ u # Len(params)
    /\ \A i \in DOMAIN params : /\ IsUserData(params[i]) <=> i = u
                                /\ params[i].base = "callback" <=> i > u
Straight(u) ==
    /\ \A n \in DOMAIN call : call[n].of = n
    /\ \A n \in DOMAIN callbacks : callbacks[n] = u + n
    /\ IF next <= u THEN Len(call) = next - 1 /\ callbacks = <<>>
                    ELSE Len(call) = u - 1 /\ Len(callbacks) = next - 1 - u
FunctionInv ==
    pc = "function" =>
        /\ Taken(inputs) /\ InStep(inputs)
        /\ \A n \in DOMAIN inputs : inputs[n].type = JniInput(params[inputs[n].of])
        /\ \A n \in DOMAIN call : call[n].of # 0 /\ params[call[n].of].base # "callback"
        /\ \A n \in DOMAIN callbacks : params[callbacks[n]].base = "callback"
        /\ \A i \in DOMAIN params : i < next /\ params[i].base = "callback" =>
              \E n \in DOMAIN callbacks : callbacks[n] = i
        /\ \A u \in 1..(Len(params) + 1) : Splits(u) => Straight(u)

CallbackInv ==
    pc = "callback" =>
        /\ Taken(signature) /\ InStep(signature) /\ Taken(call) /\ InStep(call)
        /\ \A n \in DOMAIN signature :
              LET i == signature[n].of
                  type == TypeAt(i, Signature(params[i]))
              IN  signature[n].type = type /\ signature[n].value = ValueAt(i, type)
        /\ \A n \in DOMAIN inputs : inputs[n] # 0
        /\ {i \in DOMAIN params : IsUserData(params[i])} = {1} =>
              /\ \A n \in DOMAIN inputs : inputs[n] = n + 1
              /\ Len(inputs) = IF next = 1 THEN 0 ELSE next - 2
==============================================================================
