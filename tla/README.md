# Verification of moz-cheddar

moz-cheddar is a library for build scripts. It parses a Rust crate, hands the
public items of its FFI surface to a back end (C# or Java/JNI), and writes the
bindings that the back end generates. This directory holds TLA+ models of the
generator and of the code it generates where that code is concurrent, the TLC
configurations that check them, and TLAPS proofs of the properties that should
hold for every crate, every number of threads and every history of builds.

Paths below are relative to the repository (`src/src/...` is its `src/`).

## 1. Inventory

| Component | Source | State | Operations | Modules |
|---|---|---|---|---|
| Build driver | `src/src/lib.rs`, `parse.rs` | the back end, the map of virtual files, the disk | `run_build`, `compile`, `parse_mod`, `write_outputs` | BindgenBuild |
| C# session, `LangCSharp` | `src/src/csharp/mod.rs` | filter, section settings, snippets of constants, enums, structs and functions, aliases, native and opaque names | the setters, `parse_ty/const/enum/struct/fn`, `finalise_output` | LangLedger, CSharpGen, NativeMarking |
| C# intermediate representation | `csharp/intermediate.rs` | local: the carry of the two folding loops | `transform_function`, `process_struct_fields` | ArrayPairing, CSharpParams, CSharpFields |
| C# emission | `csharp/emit.rs` | local: the text | one emitter per declaration | CSharpParams, CSharpFields, CSharpGen |
| C# run-time support | `src/resources/csharp/Utils.cs.template` | GC handles, tasks, the thread pool | `PrepareTask`, `FromHandlePtr`, `CompleteTask`, list copies | Promise, CsTask, CSharpFields |
| Java session, `LangJava` | `java/mod.rs` | the map of files itself, `generated_jni_cbs` | `parse_fn`, `parse_struct`, `finalise_output` | JavaGen, JniParams |
| JNI generator | `java/jni.rs` | local: the text | functions, callbacks, struct conversions | JavaGen, JavaFields, JniParams |
| Generated callbacks with shared user data | emitted by `java/jni.rs:443` | a box of global references | each callback | JniMultiCallback |
| Struct field classification | `struct_field.rs` | local | `transform_struct_fields`, `is_array_meta_field` | JavaFields |
| Common helpers | `common.rs` | none | `Lang`, `FilterMode`, `append_output`, `is_array_arg` and its kin | LangLedger, JniParams, within CSharpGen and JavaGen |
| Indented writer, C back end, command line, examples, tests | | | | not modelled (section 8) |

How they interact. A build script owns one back end and one `Bindgen`.
`Bindgen::compile` parses the root of the crate and the modules it re-exports,
calls `parse_*` of the back end once per public item, in source order, and
stops after the first module that had an error. `finalise_output` turns what
the back end has gathered into entries of the map of files; the Java back end
writes to the map already while it parses. `write_outputs` then creates,
writes and synchronises each file. The generator is single-threaded; what it
generates is not: the native library calls the generated handlers from its own
threads, at times of its choosing.

Which behaviours are hard, and the properties that make each part correct:

* **C# session**: items arrive in any order, settings change between builds,
  and one session may be finalised several times. Structs become "native" by a
  fixpoint that is updated incrementally, while aliases are resolved only at the
  end. Correct: the marking is the least one, nothing is lost or rendered
  twice, and what the files say of each other fits.
* **Folding of pointers and lengths**: a loop that carries one element to the
  next iteration. Correct: unfolding gives the list back, and no pair is missed.
* **Three emitters over one list** (declaration, wrapper, call): they must
  agree position by position, and in the names they use.
* **Marshalling of structs**: `ToNative`, `Free` and the constructor are three
  loops over the fields; what the first allocates the second has to free.
* **Across JNI**: four loops in two languages (Java method, JNI function; Java
  interface, native handler) each decide for themselves what is an array, a
  callback or user data, and which type it has.
* **Java session**: side effects while parsing, on a function that may still be
  refused; deduplication by two different memories (the interface file and
  `generated_jni_cbs`).
* **Asynchronous calls**: handles cross the native library as integers, are
  freed by whoever reads them, and are allocated again.
* **Shared callback box**: ownership of a raw pointer passes between callbacks.
* **Build driver**: truncation before writing, errors and crashes between
  steps, reruns over what is left.

The full list of hazards, each with its line, is in `PROJECT.json`.

## 2. Modules

| Module | Models | Used by |
|---|---|---|
| `LangLedger` | what a back end owes to the driver: no accepted item is lost or shown twice | `CSharpGen` |
| `CSharpGen` | one `LangCSharp` and the map it renders into | `MCCSharpGen`, `CSharpGen_proofs` |
| `NativeMarking` | the loop of `resolve_native_types`, step by step | `MCNativeMarking`, `CSharpGen_proofs` |
| `ArrayPairing` | names, kinds and slots; the pairing of pointer and length | `CSharpParams`, `CSharpFields` |
| `CSharpParams` | `transform_function` and the loops that emit a signature, and the names in a wrapper | `MCCSharpParams`, `CSharpParams_proofs` |
| `CSharpFields` | `process_struct_fields`, the two C# structs, and a wrapper that passes one | `MCCSharpFields`, `CSharpFields_proofs` |
| `Promise` | what an asynchronous wrapper promises its caller | `CsTask` |
| `CsTask` | the asynchronous wrapper, its handler and `Utils` | `MCCsTask`, `CsTask_proofs` |
| `JavaGen` | `LangJava` and the map it writes to over compilations | `MCJavaGen`, `JavaGen_proofs` |
| `JavaFields` | field classification and the JNI conversions of a struct | `JavaMarshal` |
| `JniParams` | the parameters of functions and callbacks on both sides of JNI | `JavaMarshal` |
| `JavaMarshal` | the two of them in one instance | `MCJavaMarshal`, `JavaMarshal_proofs` |
| `JniMultiCallback` | the generated callbacks that share a box | `MCJniMultiCallback`, `JniMultiCallback_proofs` |
| `BindgenBuild` | `run_build` over an abstract back end, the disk, crashes | `MCBindgenBuild`, `BindgenBuild_proofs` |

### CSharpGen

State: the fields of `LangCSharp`, one variable each; `outputs` is the map. A
*snippet* is an accepted item with a number (a history variable) and the types
in its signature. A type is a list of wrappers (pointer, fixed or dynamic
array) around a base name, since that is all that `is_native_type`,
`is_dynamic_array` and alias resolution look at. A file is represented by what
its text is computed from: the declarations, the wrapped functions, the
delegates, and the native and opaque names *at the time of rendering*.

Each setter is an action; `ParseTy`, `ParseConst`, `ParseEnum`, `ParseStruct`
and `ParseFn` are the accepting paths of the `parse_*` methods and
`ParseDropped` all the paths that leave the session alone (filtered, skipped,
refused). `FinaliseOutput` is the whole of `finalise_output`: alias resolution
of every list, five conditional insertions in the order of the code, what each
section drains, and the clearing of native and opaque names. The other three
are the same call when an emitter panics, on a function pointer where none can
be written, a callback without a name or an array that `Utils.cs` cannot copy
(`FunctionsUnsupported`, `ConstsUnsupported`, `StructsUnsupported`).
`FinalisePanics` panics in the functions, before anything is drained;
`FinaliseLosesConsts` and `FinaliseLosesEnums` in the constants or the types,
when the sections before have been inserted and drained, and the constants or
the enums drained for a file that is never inserted. `RenderSections(done)` is
what they share. A panic ends the session. `ResolveNative` is written as a least
fixpoint; that the loop of the code computes just that is the theorem
`LoopResolvesNative` (section 6).

`LangLedger` is the specification that `CSharpGen` implements: an item is
accepted as *pending* (constants, enums, functions) or *kept* (structs), and
`Show`, which is `finalise_output`, may take pending items away only into the
files. `Break` is a `finalise_output` that panics: it may *lose* items, but of
one batch only (pending items wait in batches, the constants, the enums and the
functions), and it ends the session. The mapping (`Ledger == INSTANCE LangLedger`) gives the numbers of the
snippets for the items. It needs that no two sections are ever given the same
path (`PathAssumption`): the second file would replace the first, after the
first's items have been drained.

### NativeMarking

`resolve_native_types` one struct at a time: `StartPass`, `Mark`, `Skip`,
`EndPass`, `Return`. The marks made in a pass are seen by the rest of that
pass, and the loop runs until a pass changes nothing. A struct is what the loop
asks of it (`MarkStruct`): whether a field is a dynamic array, and the names its
fields refer to. Definitions have names of their own, so that the proofs can use
this module and `CSharpGen` together.

### ArrayPairing, CSharpParams, CSharpFields

A name is a stem and a suffix (`ptr`, `len`, `cap` or none), because the code
compares names only by stripping those suffixes. `CSharpParams` runs the loop
of `transform_function` with its carried parameter, then each of the four
emitting loops over the folded list (native declaration, wrapper parameters,
call, delegate), one parameter per step, with the panics. The loops spell names
each in its own way: `Written` says in which case, and `Twins` and `Result` are the locals of the wrapper. `CSharpFields` does
the same for `process_struct_fields` (where a capacity may follow the length)
and for the native struct, the wrapper's copies, `Free` and `ToNative`. Its
second part runs what was emitted: `Pass` hands a struct to a wrapper,
`Convert` is one initialiser of `ToNative`, `Throw` what `CopyFrom*List` does
with an empty list, `CallNative` and `NativeReturns` the call, and `Free` one
statement of `Free`. Lists have no element or one (`MaxCount`): only whether a
list is empty matters.

### CsTask

`ToNative`, `PrepareTask`, `Extern`, `Return` are the generated wrapper, of
which the first and the third may throw. `Invoke` is the native library.
`ReadTarget`, `FreeHandle`, `CompleteTask` are the handler, and `SetTask` the
lambda that `Task.Run` queues. Handles are slots that are reused when freed, as
the CLR does. `corrupt` is the use of a handle that is not allocated, after
which the CLR defines nothing and the model stops. An exception in `argFunc`
unwinds into native code: `crashed`.

`Promise` is what the application relies on: a task that is asked for is
completed once, with the answer given to that call. `CsTask` implements it
(`P == INSTANCE Promise`), with the task list for its tasks, the first answer
given to each call, and `~CalledOnce` for the misuse that ends the promise;
handles, threads and the pool are what it hides.

### JavaGen, JavaFields

The map of files is five variables: `defined`, `code` and `converted` are what
is in `jni.rs` (callbacks, each with the place it was generated for; bindings,
each with the callbacks it names; structs), `bindings` and `headers` are
`NativeBindings.java`, and `classes` holds the other files with their package.
An argument is a callback, something else, or refused: `CallbackArg`,
`PlainArg` and `RefuseArg` are the iterations of the loop in
`transform_native_fn`, and `FinishFn` what follows it, `generate_jni_function`
included. `Conversions` is what `generate_struct` appends to `jni.rs`. `JavaFields` runs `transform_struct_fields` and then the three loops
over its result (Java members, `from_java`, `to_java`). `Skipped` are the fields for
which the conversions have nothing: lengths and capacities, which come with their
array if they have one, and function pointers, which `rust_to_java` accepts.

### JniParams, JavaMarshal

One list of parameters, of a function or of a callback. `Declare` is the loop
that makes the Java method (`transform_native_fn`, `callback_to_java`),
`JniArg` and `JniFunction` that of `generate_jni_function`, `CallbackArg` and
`CallbackHandler` that of `generate_callback` and of the two functions that call
it. Each loop is a position `next` in the list, what its filter leaves of the rest
(`Rest`), and the two parameters that `next()` and `peek()` return (`Arg`,
`NextArg`); `Advance` steps over a length. The lists that are built say for each element
which parameter it is of. Types are what the conversion tables distinguish: a base and a pointer, the
Java type with its array dimensions, and the type map of the session.
`JavaMarshal` puts `JniParams` and `JavaFields` (`S == INSTANCE JavaFields`)
into one instance; the generator treats parameters and fields apart, so a
behaviour is about one list of either.

### JniMultiCallback

One box with one `Option` per callback. `TakeRead` and `TakeWrite` split
`cbs[idx].take()`, since nothing orders two threads; `Check` is the test of
`any(is_some)`, after which the box is forgotten or dropped. `JniUnwrapFails`
is the early return of `jni_unwrap!`, which drops the box.

### BindgenBuild

The back end is abstract: it keeps what it accepts. A run parses modules
(`OpenModule`, `ParseItem`, `EndModule`), finalises, and writes file after
file: `CreateFile` truncates, `WriteAll` fills, `SyncAll` synchronises. Any of
them may fail, and `Crash` may come at any moment. `disk` is what a program sees
that opens the files, and `remains` what a crash may leave of each: all that the
file has been since its contents were last synchronised, and, for a file that
was new, nothing. The assumption about the file system is the weak one:
`sync_all` makes the contents of a file certain and not its directory entry,
and neither the directories nor the entries are ever synchronised
(`lib.rs:310-315`), so that only a file that was there after a crash is known to
stay.

## 3. Runs

| Run | Module | Bounds | What it shows |
|---|---|---|---|
| CSharpBuild | MCCSharpGen | eight items, three accepted, one `finalise_output`, one opaque name, one custom constant; 99,728 states | whatever three items come in whatever order, what is rendered fits: delegates and native twins defined, layouts kept, no alias left over |
| CSharpReuse | MCCSharpGen | ten items, one that panics in each section, two accepted, two `finalise_output`, one name to filter and to blacklist, one library name, two sections to toggle, one to move; 275,616 states | a session that is changed between two builds implements LangLedger and keeps the least marking, and interface and class agree |
| CSharpAlias | MCCSharpGen | three items | **disagreement**, see section 7 |
| NativeMarking | MCNativeMarking | all lists of three structs, up to two references each, two earlier markings | the loop ends, with the least marking |
| CSharpParams | MCCSharpParams | all lists of up to four of fifteen parameters of distinct names, with and without result | signatures survive folding and unfolding, the call fits the declaration, and the wrapper's names resolve for exactly the functions said |
| SizeParamIndex | MCCSharpParams | the same | **disagreement**, see section 7 |
| CSharpFields | MCCSharpFields | all structs of up to four of thirteen fields, lists of no element or one | layouts survive, no member is left uninitialised, and what a wrapper allocates it frees |
| CsTask | MCCsTask | two calls, two handles, two threads, two callbacks per call | each task gets its own answer, once; handles are held exactly as long as they are needed; the promise is kept |
| JavaMarshal | MCJavaMarshal | all lists of up to three of sixteen parameters and of four of six, three type maps; all structs of up to four of fourteen fields; 1,258,338 states | the Java side and the Rust side agree for exactly the types and orders said; the conversions of a struct cover exactly the fields said |
| JavaGen | MCJavaGen | crates of up to two of sixteen items, two compilations, into one map or two; 337,794 states | callbacks are defined once, with the type that is used; declarations match bindings; what is finalised is whole on both sides |
| JniMultiCallback | MCJniMultiCallback | three callbacks, two threads, two calls each | the box is safe under exactly the use the code assumes |
| BindgenBuild | MCBindgenBuild | five states of the sources, three files, three runs; 62,427 states | only whole crates are written, what a finished run has written is never torn or older than it, and each run spoils one file at most |

Why the bounds are enough. Every relation the properties speak of has at most
three parties: two structs and an alias between them, two functions and the
callback they share, a pointer, its length and its capacity (four fields give
room for a stranger in between), one torn file and the next one opened. The
marking of three structs covers chains and cycles; the proofs of sections 5 and
6 lift it to any number. Two threads and two calls give every pairwise
interleaving, and three callbacks make the box change hands while two are in
flight. Three build runs are one that leaves damage, one that adds to it and one that
repairs. `MaxSnippets`, `MaxFinalise`, `MaxBuilds`, `MaxRuns` and `MaxCalls` are the
only counters that are capped, each in the guard of the action that counts;
`MaxCount`, `MaxParams` and `MaxFields` bound the lists that are tried.

`CHECK_DEADLOCK FALSE` is set where the system may really stop: a session,
a library or a build script that makes no further call.

## 4. Properties

Each property is stated in words above its definition. The ones that took most
thought:

* `NativeIsLeast` (CSharpGen): although `finalise_output` throws the marking
  away and keeps the structs, and although `parse_struct` only adds to it, the
  marking is the least closed one for *all* structs of the session after every
  call. `LayoutAgrees` asks the same of what is rendered, after aliases are
  resolved; it holds without aliases of structs and fails with them.
* `KeepsLedger` (CSharpGen): the session implements `LangLedger`. Every
  accepted item is pending, kept or has been rendered, and nothing that drains
  is rendered by a later call as well; a panic costs the one batch that was
  being rendered.
* `AbiPreserved`, `NoPairMissed`, `CallMatchesDeclaration`, `CallIsClosed`
  (CSharpParams): four loops over two representations agree with the Rust
  signature. `CallIsClosed` is an equivalence: the names in the wrapper resolve
  for the functions that `Nameable` describes, and for no others.
* `HeapBalanced` (CSharpFields): what `ToNative` allocates is there during the
  call and gone after it. It ties the loop of `ToNative` to that of `Free` and
  to the classification of nested structs.
* `DeclarationFitsBinding`, `CallMatchesNative`, `HandlerMatchesCallback`,
  `SignatureMatchesInterface` (JniParams): equivalences too. The Java side and
  the Rust side fit for exactly the types in `ServedByFunctions` and
  `ServedByCallbacks`, and for exactly the orders in `Conventional`; these
  definitions are therefore the generator's real domain, which no check in the
  code enforces.
* `OwnAnswer`, `AnswersConserved`, `HandleHeldUntilAnswered`, `KeepsPromise`,
  `AnswerArrives` (CsTask): no answer is lost, doubled or delivered to another call's task,
  and no handle leaks, *provided* the library calls back at most once per call.
  `CalledOnce` is that proviso; the code cannot enforce it, and without it the
  model has the behaviours that follow (double free, a handle of another call).
* `SafeUnlessMisused` (JniMultiCallback): the box is never used after it was
  freed unless callbacks overlapped, were repeated, or failed: the three
  history variables say which assumption was broken.
* `CallbacksDefinedOnce`, `CallbackFitsItsUse` (JavaGen):
  the two memories of what was generated agree with `jni.rs`. `elsewhere` is a
  history variable: the callbacks generated into an earlier map, which a
  `LangJava` that is reused with a new map does not generate again.
* `FieldsBound`, `MembersSet` (JavaFields): equivalences. The fields without a
  conversion are the function pointers and the lengths and capacities that
  belong to no array, for which the generated Rust does not compile.
* `DoneMeansOnDisk` (BindgenBuild): when a run returns all files are of that
  run, and a crash afterwards finds no other version of them: it may take away
  files that were new. `OneTornFilePerSpoiledRun` bounds what runs that do not
  return leave cut off; that they leave old and new files side by side is in the
  model, and no property of the code. `OnlyWholeCratesAreWritten`.

Every property of a passing run has a mutant: an operator next to the one it
replaces, with a comment that names the mistake. They are not part of any
specification. The type invariants are theorems (`TypeCorrect`) and are not repeated in the runs.

## 5. Fairness and liveness

* `NativeMarking`: weak fairness of the loop; it is a loop of one thread.
* `JniMultiCallback`: weak fairness of each thread inside a callback. The
  library is under no obligation to call anything, so `AllCalledLeadsToFreed`
  starts from the state in which every callback has been called.
* `CsTask`: weak fairness of each handler and of the thread pool; none of the
  library and none of the application. `AnswerArrives` starts from an answer.

Liveness is checked by TLC only: it, like `ENABLED`, is out of the prover's
reach.

## 6. Proofs

All proofs are checked by TLAPS (SMT, Zenon, LS4), for all values of the
constants that satisfy the assumptions named next to them.

* `CSharpGen_proofs`, the marking. `MarkInv` (theorem `MarkingInv`) says of the
  loop that every mark is *forced*, that is, in every closed set that contains the
  initial marking, and that a pass that has changed nothing has found each
  struct it has passed closed. Leastness is not inductive by itself: the second
  half is needed at the end of the last pass. `MarkingCorrect` concludes
  `ResultIsLeast`. `LoopResolvesNative` joins the two modules: given the structs of
  a session (`Twins`), the loop ends with what `ResolveNative` says. `NativeMarked`:
  `[]NativeIsLeast`. The
  induction needs that marking is monotone and idempotent (resolving after each
  new struct from the last result gives the same as resolving once from
  nothing), and that structs are only renamed by the call that also clears the
  marking.
* `CSharpGen_proofs`, the books. `TypeCorrect`. `LedgerKept`: `Spec => KeepsLedger`, so the session
  implements `LangLedger`, under `PathAssumption`. Each accepting action maps to
  `Accept`, `FinaliseOutput` to `Show`, a call that panics to `Break`, everything
  else to `Fresh` or a stutter.
  The induction needs `LedgerInv`: a section has one of the paths it may have
  (`PathsInv`), so the five insertions do not replace each other, and each
  number is held by one list (`NumberInv`). `NothingIsLost` (`Accounted`)
  follows.
* `CSharpGen_proofs`, the files. Everything rests on `FilesInserted` and
  `FilesOfSections`: after `finalise_output` a file is what one of the five insertions made of the
  session, or as it was before. `CallbacksAreDefined` from `DelegateInv` (the delegates of
  a file are those of its functions; a function with a wrapper has one callback at most).
  `InterfaceMatches` from `InterfaceInv` and `SectionInv`, assuming `ClassStaysPut`:
  the script does not move the functions or the interface, which would leave a class and
  an interface of different builds side by side. From `OriginInv` (until the first
  `finalise_output` structs bear the names of the crate; aliases always stand for what the
  crate says) come three more. `NativeNamesAreDefined` and `LayoutIsAgreed` speak of the first
  files of a session (`finalised <= 1`, as far as the run goes): afterwards the structs are still there and the
  marking is not (the hazard at `csharp/mod.rs:703`). They assume that no struct has the
  name of an alias (`NoStructRenamed`; rustc refuses it within a module), the first also
  that the types section stays on, and `LayoutIsAgreed` that no alias stands for a
  struct, native or not, or a dynamic array (`NoStructAliased`); the run CSharpAlias shows
  that some such assumption is needed. It says that a rendered struct which needs a native twin
  has one, not that only those have. `AliasesAreResolved` assumes that aliases
  end (`AliasesEnd`; rustc refuses a cycle, on which `lookup_alias` would not return) and that none
  stands for a function pointer that takes another alias (`NoAliasInside`). `LookupEnds` is
  its induction: a set of aliases that only lead to each other would have no end. The
  crates of the runs CSharpBuild and CSharpReuse satisfy all of these.
* `CSharpParams_proofs`. `TypeCorrect`; `FoldInv`, about the folding loop: the
  inputs pushed so far and the parameters that are left make up the list, each
  input standing for the one or two parameters it starts at, the next one
  starting where it ends. The carry is what makes it more than a loop over a
  list: where the next input starts (`One`) depends on it. `NoPairIsMissed` is
  read off; `EmitInv` (the declaration has got as far as the inputs) gives
  `AbiIsPreserved`, and `CallInv` gives `CallMatches`. `SizeInv` (before the first array the
  declaration and the inputs run side by side) gives `FirstArrayIsSized`, and `NamesInv`
  (the names in the wrapper and in its call are those of the inputs up to here)
  `CallsAreClosed`, an equivalence for every function.
* `CSharpFields_proofs`. `FoldInv` again, for a loop in which an array may take up three
  fields: `Folds` and `Unfolds` say where each member stands. `EmitInv` ties the four loops
  over the result to it: `LayoutIsPreserved`, and `AllInitialised`, for which a capacity
  must not be copied by a loop that has its array already (`CapacityNotCopied`; this needs
  that the fields of a struct have distinct names, `NamesAssumption`). `HeapIsBalanced` from
  `HeapInv`: what is allocated is owned by the fields that `Convert` has passed and `Free`
  has not, and both are the fields that own something (`OwnersCovered`).
* `JavaMarshal_proofs`. For structs, `SortInv` (a field of the struct is in the sorted list, or
  is in an array's) and `EmitInv` (each conversion has got as far as the list) give
  `EveryFieldIsBound` and `EveryMemberIsSet`; the crux is that a length or capacity that is
  taken for part of an array is bound by that array (`ArrayParts`), and, since the properties
  say of each field without a conversion why, that nothing else binds it (`WhoseName`). For parameters the invariant is
  `JniInv`. `LoopInv`: no loop stops between a pointer and its length; with
  `ArrayIsSized` (what `is_array_arg` sees through the filter is what `IsSized` says
  of the list) each loop has therefore taken the parameters that a Java caller sees,
  in order, up to `next` (`Taken`), and the second loop is in step with the first
  (`InStep`). `DeclarationsFit` and `SignaturesMatch` then come down to the conversion tables
  (`FunctionSides`, `CallbackSides`), compared type by type for every type map.
  `CallsMatch` and `HandlersMatch` are equivalences about orders. In one direction the
  argument is by what a place holds: the context is in its place only after all plain arguments. In
  the other the loop is followed (`Straight`, for a list that `Splits` at its
  user data). `TypeCorrect` is `TypeOK` of JniParams.
* `CsTask_proofs`. `TypeCorrect`, which needs that a running handler has a target; `OnceInvariant`,
  the inductive invariant under `CalledOnce`: a handle is allocated exactly
  while its call is owed an answer (`HandlesInv`), a running handler belongs to
  the only callback of its call and has read its own task (`HandlersInv`), and
  what is queued or done is that call's answer (`AnswersInv`). `OwnAnswers` and
  `HandlesAccounted` follow. `PlaceInv` says that a task is pending while its
  answer is in a handler or in the pool; `NoAnswerLost` is read off from it.
  `CalledOnceBefore` lets the proviso be used
  backwards: if it holds after a step, it held before. `PromiseKept`
  (`Spec => KeepsPromise`) maps each step to one of `Promise` or to a stutter.
* `JniMultiCallback_proofs`. `JavaAtMostOnce` from `OnceInv`,
  about the slots, under no overlap only; `UseInv` (theorem `UseInvariant`) for the intended use: the slots tell which
  callbacks have been begun, and the box lives while one runs. `SafeUse` and
  `FreedWhenAllCalled` follow.
* `JavaGen_proofs`. `TypeCorrect`; `DeclarationsMatch` from `PairedInv`, which
  holds in the middle of a compilation as well. `DefinedOnce`
  (`[]CallbacksDefinedOnce`) from `GeneratedInv`: what `jni.rs` defines is what
  `generated_jni_cbs` holds, less what went into an earlier map; every interface
  file stands for a name it holds; the bindings use only names it holds. A
  binding with one callback relies on the interface file, so the induction also
  needs that the file of each argument that has been dealt with is there
  (`ArgsInv`). The theorem assumes `NamesApart`, see section 7; the crates of
  the run satisfy it. `FinalisedWhole` from `ProgressInv` (what `compile` has been
  through is in the map, unless a compilation failed), and `CallbacksFit` from
  `FitsInv` (a name says what its definition and its uses stand for) do without that assumption.
* `BindgenBuild_proofs`. `DoneIsDurable` from `WriteInv`, about the writing loop (a
  file that is not to do any more has its contents, and a crash leaves those or nothing);
  `TornIsBounded` counts: the files that are torn, or that a crash may leave so, are at
  most the spoiled runs, plus the open one. `ScanInv` is about the parsing loops: the
  modules and entries that have been dealt with and those to come make up the
  crate (`ModulesInv`, `EntriesInv`), and the back end has each item as often as
  it was handed over (`HandedOver`). `ReportComplete` follows where a module ends
  with errors, `WholeCrates` where the last module has ended without.

Only model-checked, and why: liveness (`Terminates`, `AllCalledLeadsToFreed`,
`AnswerArrives`), which is out of the prover's reach. Every other property of a passing run
is a theorem, under the assumptions said above. What the folds and recursive functions in the
models compute is proved by the invariants of the loops that use them, never by induction
over the data.

## 7. Disagreements

Two runs are expected to fail, and show a disagreement of the code with itself:

* **CSharpAlias**. `resolve_native_types` runs when a struct is parsed, on
  types whose aliases are resolved only in `finalise_output`
  (`csharp/mod.rs:425`, `:478`). A struct with a field of type `X`, where
  `type X = A` and `A` needs a native twin, is not marked. It is rendered as a plain
  public struct with the field as `ANative` (`emit.rs:754-759`): the layout is that
  of the Rust struct, but there is no twin and no conversion to or from `A`, and a
  public struct has a field of an internal type (`emit.rs:255`).
* **SizeParamIndex**. `emit_array_marshal_as` (`csharp/emit.rs:664`) computes
  the index of an array's length in the folded list; the test at
  `csharp/tests.rs:677` has the position among the emitted parameters. They
  agree for the first array (`FirstArraySized`) and not for the others.

Seen while modelling, and excepted in a property or a bound (each is said at
the property):

* `set_lib_name` sets the library name only; its doc (`csharp/mod.rs:121`)
  says that it also sets the class name.
* A parameter `user_data` of a function without callback is left out of the
  wrapper and passed in its call (`intermediate.rs:244`, `emit.rs:521`); a
  parameter `ret` or `user_data` clashes with a local (`emit.rs:47`); a native
  copy is declared in Rust's case and used in camel case (`emit.rs:56`), which
  agree for names of one word only: all described by `Nameable`.
* `CopyFromByteList` and `CopyFromObjectList` measure the first element, so that
  an empty list throws out of `ToNative` (`Utils.cs.template:95`), and what was
  converted before it is not freed: excepted in `HeapBalanced`.
* The wrapper's constructor converts a native field with `new` and the *name* of
  the field in place of its type (`emit.rs:319`), and lists of native elements
  are copied unconverted (`emit.rs:316`): text, outside of the models.
* User data and callbacks are passed after all other arguments
  (`java/jni.rs:299`), and a handler takes user data first: the orders for which
  that is right are `Conventional`, and the condition of
  `HandlerMatchesCallback`.
* A handler looks up the Java method under a signature that has
  `java/lang/Boolean` for `bool`, and does not know floating-point numbers
  (`java/jni.rs:92`): not in `ServedByCallbacks`.
* A native function with a result becomes a Java method without `public static
  native`, and its JNI function returns nothing (`java/mod.rs:392`). JniParams
  leaves results out.
* A struct whose Java class has the name of a callback's interface passes for
  that interface, and the callback is not generated (`java/mod.rs:362`): the
  proof of `CallbacksDefinedOnce` assumes `NamesApart`.
* A `usize` field `*_len` or `*_cap` without an array is skipped by
  `from_java`, whose struct literal needs it (`jni.rs:801`,
  `struct_field.rs:98`), and so is a function pointer (`jni.rs:864`), which
  `rust_to_java` accepts (`java/mod.rs:516`): `FieldsBound` says so.
* `generated_jni_cbs` is never cleared (`java/mod.rs:32`, `:371`): a
  second map gets bindings without their callbacks; excepted through
  `elsewhere`.
* C types that share a Java interface, like `u32` and `i32`, share the JNI
  callback of the first (`java/mod.rs:362`, `:524`): excepted in
  `CallbackFitsItsUse`.
* `parse_struct` declares a struct in the package of the bindings, its doc says
  that of the model (`java/mod.rs:28`, `:153`).
* `insert_code` fills `custom_code`, which nothing reads (`lib.rs:234`,
  `:240`). BindgenBuild leaves it out.

## 8. What is not modelled

* The text: indentation (`output.rs`), docs, spelling and casing of names,
  values of constants, the table of primitive types. The unit tests compare it.
* `lang_c.rs`, which is not compiled, `bin/bindgen.rs` and the examples.
* `source_file_from_cargo`: which file is the root.
* `CopyTo*List` in `Utils.cs.template`, which reads memory and changes none;
  CSharpFields has the copies in the other direction, as what they allocate.
* A pointer to a native struct, as a field or a parameter, has no kind of its own
  in ArrayPairing: there it is a pointer (`csharp/mod.rs:63`, `emit.rs:278`,
  `:348`); that it makes its struct native is in CSharpGen.
* The life of the delegate that a wrapper passes (`emit.rs:87-89`): nothing keeps it
  alive, and the CLR may collect it before the library calls back. `CsTask` and
  `Promise` assume that it does not.
* Which file system a crash hits: BindgenBuild has the weakest, see section 2.
* The element types of lists, and the result types of Java functions.
* Namespaces, and the setters of `LangJava` other than the type map, which only
  change names.

## 9. Plan

1. Done: the modules of section 2, their runs, and the proofs of section 6.
2. A ledger for the Java session: `LangLedger` has the files written at
   `finalise_output`, and `LangJava` writes them while it parses; a common
   abstraction would let `BindgenBuild` be composed with either back end.
3. CSharpFields with native element types of lists (`emit.rs:316`), JniParams
   with results (`java/mod.rs:392`).
4. Proofs: `NativeNamesDefined` and `LayoutAgrees` beyond the first build, which takes
   an exact description of the builds that add no struct; a refinement of `BindgenBuild`'s
   back end by `LangLedger`.
