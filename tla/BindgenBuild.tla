---------------------------- MODULE BindgenBuild ----------------------------
(***************************************************************************)
(* Bindgen (src/src/lib.rs) and parse_mod (src/src/parse.rs): a build script *)
(* calls run_build, which hands the public items of the crate's root and of  *)
(* the modules it re-exports to a back end, lets that finalise a map of      *)
(* files, and writes the files one after the other.  Any error or failure    *)
(* ends the script; cargo may run it again, on changed sources, over what    *)
(* the last run has left on disk.                                            *)
(*                                                                         *)
(* The back end is abstract: it keeps what it accepts, in order, and a file  *)
(* is the list of items it was made from.                                    *)
(***************************************************************************)
EXTENDS Naturals, Sequences, FiniteSets

CONSTANTS
    Item,
    File,
    Crates,      \* the states the sources may be in
    Produces(_), \* the files to which the back end contributes an item
    Absent,      \* no such file on disk
    Torn,        \* a truncated or partly written file
    MaxRuns      \* bound: runs of the build script

(* A module is what the parser finds in its file: nothing it can parse, or     *)
(* items, each public or not and accepted or refused by the back end.  The     *)
(* first module of a crate is its root, the others are the modules under ffi   *)
(* that the root re-exports with a glob, in that order.                        *)
Entry == [item : Item, public : BOOLEAN, accepted : BOOLEAN]
Module == [parses : BOOLEAN, entries : Seq(Entry)]
Crate == Seq(Module) \ {<<>>}

Content == Seq(Item)

ASSUME CratesAssumption == Crates # {} /\ Crates \subseteq Crate
ASSUME ProducesAssumption == \A e \in Item : Produces(e) \subseteq File
ASSUME FileAssumption == IsFiniteSet(File) /\ Torn \notin Content \cup {Absent}
ASSUME MaxRunsAssumption == MaxRuns \in Nat

VARIABLES
    crate,      \* the sources
    pc,
    modules,    \* modules still to be parsed
    entries,    \* entries of the current module still to be dispatched
    errors,     \* errors of the current module
    lang,       \* what the back end has accepted
    outputs,    \* the virtual files
    todo, file, \* files not yet written, and the one being written
    disk,       \* what a program that opens the files sees
    remains,    \* what a crash may leave of each file
    runs,
    spoiled     \* history: runs that ended with a file open

compiling == <<modules, entries, errors, lang>>
vars == <<crate, pc, compiling, outputs, todo, file, disk, remains, runs, spoiled>>

AtRest == {"idle", "done", "errors", "panicked", "failed"}
FileOpen == {"fill", "sync"}
Writing == FileOpen \cup {"write"}

Init ==
    /\ crate \in Crates
    /\ pc = "idle"
    /\ modules = <<>> /\ entries = <<>> /\ errors = <<>> /\ lang = <<>>
    /\ outputs = <<>> /\ todo = {} /\ file \in File
    /\ disk = [f \in File |-> Absent] /\ remains = [f \in File |-> {Absent}]
    /\ runs = 0 /\ spoiled = 0

-----------------------------------------------------------------------------
(* The script starts: a new Bindgen, back end and map. *)
RunBuild ==
    /\ pc \in AtRest /\ runs < MaxRuns
    /\ \E c \in Crates : crate' = c /\ modules' = c
    /\ pc' = "module" /\ entries' = <<>> /\ errors' = <<>> /\ lang' = <<>>
    /\ outputs' = <<>> /\ todo' = {}
    /\ runs' = runs + 1
    /\ UNCHANGED <<file, disk, remains, spoiled>>

(* parse_crate_from_file(..).unwrap() *)
OpenModule ==
    /\ pc = "module" /\ modules # <<>>
    /\ IF Head(modules).parses
       THEN pc' = "items" /\ entries' = Head(modules).entries /\ modules' = Tail(modules)
       ELSE pc' = "panicked" /\ UNCHANGED <<entries, modules>>
    /\ UNCHANGED <<crate, errors, lang, outputs, todo, file, disk, remains,
                   runs, spoiled>>

(* Mutant: the first error ends the loop. *)
ParseItemStops ==
    /\ pc = "items" /\ entries # <<>>
    /\ LET e == Head(entries)
       IN  /\ lang' = IF e.public /\ e.accepted THEN Append(lang, e.item) ELSE lang
           /\ errors' = IF e.public /\ ~e.accepted THEN Append(errors, e.item) ELSE errors
           /\ entries' = IF e.public /\ ~e.accepted THEN <<>> ELSE Tail(entries)
    /\ UNCHANGED <<crate, pc, modules, outputs, todo, file, disk, remains,
                   runs, spoiled>>

(* The loop of parse_mod: an error does not end it. *)
ParseItem ==
    /\ pc = "items" /\ entries # <<>>
    /\ LET e == Head(entries)
       IN  /\ lang' = IF e.public /\ e.accepted THEN Append(lang, e.item) ELSE lang
           /\ errors' = IF e.public /\ ~e.accepted THEN Append(errors, e.item) ELSE errors
    /\ entries' = Tail(entries)
    /\ UNCHANGED <<crate, pc, modules, outputs, todo, file, disk, remains,
                   runs, spoiled>>

(* Mutant: the errors of a module are dropped. *)
EndModuleAnyway ==
    /\ pc = "items" /\ entries = <<>>
    /\ pc' = "module"
    /\ UNCHANGED <<crate, compiling, outputs, todo, file, disk, remains,
                   runs, spoiled>>

EndModule ==
    /\ pc = "items" /\ entries = <<>>
    /\ pc' = IF errors = <<>> THEN "module" ELSE "errors"
    /\ UNCHANGED <<crate, compiling, outputs, todo, file, disk, remains,
                   runs, spoiled>>

(* lang.finalise_output, which the Java back end may refuse. *)
FilesOf(items) == UNION {Produces(items[i]) : i \in DOMAIN items}
Rendered(items) == [f \in FilesOf(items) |-> items]

Finalise ==
    /\ pc = "module" /\ modules = <<>>
    /\ \/ /\ outputs' = Rendered(lang)
          /\ todo' = FilesOf(lang)
          /\ pc' = "write"
       \/ pc' = "errors" /\ UNCHANGED <<outputs, todo>>
    /\ UNCHANGED <<crate, compiling, file, disk, remains, runs, spoiled>>

Fail == pc' = "failed" /\ spoiled' = spoiled + 1

(* write_outputs takes the files in the order of a HashMap.  create_dir_all may  *)
(* fail, and File::create truncates what was there; until the file is synchronised *)
(* a crash may leave what was there, or any state in between.                    *)
CreateFile ==
    /\ pc = "write"
    /\ \E f \in todo :
        \/ /\ pc' = "fill" /\ file' = f
           /\ disk' = [disk EXCEPT ![f] = Torn]
           /\ remains' = [remains EXCEPT ![f] = @ \cup {Torn}]
           /\ UNCHANGED spoiled
        \/ pc' = "failed" /\ UNCHANGED <<file, disk, remains, spoiled>>
    /\ UNCHANGED <<crate, compiling, outputs, todo, runs>>

WriteAll ==
    /\ pc = "fill"
    /\ \/ /\ pc' = "sync" /\ disk' = [disk EXCEPT ![file] = outputs[file]]
          /\ remains' = [remains EXCEPT ![file] = @ \cup {outputs[file]}]
          /\ UNCHANGED spoiled
       \/ Fail /\ UNCHANGED <<disk, remains>>
    /\ UNCHANGED <<crate, compiling, outputs, todo, file, runs>>

(* Mutant: no sync_all. *)
SyncNothing ==
    /\ pc = "sync"
    /\ pc' = "write" /\ todo' = todo \ {file}
    /\ UNCHANGED <<crate, compiling, outputs, file, disk, remains, runs, spoiled>>

(* sync_all makes the contents of the file certain, and nothing more: no directory *)
(* is ever synchronised, so a file that was new may still be gone after a crash.    *)
SyncAll ==
    /\ pc = "sync"
    /\ \/ /\ pc' = "write" /\ todo' = todo \ {file}
          /\ remains' = [remains EXCEPT ![file] = {outputs[file]} \cup (@ \cap {Absent})]
          /\ UNCHANGED spoiled
       \/ Fail /\ UNCHANGED <<todo, remains>>
    /\ UNCHANGED <<crate, compiling, outputs, file, disk, runs>>

(* Mutant: one file is enough. *)
ReturnEarly ==
    /\ pc = "write"
    /\ pc' = "done"
    /\ UNCHANGED <<crate, compiling, outputs, todo, file, disk, remains,
                   runs, spoiled>>

Return ==
    /\ pc = "write" /\ todo = {}
    /\ pc' = "done"
    /\ UNCHANGED <<crate, compiling, outputs, todo, file, disk, remains,
                   runs, spoiled>>

(* The machine stops, at any moment, and starts again with what the disk has kept. *)
Crash ==
    /\ \E d \in [File -> UNION {remains[f] : f \in File}] :
         /\ \A f \in File : d[f] \in remains[f]
         /\ disk' = d /\ remains' = [f \in File |-> {d[f]}]
    /\ IF pc \in FileOpen THEN Fail ELSE pc' = "failed" /\ UNCHANGED spoiled
    /\ pc # "failed" \/ \E f \in File : remains[f] # {disk[f]}
    /\ UNCHANGED <<crate, compiling, outputs, todo, file, runs>>

Step == OpenModule \/ ParseItem \/ EndModule \/ Finalise \/ CreateFile \/ WriteAll
        \/ SyncAll \/ Return
Next == RunBuild \/ Step \/ Crash

Spec == Init /\ [][Next]_vars

-----------------------------------------------------------------------------
(* When run_build returns, every file of the map is on disk and complete, whatever *)
(* earlier runs had left there, and a crash leaves it so or, if it was new, takes   *)
(* it away as a whole: a crash never finds it truncated or in an older version.     *)
DoneMeansOnDisk ==
    pc = "done" => \A f \in DOMAIN outputs :
        disk[f] = outputs[f] /\ remains[f] \subseteq {outputs[f], Absent}

(* Every file that is truncated on disk, or that a crash may leave so, was paid    *)
(* for by a run that ended while it had a file open: one run, failing or crashing  *)
(* wherever it may, spoils one file at most, because the contents of a file are    *)
(* synchronised before the next is opened.                                         *)
OneTornFilePerSpoiledRun ==
    Cardinality({f \in File : disk[f] = Torn \/ Torn \in remains[f]})
        <= spoiled + (IF pc \in FileOpen THEN 1 ELSE 0)

(* What the back end should have been given: the public entries of all modules.  *)
PublicRefused(c, m) ==
    {k \in DOMAIN c[m].entries : c[m].entries[k].public /\ ~c[m].entries[k].accepted}

(* Nothing is written unless the whole crate was accepted: every module was found *)
(* and parsed, no public item was refused, in whichever module it stands, and     *)
(* every file was made from exactly the public items, each handed over once.      *)
OnlyWholeCratesAreWritten ==
    pc \in Writing \cup {"done"} =>
        /\ \A m \in DOMAIN crate : crate[m].parses /\ PublicRefused(crate, m) = {}
        /\ \A f \in DOMAIN outputs : \A e \in Item :
             Cardinality({k \in DOMAIN outputs[f] : outputs[f][k] = e})
               = Cardinality(UNION {{<<m, k>> : k \in {j \in DOMAIN crate[m].entries :
                                        crate[m].entries[j].public /\ crate[m].entries[j].item = e}}
                                    : m \in DOMAIN crate})

(* An error report names every refused item of the first module that has one: an  *)
(* early error does not hide a later one of the same module.                      *)
ReportIsComplete ==
    pc = "errors" /\ errors # <<>> =>
        \E m \in DOMAIN crate :
            /\ \A n \in 1..(m - 1) : PublicRefused(crate, n) = {}
            /\ Len(errors) = Cardinality(PublicRefused(crate, m))
            /\ \A k \in PublicRefused(crate, m) :
                 \E i \in DOMAIN errors : errors[i] = crate[m].entries[k].item

-----------------------------------------------------------------------------
(* What carries the proofs: the files already written stay as they are, and the one *)
(* being written is the only one that this run may leave truncated.                 *)
Spoilt == {f \in File : disk[f] = Torn \/ Torn \in remains[f]}
WriteInv ==
    /\ pc \in Writing \cup {"done"} =>
          /\ todo \subseteq DOMAIN outputs /\ DOMAIN outputs \subseteq File
          /\ outputs \in [DOMAIN outputs -> Content]
          /\ \A f \in DOMAIN outputs \ todo :
               disk[f] = outputs[f] /\ remains[f] \subseteq {outputs[f], Absent}
    /\ \A f \in File : disk[f] \in remains[f]
    /\ pc \in FileOpen => file \in todo /\ Torn \in remains[file]
    /\ pc = "sync" => disk[file] = outputs[file]
    /\ pc = "done" => todo = {}

(* The items that parse_mod has handed over so far: of the modules opened before the *)
(* last all, of the last those that are no longer to come.  They are what the back   *)
(* end has, or are in the report.                                                    *)
Opened == Len(crate) - Len(modules)
Seen(n) ==
    {k \in DOMAIN crate[n].entries : n < Opened \/ k <= Len(crate[n].entries) - Len(entries)}
Handed(e) ==
    UNION {{<<n, k>> : k \in {j \in Seen(n) : LET x == crate[n].entries[j]
                                              IN  x.public /\ x.accepted /\ x.item = e}}
           : n \in 1..Opened}
HandedOver(e) ==
    /\ IsFiniteSet(Handed(e))
    /\ Cardinality({k \in DOMAIN lang : lang[k] = e}) = Cardinality(Handed(e))

ModulesInv ==
    /\ Opened \in Nat
    /\ \A n \in DOMAIN modules : modules[n] = crate[Opened + n]
    /\ \A n \in 1..Opened : /\ crate[n].parses
                            /\ n < Opened \/ pc = "module" => PublicRefused(crate, n) = {}
RefusedUpTo(c, m, done) == {k \in PublicRefused(c, m) : k <= done}
EntriesInv ==
    IF pc = "module"
    THEN entries = <<>> /\ errors = <<>>
    ELSE LET given == crate[Opened].entries
             done == Len(given) - Len(entries)
         IN  /\ Opened # 0 /\ done \in Nat
             /\ \A n \in DOMAIN entries : entries[n] = given[done + n]
             /\ Len(errors) = Cardinality(RefusedUpTo(crate, Opened, done))
             /\ \A k \in RefusedUpTo(crate, Opened, done) :
                  \E i \in DOMAIN errors : errors[i] = given[k].item
ScanInv ==
    pc \in {"module", "items"} => ModulesInv /\ EntriesInv /\ \A e \in Item : HandedOver(e)
=============================================================================
