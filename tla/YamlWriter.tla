------------------------------ MODULE YamlWriter ------------------------------
(***************************************************************************)
(* YAMLWriter::write (output/yaml_writer.rs): a batch of modules is        *)
(* written to a directory, each to a temporary file that is synced and     *)
(* renamed.  The first I/O error ends the batch.  The process may die at   *)
(* any step, and the power may fail.  One batch is written at a time.      *)
(*                                                                         *)
(* The names of the directory that matter are those of binding files; of   *)
(* the others, temporary files are kept apart.  A symlink under a          *)
(* binding name shows the document it leads to.                            *)
(***************************************************************************)
EXTENDS Bindings

CONSTANTS
    Batches,        \* the sequences of modules a caller may write
    Options,        \* the [dry_run, verify, verifiers] of its calls
    Directories,    \* what the first batch may find: [files, links, temps]
    MaxBatches      \* bound: how many batches are written

\* The modules a caller may write, and the document of each.
Modules == UNION {{b[i] : i \in DOMAIN b} : b \in Batches}
Document == [m \in Modules |-> Binding(m)]

\* A module as a scanner has it; what the two ends take apart has its type.
IsModule(m) ==
    /\ m = [module_id |-> m.module_id, target |-> m.target, description |-> m.description,
            documentation |-> m.documentation, tags |-> m.tags, version |-> m.version,
            annotations |-> m.annotations, examples |-> m.examples, metadata |-> m.metadata,
            suggested_alias |-> m.suggested_alias, input_schema |-> m.input_schema,
            output_schema |-> m.output_schema, display |-> m.display, warnings |-> m.warnings]
    /\ {m.module_id, m.target, m.tags} \subseteq Seq(STRING)
    /\ m.annotations = None \/ m.annotations \in [streaming : BOOLEAN]
    /\ m.examples \in Seq({object \in {m.examples[i] : i \in DOMAIN m.examples} : Parses(object)})
    /\ \A value \in {m.input_schema, m.output_schema} \cup ({m.display} \ {None}) :
         value = <<value[1], value[2]>>

Unwritten == [state |-> "blank", doc |-> None, synced |-> FALSE]
Torn == [state |-> "torn", doc |-> None, synced |-> FALSE]
Whole(doc) == [state |-> "whole", doc |-> doc, synced |-> FALSE]
Synced(content) == [state |-> content.state, doc |-> content.doc, synced |-> TRUE]
Damaged(content) == IF content.synced THEN content ELSE Torn

ASSUME WriterAssumption ==
    /\ \A b \in Batches : b \in Seq(Modules)
    /\ \A m \in Modules : IsModule(m)
    /\ \A o \in Options : {o.dry_run, o.verify} \subseteq BOOLEAN
    /\ \A d \in Directories : \A n \in DOMAIN d.files : d.files[n].synced
    /\ None \notin {Synced(Whole(Document[m])) : m \in Modules}

VARIABLES
    files,      \* name -> the content found under it
    links,      \* the names that are symlinks
    settled,    \* files, as the directory has them on disk
    temps,      \* name -> the content of its temporary file
    pc, batch, options, results,
    taken,      \* written_names: the names this batch has claimed
    current,    \* the name the module at hand is written to, or None
    started,    \* history: batches started
    vouched,    \* history: names whose content was verified since it was put there
    excused     \* history: names whose temporary file a failed removal or a death left

disk == <<files, links, settled, temps>>
writer == <<pc, batch, options, results, taken, current, started>>
writerVars == <<disk, writer, vouched, excused>>

Module == batch[Len(results) + 1]

Init ==
    /\ \E d \in Directories : files = d.files /\ links = d.links /\ temps = d.temps
    /\ settled = files
    /\ pc = "idle"
    /\ batch = <<>>
    /\ options = [dry_run |-> FALSE, verify |-> FALSE, verifiers |-> <<>>]
    /\ results = <<>>
    /\ taken = {}
    /\ current = None
    /\ started = 0
    /\ vouched = {}
    /\ excused = DOMAIN temps

Goto(label) ==
    /\ pc' = label
    /\ UNCHANGED <<batch, options, results, taken, current, started>>

\* The call returns, with what it has in results or with an error.
Return(verdict) ==
    /\ pc' = verdict
    /\ current' = None
    /\ UNCHANGED <<batch, options, results, taken, started>>

\* The module at hand is done with; the loop goes on to the next.
Report(path, verified) ==
    /\ results' = Append(results, [module_id |-> Module.module_id, path |-> path, verified |-> verified])
    /\ pc' = "loop"
    /\ current' = None
    /\ UNCHANGED <<batch, options, started>>

------------------------------------------------------------------------------
Begin ==
    /\ pc \in {"idle", "ok", "error"}
    /\ started < MaxBatches
    /\ \E b \in Batches, o \in Options :
         /\ batch' = b
         /\ options' = o
         /\ pc' = IF b = <<>> \/ o.dry_run THEN "loop" ELSE "create_dir"
    /\ started' = started + 1
    /\ results' = <<>> /\ taken' = {} /\ current' = None
    /\ UNCHANGED <<disk, vouched, excused>>

\* create_dir_all and canonicalize, either of which may fail.
CreateDir ==
    /\ pc = "create_dir"
    /\ Goto("loop") \/ Return("error")
    /\ UNCHANGED <<disk, vouched, excused>>

Finish ==
    /\ pc = "loop"
    /\ Len(results) = Len(batch)
    /\ Return("ok")
    /\ UNCHANGED <<disk, vouched, excused>>

DryRun ==
    /\ pc = "loop"
    /\ Len(results) < Len(batch)
    /\ options.dry_run
    /\ Report(None, TRUE)
    /\ UNCHANGED <<disk, taken, vouched, excused>>

\* A name is claimed whether or not it is then written; a symlink is refused.
Claim ==
    /\ pc = "loop"
    /\ Len(results) < Len(batch)
    /\ ~options.dry_run
    /\ LET name == FreeName(SanitizeFilename(Module.module_id), taken)
       IN  /\ taken' = taken \cup {name}
           /\ \/ /\ name \in links
                 /\ Report(name, FALSE)
              \/ /\ name \notin links
                 /\ current' = name
                 /\ pc' = "create_temp"
                 /\ UNCHANGED <<batch, options, results, started>>
    /\ UNCHANGED <<disk, vouched, excused>>

\* File::create truncates what an earlier batch may have left.
CreateTemp ==
    /\ pc = "create_temp"
    /\ \/ /\ temps' = Put(temps, current, Unwritten)
          /\ Goto("write_temp")
       \/ /\ Goto("remove_temp")
          /\ UNCHANGED temps
    /\ UNCHANGED <<files, links, settled, vouched, excused>>

WriteTemp ==
    /\ pc = "write_temp"
    /\ \/ /\ temps' = Put(temps, current, Whole(Document[Module]))
          /\ Goto("sync_temp")
       \/ /\ temps' = Put(temps, current, Torn)
          /\ Goto("remove_temp")
    /\ UNCHANGED <<files, links, settled, vouched, excused>>

SyncTemp ==
    /\ pc = "sync_temp"
    /\ \/ /\ temps' = Put(temps, current, Synced(temps[current]))
          /\ Goto("rename")
       \/ /\ Goto("remove_temp")
          /\ UNCHANGED temps
    /\ UNCHANGED <<files, links, settled, vouched, excused>>

\* Mutant of Rename: a rename that fails leaves the temporary file behind.
RenameOrLeave ==
    /\ pc = "rename"
    /\ \/ /\ files' = Put(files, current, temps[current])
          /\ temps' = [n \in DOMAIN temps \ {current} |-> temps[n]]
          /\ vouched' = vouched \ {current}
          /\ Goto("sync_dir")
       \/ /\ Return("error")
          /\ UNCHANGED <<files, temps, vouched>>
    /\ UNCHANGED <<links, settled, excused>>

Rename ==
    /\ pc = "rename"
    /\ \/ /\ files' = Put(files, current, temps[current])
          /\ temps' = [n \in DOMAIN temps \ {current} |-> temps[n]]
          /\ vouched' = vouched \ {current}
          /\ Goto("sync_dir")
       \/ /\ Goto("remove_temp")
          /\ UNCHANGED <<files, temps, vouched>>
    /\ UNCHANGED <<links, settled, excused>>

\* The removal's own failure is ignored; the error is the one that led here.
RemoveTemp ==
    /\ pc = "remove_temp"
    /\ Return("error")
    /\ \/ /\ temps' = [n \in DOMAIN temps \ {current} |-> temps[n]]
          /\ UNCHANGED excused
       \/ /\ current \in DOMAIN temps
          /\ excused' = excused \cup {current}
          /\ UNCHANGED temps
    /\ UNCHANGED <<files, links, settled, vouched>>

\* Best effort: the directory may not be opened, and its sync may fail.
SyncDir ==
    /\ pc = "sync_dir"
    /\ settled' = files \/ settled' = settled
    /\ Goto("verify")
    /\ UNCHANGED <<files, links, temps, vouched, excused>>

\* The built-in check, if asked for, and after it, if it passed, the custom verifiers.
Verify ==
    /\ pc = "verify"
    /\ \E readable \in BOOLEAN :
         LET content == files[current]
             builtin == options.verify => RunVerifierChain(<<"yaml">>, content, readable) = {TRUE}
         IN  \E accepted \in RunVerifierChain(options.verifiers, content, readable) :
               LET verified == builtin /\ accepted IN
               /\ Report(current, verified)
               /\ vouched' = vouched \cup
                      (IF options.verify /\ verified THEN {current} ELSE {})
    /\ UNCHANGED <<disk, taken, excused>>

------------------------------------------------------------------------------
(* Failures *)

Dies ==
    /\ pc' = "idle"
    /\ batch' = <<>> /\ results' = <<>> /\ taken' = {} /\ current' = None
    /\ UNCHANGED <<options, started>>
    /\ excused' = excused \cup DOMAIN temps

Crash ==
    /\ pc \notin {"idle", "ok", "error"}
    /\ Dies
    /\ UNCHANGED <<disk, vouched>>

\* Each name shows what it did or, if the change had not settled, what it did
\* before; what was not synced is damaged.
PowerLoss ==
    /\ Dies
    /\ \E undone \in SUBSET {n \in DOMAIN files :
                                n \notin DOMAIN settled \/ settled[n] # files[n]} :
         files' = [n \in (DOMAIN files \ undone) \cup DOMAIN settled |->
                      Damaged(IF n \in undone THEN settled[n] ELSE files[n])]
    /\ settled' = files'
    /\ temps' = [n \in DOMAIN temps |-> Damaged(temps[n])]
    /\ vouched' = {n \in vouched \cap DOMAIN files' : files'[n] = files[n]}
    /\ UNCHANGED links

WriterStep ==
    \/ Begin \/ CreateDir \/ Finish \/ DryRun \/ Claim
    \/ CreateTemp \/ WriteTemp \/ SyncTemp \/ Rename \/ RemoveTemp
    \/ SyncDir \/ Verify

------------------------------------------------------------------------------
(* Properties of the writer *)

\* What the loader is to make of a module's file: all of the module but its warnings, the
\* forbidden metadata, and what is no object where one is asked for.
AsLoaded(m) ==
    [m EXCEPT !.warnings = <<>>,
              !.metadata = WithoutForbidden(@),
              !.input_schema = IF @[1] = "object" THEN @ ELSE EmptyObject,
              !.output_schema = IF @[1] = "object" THEN @ ELSE EmptyObject,
              !.display = IF @ # None /\ @[1] = "object" THEN @ ELSE None]

\* A result that is reported as verified names a file that holds the document of
\* its own module, also after the rest of the batch was written over the same
\* directory (yaml_writer.rs:80-91); and the loader, "inverse of the YAML writer",
\* reads that module back from it (build_binding, parse_entry).
ReportsTrue ==
    \A i \in DOMAIN results : results[i].verified /\ ~options.dry_run =>
        /\ results[i].path \in DOMAIN files
        /\ LET doc == files[results[i].path].doc IN
           /\ doc = Document[batch[i]]
           /\ batch[i].module_id # <<>> /\ batch[i].target # <<>> =>
                ~DocumentRejected(doc, FALSE) /\ ModulesOf(doc) = <<AsLoaded(batch[i])>>

\* No temporary file outlives the writing of its module, whatever step failed,
\* unless its removal failed too or the process died (yaml_writer.rs:132).
NoStaleTemp ==
    DOMAIN temps \subseteq excused \cup {current}

\* A file the built-in check has passed holds the document of a module that was written, and a
\* loose load takes it: it cannot be what makes an all-or-nothing load fail.  A strict load
\* refuses it just when one of the module's schemas is no object, which the check does not look
\* at (verifiers.rs:59-78, binding_loader.rs:515-571).
VerifiedIsLoadable ==
    \A n \in vouched : \E m \in Modules :
        /\ files[n].doc = Document[m]
        /\ \A strict \in BOOLEAN :
             DocumentRejected(files[n].doc, strict) <=>
                 strict /\ ~({m.input_schema[1], m.output_schema[1]} \subseteq {"object"})

Shown(content) == [state |-> content.state, doc |-> content.doc]

Promise == INSTANCE BindingSet WITH
    Documents <- {Shown(Whole(d)) : d \in {Document[m] : m \in Modules}},
    directory <- [n \in DOMAIN files |-> Shown(files[n])],
    settled   <- [n \in DOMAIN settled |-> Shown(settled[n])],
    batch     <- {Shown(Whole(Document[batch[i]])) : i \in DOMAIN batch},
    used      <- taken \ (IF pc \in {"create_temp", "write_temp", "sync_temp",
                                     "rename", "remove_temp"}
                          THEN {current} ELSE {})

\* The directory is a binding set: whole documents of the current batch appear one
\* at a time, never twice under one name, and what is lost at a power failure is
\* what had not settled.
ImplementsPromise == Promise!Spec
==============================================================================
