----------------------------- MODULE RustWriter -----------------------------
(***************************************************************************)
(* RustWriter::write (output/rust_writer.rs): a stub file for each module, *)
(* under directories named after the id.  The first error ends the call,   *)
(* and what was written stays.                                             *)
(***************************************************************************)
EXTENDS Catalogue, Names

VARIABLES
    files,    \* path -> the module the stub there was made of
    written,  \* results: [module_id, path], in order
    wrote     \* whether write has been called

writerVars == <<files, written, wrote>>

WriterIdle == files = <<>> /\ written = <<>> /\ wrote = FALSE

\* Mutant of ModulePath: the id is the name of the file, with "_" for its dots.
FlatPath(id) == <<Joined(Split(id, "."), "_")>>

\* Directories and the file's stem; pushing an empty directory adds nothing to a path.
ModulePath(id) ==
    LET parts == Split(id, ".")
    IN  Append(NonEmpty(Front(parts)), Last(parts))

\* What of a module the stub holds.
Stub(m) == [module_id |-> m.module_id, description |-> m.description]

StartWrite ==
    /\ stage = "ready" /\ ~wrote
    /\ Goto("write") /\ wrote' = TRUE
    /\ UNCHANGED <<modules, files, written>>

WriteStub ==
    /\ stage = "write" /\ Len(written) < Len(modules)
    /\ LET m == modules[Len(written) + 1] IN
        /\ files' = Put(files, ModulePath(m.module_id), Stub(m))
        /\ written' = Append(written, [module_id |-> m.module_id, path |-> ModulePath(m.module_id)])
    /\ UNCHANGED <<stage, modules, wrote>>

\* No directory, or no file, can be made: the results so far are lost to the caller.
WriteFails ==
    /\ stage = "write" /\ Len(written) < Len(modules)
    /\ Goto("failed") /\ UNCHANGED <<modules, files, written, wrote>>

EndWrite ==
    /\ stage = "write" /\ Len(written) = Len(modules)
    /\ Goto("ready") /\ UNCHANGED <<modules, files, written, wrote>>

------------------------------------------------------------------------------
(* Properties *)

\* Ids whose every segment has letters in it, as the scanners that normalise ids make them.
WithoutEmptySegments(list) ==
    \A i \in 1 .. Len(list) : \A j \in 1 .. Len(Split(list[i].module_id, ".")) :
        Split(list[i].module_id, ".")[j] # <<>>

(* Each file a result names holds the stub of the module the result names: no module takes  *)
(* the file of another, and each module that is not yet written finds its file untouched    *)
(* (write, module_path).  Ids with an empty segment are left out: "a..b" and "a.b" do share *)
(* a file.                                                                                  *)
FilesHoldTheirModule ==
    wrote /\ WithoutEmptySegments(modules) =>
        /\ \A i \in 1 .. Len(written) :
             /\ written[i].path \in DOMAIN files
             /\ files[written[i].path].module_id = written[i].module_id
        /\ Cardinality(DOMAIN files) = Len(written)
===============================================================================
