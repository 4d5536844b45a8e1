-------------------------------- MODULE Targets --------------------------------
(***************************************************************************)
(* Target strings: which of them an allow-list of the registry writer      *)
(* lets in (output/registry_writer.rs), and what a target resolves to      *)
(* (resolve_target.rs).  Texts are sequences of characters.                *)
(***************************************************************************)
EXTENDS Bindings, Names

CONSTANT
    MaxPathLength   \* MAX_MODULE_PATH_LEN; 512 in the code

------------------------------------------------------------------------------
(* Allow-lists *)

\* What precedes the first ":" of a target; all of it if there is none.
ModulePath(target) ==
    LET colons == {i \in DOMAIN target : target[i] = ":"}
    IN  IF colons = {} THEN target
        ELSE SubSeq(target, 1, (CHOOSE i \in colons : \A j \in colons : i <= j) - 1)

TrimDots(text) ==
    LET kept == {0} \cup {i \in DOMAIN text : text[i] # "."}
    IN  SubSeq(text, 1, CHOOSE i \in kept : \A j \in kept : j <= i)

\* Mutant of MatchesPrefix: any text that starts alike.
StartsWithPrefix(path, prefix) == TrimDots(prefix) # <<>> /\ IsPrefix(TrimDots(prefix), path)

\* module_path_matches_prefix: the prefix itself, or what follows it after a dot.
MatchesPrefix(path, prefix) ==
    LET normalized == TrimDots(prefix)
    IN  /\ normalized # <<>>
        /\ path = normalized \/ IsPrefix(normalized \o <<".">>, path)

\* target_allowed: no list allows everything.
TargetAllowed(target, prefixes) ==
    \/ prefixes = None
    \/ \E ps \in {prefixes} \ {None} : \E p \in ps : MatchesPrefix(ModulePath(target), p)

\* The reference: the components of a path, separated by dots.
Components(text) == Split(text, ".")

------------------------------------------------------------------------------
(* Resolution *)

\* IDENT_RE
IsIdentifier(text) ==
    /\ text # <<>>
    /\ IsLower(text[1]) \/ IsUpper(text[1]) \/ text[1] = "_"
    /\ \A i \in DOMAIN text : IsAlphanumeric(text[i]) \/ text[i] = "_"

\* validate_module_path; control characters but tab have names of more than one letter here.
ModulePathValid(path) ==
    /\ Len(path) <= MaxPathLength
    /\ \A i \in DOMAIN path : path[i] # "control"
    /\ ~\E i \in 1 .. Len(path) - 1 : path[i] = "." /\ path[i + 1] = "."

\* resolve_target: what precedes the last ":" and what follows it, or None.
ResolveTarget(target) ==
    LET last == SelectLastInSeq(target, LAMBDA c : c = ":")
        path == SubSeq(target, 1, last - 1)
        name == SubSeq(target, last + 1, Len(target))
    IN  IF last > 1 /\ ModulePathValid(path) /\ IsIdentifier(name)
        THEN [module_path |-> path, qualname |-> name]
        ELSE None
===============================================================================
