------------------------------- MODULE Scanner -------------------------------
(***************************************************************************)
(* What every scan goes through (scanner.rs, and OpenAPIScanner::scan of   *)
(* openapi_scanner.rs as far as it does not look into an operation): the   *)
(* modules made one after the other, filter_modules and deduplicate_ids    *)
(* over all of them, then a warning for each id that is not a legal one.   *)
(***************************************************************************)
EXTENDS Catalogue, Names

CONSTANTS
    Decimal(_),      \* a number -> its digits
    MaxSuffix,       \* bound on the numbers tried; the code has none
    Batches,         \* lists of modules a scanner of a framework may bring
    Documents,       \* the documents a caller may scan
    ScanOptions,     \* and the options it may scan them with
    IsPattern(_),    \* whether a text is a regular expression
    Matches(_, _)    \* pattern, id -> whether it matches somewhere

VARIABLES
    pending,      \* the modules still to come
    originals,    \* original_ids: the ids of all of them
    occurrences,  \* occurrence_count
    assigned,     \* the ids given out
    document,     \* the spec being scanned, or last scanned; None before
    options,      \* and its ScanOptions
    position,     \* operations behind us
    found         \* modules: those made so far

dedupVars == <<pending, originals, occurrences, assigned>>

scanVars == <<document, options, position, found>>

Members(list) == {list[i] : i \in 1 .. Len(list)}

ASSUME DedupAssumption ==
    /\ MaxSuffix \in Nat
    /\ \A n \in 1 .. MaxSuffix : Decimal(n) \in Seq(Digits)
    /\ Batches \subseteq Seq(UNION {Members(b) : b \in Batches})
    /\ \A b \in Batches : \A m \in Members(b) : {"module_id", "warnings"} \subseteq DOMAIN m

------------------------------------------------------------------------------
(* deduplicate_ids: modules that share an id get numbered ones, module by module, in the *)
(* order they were found *)

IdsOf(list) == {list[i].module_id : i \in 1 .. Len(list)}

DedupIdle == pending = <<>> /\ originals = {} /\ occurrences = <<>> /\ assigned = {}

StartDedup(batch) ==
    /\ Goto("dedup") /\ modules' = <<>>
    /\ pending' = batch
    /\ originals' = IdsOf(batch)
    /\ occurrences' = [id \in IdsOf(batch) |-> 0]
    /\ assigned' = {}

Free(id) == id \notin assigned /\ id \notin originals

Suffixed(id, n) == id \o <<"_">> \o Decimal(n)

\* Mutant of Rename: an id that is still to come is taken.
RenameBlindly(id, n) ==
    {Suffixed(id, k) : k \in {j \in n .. MaxSuffix :
        /\ Suffixed(id, j) \notin assigned
        /\ \A i \in n .. (j - 1) : Suffixed(id, i) \in assigned}}

\* The first numbered id, from n on, that is neither given out nor among the originals.
Rename(id, n) ==
    {Suffixed(id, k) : k \in {j \in n .. MaxSuffix :
        Free(Suffixed(id, j)) /\ \A i \in n .. (j - 1) : ~Free(Suffixed(id, i))}}

\* Mutant of NewId: the first module of an id is numbered with the others.
NewIdNumbered(id, n) == Rename(id, n)

\* The first module of an id keeps it.
NewId(id, n) == IF n = 1 THEN {id} ELSE Rename(id, n)

DedupStep ==
    /\ stage = "dedup" /\ pending # <<>>
    /\ LET m == Head(pending)
           n == occurrences[m.module_id] + 1
       IN  /\ occurrences' = [occurrences EXCEPT ![m.module_id] = n]
           /\ \E id \in NewId(m.module_id, n) :
                /\ assigned' = assigned \cup {id}
                /\ modules' = Append(modules,
                     IF id = m.module_id THEN m
                     ELSE [Warn(m, <<"renamed", m.module_id>>) EXCEPT !.module_id = id])
    /\ pending' = Tail(pending)
    /\ UNCHANGED <<stage, originals>>

\* The list is complete; what was needed to build it goes.
DedupEnd(finished) ==
    /\ stage = "dedup" /\ pending = <<>>
    /\ modules' = finished
    /\ Goto("ready")
    /\ pending' = <<>> /\ originals' = {} /\ occurrences' = <<>> /\ assigned' = {}

\* By itself: a scanner of a framework brings a batch, as often as it likes.
DedupInit == stage = "idle" /\ modules = <<>> /\ DedupIdle

DedupNext ==
    \/ stage \in {"idle", "ready"} /\ \E b \in Batches : StartDedup(b)
    \/ DedupStep
    \/ DedupEnd(modules)

DedupSpec == DedupInit /\ [][DedupNext]_<<stage, modules, dedupVars>>

------------------------------------------------------------------------------
(* Scanning a document *)

ScanIdle == document = None /\ options = None /\ position = 0 /\ found = <<>>

\* ScanOptions::new: no filter, no prefix, no hook; deprecated operations come too.
DefaultOptions ==
    [include |-> None, exclude |-> None, base_path_prefix |-> <<>>, include_deprecated |-> TRUE,
     hooks |-> {}]

\* The operations of the document: keys of a path item that are no method are passed over.
Entries(spec) ==
    FlattenSeq([i \in 1 .. Len(spec.paths) |->
        LET operations == SelectSeq(spec.paths[i].item, LAMBDA o : o.method \in DOMAIN Spelled)
        IN  [j \in 1 .. Len(operations) |->
                [path |-> spec.paths[i].path, method |-> operations[j].method,
                 operation |-> operations[j].operation]]])

Supported(spec) == spec.openapi \in {"3.0", "3.1"}

PassesFilters(m) ==
    /\ options.include # None => Matches(options.include, m.module_id)
    /\ options.exclude # None => ~Matches(options.exclude, m.module_id)

FilterModules(list) ==
    FlattenSeq([i \in 1 .. Len(list) |-> IF PassesFilters(list[i]) THEN <<list[i]>> ELSE <<>>])

\* Mutant of WithLegalityWarnings: only the ids that were not renamed are looked at.
WarningsUnlessRenamed(list) ==
    [i \in 1 .. Len(list) |->
        IF \/ IllegalSegments(list[i].module_id) = <<>>
           \/ \E w \in list[i].warnings : w[1] = "renamed"
        THEN list[i]
        ELSE Warn(list[i], <<"illegal", list[i].module_id, Head(IllegalSegments(list[i].module_id))>>)]

WithLegalityWarnings(list) ==
    [i \in 1 .. Len(list) |->
        IF IllegalSegments(list[i].module_id) = <<>> THEN list[i]
        ELSE Warn(list[i], <<"illegal", list[i].module_id, Head(IllegalSegments(list[i].module_id))>>)]

\* A document that is not OpenAPI 3.0 or 3.1 is refused.
StartScan ==
    /\ stage = "idle"
    /\ \E spec \in Documents, chosen \in ScanOptions :
        /\ document' = spec /\ options' = chosen
        /\ Goto(IF Supported(spec) THEN "scan" ELSE "failed")
    /\ position' = 0 /\ found' = <<>>
    /\ UNCHANGED <<modules, dedupVars>>

\* What is made of an operation: a module, or None when it is dropped.
ScanModule(m) ==
    /\ stage = "scan" /\ position < Len(Entries(document))
    /\ found' = IF m = None THEN found
                ELSE Append(found, [m EXCEPT !.module_id = NormalizeModuleId(@)])
    /\ position' = position + 1
    /\ UNCHANGED <<stage, modules, document, options, dedupVars>>

\* Patterns are looked at last: one that is no regular expression fails the whole scan.
FilterFound ==
    /\ stage = "scan" /\ position = Len(Entries(document))
    /\ IF \A pattern \in {options.include, options.exclude} \ {None} : IsPattern(pattern)
       THEN StartDedup(FilterModules(found))
       ELSE Goto("failed") /\ UNCHANGED <<modules, dedupVars>>
    /\ UNCHANGED scanVars

EndScan == document # None /\ DedupEnd(WithLegalityWarnings(modules)) /\ UNCHANGED scanVars

\* A scanner of a framework (BaseScanner) brings its modules, and has their ids told apart.
FrameworkScan ==
    /\ stage = "idle" /\ \E batch \in Batches : StartDedup(batch)
    /\ UNCHANGED scanVars

EndFrameworkScan == document = None /\ DedupEnd(modules) /\ UNCHANGED scanVars

\* A module, before its id is normalised, that an operation may have been made into.
IsScanned(m) ==
    /\ {"module_id", "warnings"} \subseteq DOMAIN m
    /\ \E S : m.module_id \in Seq(S)

\* By itself: whatever modules the operations are made into.
ScannerInit == stage = "idle" /\ modules = <<>> /\ DedupIdle /\ ScanIdle

ScannerNext ==
    \/ StartScan \/ FilterFound \/ EndScan
    \/ \E m : (m = None \/ IsScanned(m)) /\ ScanModule(m)
    \/ FrameworkScan \/ EndFrameworkScan
    \/ DedupStep /\ UNCHANGED scanVars

ScannerSpec == ScannerInit /\ [][ScannerNext]_<<stage, modules, dedupVars, scanVars>>

------------------------------------------------------------------------------
(* Properties *)

(* No two modules of the list share an id, whatever ids came in and in whatever order:     *)
(* numbered ids never meet each other, nor an id that is still to come                      *)
(* (deduplicate_ids; writers and registries key modules by these ids).                      *)
IdsDistinct ==
    \A i, j \in 1 .. Len(modules) : modules[i].module_id = modules[j].module_id => i = j

(* Renaming loses no name: of the modules that come with an id the first keeps it, so what  *)
(* refers to the id (a binding, a filter, a caller) still finds a module it named           *)
(* (deduplicate_ids).                                                                       *)
NamesKept == \A id \in originals : occurrences[id] > 0 => id \in IdsOf(modules)

Scanned == document # None /\ stage \in {"ready", "enhance", "write", "shown"}

(* An id that reaches the caller is made of the letters ids are made of, and one that is    *)
(* not a legal module id carries a warning that names it as it is now: after hooks, prefix, *)
(* normalisation and renaming (scan, legality_warning).                                     *)
IllegalIdsWarned ==
    Scanned =>
        \A i \in 1 .. Len(modules) :
            LET id == modules[i].module_id IN
            /\ \A j \in 1 .. Len(id) : InIdAlphabet(id[j]) /\ ~IsUpper(id[j])
            /\ \A j \in 1 .. Len(Split(id, ".")) :
                 ~LegalSegment(Split(id, ".")[j]) =>
                     \E w \in modules[i].warnings : w[1] = "illegal" /\ w[2] = id
===============================================================================
