------------------------------- MODULE Loading -------------------------------
(***************************************************************************)
(* BindingLoader::load_with_pattern (binding_loader.rs) in a process of    *)
(* its own, while the YAML writer of another may be at work in the         *)
(* directory: the directory is listed, one entry at a time, and then one   *)
(* file at a time is read.  Any failure fails the whole load.              *)
(*                                                                         *)
(* A path is a sequence of names below the directory, a name the sequence  *)
(* of its characters.  Besides the writer's files and its temporary ones   *)
(* there may be others, and directories, which nobody touches.             *)
(*                                                                         *)
(* The operating system lists as POSIX has it: a name that is there        *)
(* throughout is returned once, also when a rename replaces its file; one  *)
(* that comes or goes meanwhile may be returned or not; the order is any.  *)
(***************************************************************************)
EXTENDS YamlWriter

CONSTANTS
    LoadOptions,    \* the calls: [strict, recursive, pattern, file]; file is the name of the one
                    \* file to load, or None for the directory
    MaxFiles,       \* MAX_BINDING_FILES_PER_DIR
    MaxNesting,     \* how deep a recursive load goes; 64 in the code
    MaxLoads,       \* bound: how many loads are started
    Alphabet        \* the characters of names, in the order of their codes

VARIABLES
    tree,           \* path -> [kind, content] of what else is there: a "file", a "directory",
                    \* a "link" to a directory, or a link that is "dangling"
    load,           \* [phase, options, seen, found, todo, read]: the entries the listing has
                    \* come upon, and the files it has found them to be; the paths still to
                    \* be read; history: those read
    looked,         \* [throughout, sometime]: the paths of the files there ever since the last
                    \* listing began, and of those there at some time of it, while it goes on
    modules,        \* what has been loaded so far
    loads           \* history: loads started

loaderVars == <<load, modules, loads>>

NotLoading ==
    [phase |-> "idle", options |-> None, seen |-> {}, found |-> {}, todo |-> <<>>, read |-> <<>>]

NotLooked == [throughout |-> {}, sometime |-> {}]

\* A file's document, if it has a list of entries, has a sequence, and their targets are texts.
Listed(content) ==
    LET entries == Entries(content.doc)
    IN  content.state = "whole" =>
            /\ entries \in Seq({entries[i] : i \in DOMAIN entries})
            /\ \A i \in DOMAIN entries : entries[i][1] = "object" =>
                 Given(entries[i][2], "target", "text", <<>>) \in Seq(STRING)

Suffix == <<".", "b", "i", "n", "d", "i", "n", "g", ".", "y", "a", "m", "l">>
Temporary == <<".", "t", "m", "p">>

\* The names of files, and what the writer may make them of.
FileNames == Seq(ToSet(Alphabet))
NameLetters == SafeChars \cup {".", "_"} \cup {Digit(k) : k \in 0 .. 9}

ASSUME LoadingAssumption ==
    /\ \A d \in Directories :
         /\ \A n \in DOMAIN d.files : Listed(d.files[n])
         /\ \A n \in DOMAIN d.temps : Listed(d.temps[n])
         /\ \A p \in DOMAIN d.tree : d.tree[p].kind = "file" => Listed(d.tree[p].content)
         /\ DOMAIN d.files \cup DOMAIN d.temps \subseteq FileNames
         /\ DOMAIN d.tree \subseteq Seq(FileNames) \ {<<>>}
         /\ \A there \in {d.files, d.temps, d.tree} : IsFiniteSet(DOMAIN there)
    /\ Alphabet \in Seq(STRING)
    /\ NameLetters \cup ToSet(Suffix) \cup ToSet(Temporary) \subseteq ToSet(Alphabet)
    /\ \A o \in LoadOptions : o.pattern \in Seq(STRING)

LoadingInit ==
    /\ \E d \in Directories :
        d.files = files /\ d.links = links /\ d.temps = temps /\ tree = d.tree
    /\ load = NotLoading /\ modules = <<>> /\ loads = 0
    /\ looked = NotLooked

------------------------------------------------------------------------------
(* The directory *)

\* The files there are, links followed, by path.
Regular ==
    LET named(f, end) == [p \in {<<n \o end>> : n \in DOMAIN f} |->
                             f[CHOOSE n \in DOMAIN f : p = <<n \o end>>]]
        written == named(files, Suffix)
        temporary == named(temps, Suffix \o Temporary)
        others == [p \in {q \in DOMAIN tree : tree[q].kind = "file"} |-> tree[p].content]
    IN  [p \in DOMAIN written \cup DOMAIN temporary \cup DOMAIN others |->
            CASE p \in DOMAIN written                       -> written[p]
              [] p \in DOMAIN temporary \ DOMAIN written    -> temporary[p]
              [] p \notin DOMAIN written \cup DOMAIN temporary -> others[p]]

Code(c) == CHOOSE i \in DOMAIN Alphabet : Alphabet[i] = c

\* The first of two sequences in lexicographic order, where less orders what they are made of.
Precedes(a, b, less(_, _)) ==
    \/ Len(a) < Len(b) /\ IsPrefix(a, b)
    \/ \E i \in 1 .. Len(a) : /\ i <= Len(b) /\ less(a[i], b[i])
                              /\ SubSeq(a, 1, i - 1) = SubSeq(b, 1, i - 1)

NameLess(a, b) == Precedes(a, b, LAMBDA c, d : Code(c) < Code(d))
PathLess(p, q) == Precedes(p, q, NameLess)

\* The paths, sorted: at each place the one that as many precede.
Sorted(paths) ==
    [i \in 1 .. Cardinality(paths) |->
        CHOOSE p \in paths : Cardinality({q \in paths : PathLess(q, p)}) = i - 1]

------------------------------------------------------------------------------
(* Patterns *)

\* The two cursors and, after a star, where to go on from when it has to take one more
\* character; star is 0 before the first.
MatchBindingPattern(pattern, name) ==
    LET cursors == {c \in (1 .. Len(pattern) + 1) \X (1 .. Len(name) + 1)
                          \X (0 .. Len(pattern)) \X (0 .. Len(name) + 1) :
                        c[3] < c[1] /\ c[4] <= c[2]}
        match[c \in cursors] ==
            LET p == c[1]
                n == c[2]
                star == c[3]
                mark == c[4]
                Sees(token) == p <= Len(pattern) /\ pattern[p] = token
            IN  IF n > Len(name) THEN \A i \in p .. Len(pattern) : pattern[i] = "*"
                ELSE CASE Sees("*") -> match[<<p + 1, n, p, n>>]
                       [] ~Sees("*") /\ (Sees("?") \/ Sees(name[n])) ->
                              match[<<p + 1, n + 1, star, mark>>]
                       [] OTHER -> star # 0 /\ match[<<star + 1, mark + 1, star, mark + 1>>]
    IN  match[<<1, 1, 0, 0>>]

\* The reference: a star stands for any text, a question mark for any character.
Fits(pattern, name) ==
    LET fits[q \in (1 .. Len(pattern) + 1) \X (1 .. Len(name) + 1)] ==
            LET p == q[1]
                n == q[2]
            IN  IF p > Len(pattern) THEN n > Len(name)
                ELSE IF pattern[p] = "*" THEN \E m \in n .. Len(name) + 1 : fits[<<p + 1, m>>]
                ELSE n <= Len(name) /\ pattern[p] \in {"?", name[n]} /\ fits[<<p + 1, n + 1>>]
    IN  fits[<<1, 1>>]

------------------------------------------------------------------------------
(* Steps *)

\* A recursive walk goes into directories, not into links to them.
Walked(path, recursive) ==
    /\ Len(path) <= (IF recursive THEN MaxNesting ELSE 1)
    /\ \A i \in 1 .. Len(path) - 1 :
        SubSeq(path, 1, i) \in DOMAIN tree /\ tree[SubSeq(path, 1, i)].kind = "directory"

\* The entries the walk comes to, by their names.
Candidate(call, path) ==
    Walked(path, call.recursive) /\ MatchBindingPattern(call.pattern, Last(path))

Fail == load' = [NotLoading EXCEPT !.phase = "failed"] /\ looked' = NotLooked /\ modules' = <<>>

\* The directory is opened, or is no directory, or an I/O error fails the load.
Open ==
    /\ load.phase \in {"idle", "failed"}
    /\ loads < MaxLoads
    /\ loads' = loads + 1
    /\ \/ \E o \in {c \in LoadOptions : c.file = None} :
            /\ load' = [NotLoading EXCEPT !.phase = "listing", !.options = o]
            /\ looked' = [throughout |-> DOMAIN Regular, sometime |-> DOMAIN Regular]
            /\ modules' = <<>>
       \/ Fail

\* Mutant of Visit: an entry whose file is gone when it is looked at ends the listing.
VisitUntilGone ==
    /\ load.phase = "listing"
    /\ \E path \in looked.sometime \ load.seen :
         /\ Candidate(load.options, path)
         /\ load' = IF path \in DOMAIN Regular
                    THEN [load EXCEPT !.seen = @ \cup {path}, !.found = @ \cup {path}]
                    ELSE [NotLoading EXCEPT !.phase = "reading", !.options = load.options,
                                            !.todo = Sorted(load.found)]
    /\ UNCHANGED <<looked, modules, loads>>

\* One entry that the pattern names: it is taken if there is a file now, links followed, when
\* its path is looked at.
Visit ==
    /\ load.phase = "listing"
    /\ \E path \in looked.sometime \ load.seen :
         /\ Candidate(load.options, path)
         /\ load' = [load EXCEPT !.seen = @ \cup {path},
                                 !.found = @ \cup ({path} \cap DOMAIN Regular)]
    /\ UNCHANGED <<looked, modules, loads>>

\* The listing is over when nothing that was there throughout is still to come; too many files
\* fail the load.
Sort ==
    /\ load.phase = "listing"
    /\ {path \in looked.throughout : Candidate(load.options, path)} \subseteq load.seen
    /\ \/ /\ Cardinality(load.found) <= MaxFiles
          /\ load' = [NotLoading EXCEPT !.phase = "reading", !.options = load.options,
                                        !.todo = Sorted(load.found)]
          /\ UNCHANGED <<looked, modules>>
       \/ Cardinality(load.found) > MaxFiles /\ Fail
    /\ UNCHANGED loads

\* An entry that cannot be read fails the load.
ListingFails ==
    /\ load.phase = "listing"
    /\ Fail
    /\ UNCHANGED loads

\* Or there is the one file; its name need not match.
ListOne ==
    /\ load.phase \in {"idle", "failed"}
    /\ loads < MaxLoads
    /\ loads' = loads + 1
    /\ \E o \in {c \in LoadOptions : c.file # None} :
         \/ /\ <<o.file>> \in DOMAIN Regular
            /\ load' = [NotLoading EXCEPT !.phase = "reading", !.options = o,
                                          !.todo = <<<<o.file>>>>]
            /\ modules' = <<>>
            /\ UNCHANGED looked
         \/ <<o.file>> \notin DOMAIN Regular /\ Fail

Accepts(content) ==
    content.state = "whole" /\ ~DocumentRejected(content.doc, load.options.strict)

\* One file: an empty one is skipped; any other failure fails the whole load.
Read ==
    /\ load.phase = "reading"
    /\ load.todo # <<>>
    /\ LET path == Head(load.todo)
           there == path \in DOMAIN Regular
           next == [load EXCEPT !.todo = Tail(@), !.read = Append(@, path)]
       IN  \/ /\ there /\ Regular[path].state = "blank"
              /\ load' = next
              /\ UNCHANGED <<looked, modules>>
           \/ /\ there /\ Accepts(Regular[path])
              /\ load' = next
              /\ modules' = modules \o ModulesOf(Regular[path].doc)
              /\ UNCHANGED looked
           \/ (there => Regular[path].state # "blank" /\ ~Accepts(Regular[path])) /\ Fail
    /\ UNCHANGED loads

\* A file may be unreadable, or have grown beyond the size that is read.
ReadFails ==
    /\ load.phase = "reading"
    /\ load.todo # <<>>
    /\ Fail
    /\ UNCHANGED loads

Loaded ==
    /\ load.phase = "reading"
    /\ load.todo = <<>>
    /\ load' = [load EXCEPT !.phase = "loaded"]
    /\ UNCHANGED <<looked, modules, loads>>

LoaderStep ==
    \/ Open \/ Visit \/ Sort \/ ListingFails
    \/ ListOne \/ Read \/ ReadFails \/ Loaded

\* A step of the writer, seen by a listing that goes on.
Watched ==
    LET there == DOMAIN Regular'
        seen  == [throughout |-> looked.throughout \cap there, sometime |-> looked.sometime \cup there]
    IN  looked' = IF load.phase = "listing" THEN seen ELSE looked

------------------------------------------------------------------------------
(* Properties *)

Due(path) ==
    /\ Fits(load.options.pattern, Last(path))
    /\ Walked(path, load.options.recursive)

\* While the writer goes on renaming under its eyes, a load that succeeds leaves out no file that
\* was there all the time it was listing and that the pattern names, linked files included, and
\* takes none that was never there or that the pattern does not name, whatever entries it came
\* upon that were gone when it looked at them; and it takes them in order of path, on which it
\* depends which of two modules of one id is registered (binding_loader.rs:309-388,
\* match_binding_pattern).
LoadComplete ==
    load.phase = "loaded" /\ load.options.file = None =>
        /\ {path \in looked.throughout : Due(path)} \subseteq ToSet(load.read)
        /\ ToSet(load.read) \subseteq {path \in looked.sometime : Due(path)}
        /\ \A i, j \in DOMAIN load.read : i < j => PathLess(load.read[i], load.read[j])
==============================================================================
