------------------------------- MODULE Display -------------------------------
(***************************************************************************)
(* DisplayResolver::resolve (display/resolver.rs): what each surface (cli, *)
(* mcp, a2a) calls and says of a module, from binding entries laid over    *)
(* what the scanner found.  One alias an MCP tool cannot have refuses the  *)
(* whole list.                                                             *)
(*                                                                         *)
(* A text an entry leaves out, or gives as something that is no string, is *)
(* None.                                                                   *)
(***************************************************************************)
EXTENDS Catalogue, Names

CONSTANTS
    BindingSources,  \* what resolve is given: files in order of name, each None when it
                     \* cannot be read or parsed, else a sequence of entries
    MaxAlias         \* MCP_ALIAS_MAX; 64 in the code

Surfaces == {"cli", "mcp", "a2a"}

\* An entry, whose aliases are texts or absent.
IsEntry(entry) ==
    {entry.display.alias} \cup {entry.display[s].alias : s \in Surfaces}
        \subseteq Seq(STRING) \cup {None}

ASSUME DisplayAssumption ==
    /\ MaxAlias \in Nat
    /\ \A files \in BindingSources :
         /\ files \in Seq(ToSet(files))
         /\ \A i \in 1 .. Len(files) : files[i] # None =>
              /\ files[i] \in Seq(ToSet(files[i]))
              /\ \A j \in 1 .. Len(files[i]) : IsEntry(files[i][j])

VARIABLES
    shown,  \* "no", "yes", or "refused": whether resolve has been called, and how it ended
    bound   \* the entries it found, by module id

displayVars == <<shown, bound>>

DisplayIdle == shown = "no" /\ bound = <<>>

\* Entries by module id: later files, and later entries of one, win.
BindingMap(files) ==
    LET entries == FlattenSeq([i \in 1 .. Len(files) |-> IF files[i] = None THEN <<>> ELSE files[i]])
        last(id) == CHOOSE i \in 1 .. Len(entries) :
                        /\ entries[i].module_id = id
                        /\ \A j \in i + 1 .. Len(entries) : entries[j].module_id # id
    IN  [id \in {entries[i].module_id : i \in 1 .. Len(entries)} |-> entries[last(id)]]

Silent == [alias |-> None, description |-> None, guidance |-> None]

NoEntry ==
    [display |-> [alias |-> None, description |-> None, documentation |-> None, guidance |-> None,
                  tags |-> None, cli |-> Silent, mcp |-> Silent, a2a |-> Silent],
     description |-> None, documentation |-> None, tags |-> None]

\* The first of some texts that is given and not empty; the last of them in any case.
FirstGiven(texts) ==
    LET given == {i \in 1 .. Len(texts) : i = Len(texts) \/ texts[i] \notin {None, <<>>}}
    IN  texts[CHOOSE i \in given : \A j \in given : i <= j]

\* What all surfaces start from: an empty description of the entry itself does win.
\* A suggested alias in the metadata counts even when it is empty.
DefaultAlias(m, entry) ==
    FirstGiven(<<entry.display.alias, m.suggested_alias,
                 IF "suggested_alias" \in DOMAIN m.metadata
                 THEN m.metadata["suggested_alias"] ELSE m.module_id>>)
DefaultDescription(m, entry) ==
    FirstGiven(<<entry.display.description,
                 IF entry.description # None THEN entry.description ELSE m.description>>)

DefaultDocumentation(m, entry) ==
    FirstGiven(<<entry.display.documentation,
                 IF entry.documentation # None THEN entry.documentation ELSE m.documentation>>)
DefaultGuidance(entry) == FirstGiven(<<entry.display.guidance, None>>)

\* No tags at all are tags as well.
DefaultTags(m, entry) ==
    CASE entry.display.tags # None -> entry.display.tags
      [] entry.display.tags = None /\ entry.tags # None -> entry.tags
      [] OTHER -> m.tags

SurfaceAlias(m, entry, surface) ==
    FirstGiven(<<entry.display[surface].alias, DefaultAlias(m, entry)>>)

\* An alias given for the shell that a shell cannot take gives way to the default one.
CliAlias(m, entry) ==
    IF entry.display["cli"].alias # None /\ ~CliAliasLegal(SurfaceAlias(m, entry, "cli"))
    THEN DefaultAlias(m, entry)
    ELSE SurfaceAlias(m, entry, "cli")

McpAlias(m, entry) == SanitizeMcpAlias(SurfaceAlias(m, entry, "mcp"))

Acceptable(alias) == Len(alias) <= MaxAlias /\ McpAliasLegal(alias)

\* A surface says what is said for it, or else what is said everywhere.
OnSurface(m, entry, surface, alias) ==
    [alias       |-> alias,
     description |-> FirstGiven(<<entry.display[surface].description, DefaultDescription(m, entry)>>),
     guidance    |-> FirstGiven(<<entry.display[surface].guidance, DefaultGuidance(entry)>>)]

DisplayOf(m, entry) ==
    [alias |-> DefaultAlias(m, entry), description |-> DefaultDescription(m, entry),
     documentation |-> DefaultDocumentation(m, entry), guidance |-> DefaultGuidance(entry),
     tags |-> DefaultTags(m, entry),
     cli |-> OnSurface(m, entry, "cli", CliAlias(m, entry)),
     mcp |-> OnSurface(m, entry, "mcp", McpAlias(m, entry)),
     a2a |-> OnSurface(m, entry, "a2a", SurfaceAlias(m, entry, "a2a"))]

EntryOf(m, map) == IF m.module_id \in DOMAIN map THEN map[m.module_id] ELSE NoEntry

\* The list comes back with an overlay for every module, or not at all.
ResolveDisplay ==
    /\ stage = "ready" /\ shown = "no"
    /\ \E files \in BindingSources :
        LET map == BindingMap(files)
            entry(i) == EntryOf(modules[i], map)
        IN  /\ bound' = map
            /\ IF \A i \in 1 .. Len(modules) : Acceptable(McpAlias(modules[i], entry(i)))
               THEN /\ shown' = "yes" /\ stage' = stage
                    /\ modules' = [i \in 1 .. Len(modules) |->
                           [modules[i] EXCEPT
                               !.metadata = Put(@, "display", DisplayOf(modules[i], entry(i)))]]
               ELSE shown' = "refused" /\ Goto("failed") /\ UNCHANGED modules

------------------------------------------------------------------------------
(* Properties *)

\* A name no replacing of characters can mend: empty, too long, or with a dash in front.
BeyondMending(alias) ==
    alias = <<>> \/ Len(alias) >= MaxAlias \/ alias[1] = "-"

(* Every tool gets a name its surface can take: an MCP name is legal and short enough, a    *)
(* shell name is legal or the one the module goes by everywhere.  And a list is not refused *)
(* for a name that could have been mended: if it is, a name in play (the id, a suggested    *)
(* alias, one a binding of that module gives) is empty, too long, or begins with a dash.    *)
(* What a surface says of a module is what all say, or what its own binding says for it     *)
(* (resolve, resolve_surface, sanitize_mcp_alias, validate_aliases).                        *)
ToolNamesUsable ==
    /\ shown = "yes" =>
        \A i \in 1 .. Len(modules) :
            LET display == modules[i].metadata["display"]
                said == EntryOf(modules[i], bound).display
            IN
            /\ Acceptable(display.mcp.alias)
            /\ CliAliasLegal(display.cli.alias) \/ display.cli.alias = display.alias
            /\ \A surface \in Surfaces, field \in {"description", "guidance"} :
                 display[surface][field] \in {display[field], said[surface][field]}
    /\ shown = "refused" =>
        \E i \in 1 .. Len(modules) :
            LET m == modules[i]
                entry == EntryOf(m, bound)
                overlaid == {m.suggested_alias, entry.display.alias, entry.display["mcp"].alias}
                names == (overlaid \ {None, <<>>}) \cup {m.module_id}
                         \cup (IF "suggested_alias" \in DOMAIN m.metadata
                               THEN {m.metadata["suggested_alias"]} ELSE {})
            IN  \E name \in names : BeyondMending(name)
===============================================================================
