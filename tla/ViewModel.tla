------------------------------ MODULE ViewModel ------------------------------
(***************************************************************************)
(* modules_to_view_model and format_view_model (tui_view_model.rs): which  *)
(* modules a table shows, in which order and in which groups, what is in   *)
(* its cells, and which fields of it are written.  The groups of           *)
(* format_modules (formatting/surface.rs) are made the same way, of the    *)
(* whole list.                                                             *)
(***************************************************************************)
EXTENDS Catalogue, Names

CONSTANTS
    Codes,       \* the characters in the order of their codes
    ViewOptions  \* the options a caller may ask for a table with

\* No two characters have one code; a caller's columns and palettes are lists.
ASSUME ViewAssumption ==
    /\ Codes \in Seq(ToSet(Codes))
    /\ \A i, j \in 1 .. Len(Codes) : Codes[i] = Codes[j] => i = j
    /\ \A o \in ViewOptions : /\ o.columns \in Seq(ToSet(o.columns))
                              /\ o.tone_palettes \in Seq(ToSet(o.tone_palettes))

VARIABLE view  \* the last table: its options, the positions it shows, what was written; None before

viewVars == <<view>>

ViewIdle == view = None

\* A filter that lets everything through; a table nobody asked anything of.
DefaultFilter ==
    [tags |-> {}, search |-> <<>>, annotations |-> {}, exposure |-> "all", deprecated |-> TRUE]

DefaultTable ==
    [grouped |-> FALSE, columns |-> <<>>, title |-> None, filter |-> None, sort |-> None,
     group_by |-> None, tone_palettes |-> <<>>, display |-> TRUE]

Code(c) == CHOOSE i \in 1 .. Len(Codes) : Codes[i] = c

TextLess(a, b) ==
    \/ IsStrictPrefix(a, b)
    \/ \E i \in 1 .. Len(a) :
        /\ i <= Len(b) /\ Code(a[i]) < Code(b[i])
        /\ \A j \in 1 .. (i - 1) : a[j] = b[j]

\* The sparse overlay of the module, not the resolved one in its metadata, if asked for.
ShownText(m, field, raw, display) ==
    IF display /\ m.display # None /\ m.display[field] \notin {None, <<>>}
    THEN m.display[field] ELSE raw

ShownDescription(m, o) == ShownText(m, "description", m.description, o.display)
ShownAlias(m, o) == ShownText(m, "alias", m.module_id, o.display)

\* Without annotations a module is discoverable and not deprecated.
Hidden(m) == m.annotations # None /\ "discoverable" \notin m.annotations.flags
Deprecated(m) == m.annotations # None /\ m.annotations.deprecated

Occurs(search, text) ==
    \E i \in 0 .. Len(text) - Len(search) :
        \A j \in 1 .. Len(search) : ToLower(text[i + j]) = ToLower(search[j])

PassesFilter(m, o) ==
    o.filter = None \/
        /\ o.filter.tags \subseteq {m.tags[i] : i \in 1 .. Len(m.tags)}
        /\ Occurs(o.filter.search, m.module_id \o <<" ">> \o ShownDescription(m, o))
        /\ m.annotations = None => o.filter.annotations = {}
        /\ m.annotations # None => o.filter.annotations \subseteq m.annotations.flags
        /\ o.filter.exposure = "exposed" => ~Hidden(m)
        /\ o.filter.exposure = "hidden" => Hidden(m)
        /\ Deprecated(m) => o.filter.deprecated

SortKey(m, o) ==
    CASE o.sort.key = "alias" -> ShownAlias(m, o)
      [] o.sort.key = "description" -> ShownDescription(m, o)
      [] OTHER -> m.module_id

\* Whether the module at i comes before the one at j: equal keys keep the order they came in.
ComesBefore(i, j, o) ==
    LET a == SortKey(modules[i], o)
        b == SortKey(modules[j], o)
    IN  IF o.sort = None \/ o.sort.key \notin {"module_id", "alias", "description"} THEN i < j
        ELSE \/ IF o.sort.descending THEN TextLess(b, a) ELSE TextLess(a, b)
             \/ a = b /\ i < j

\* Those let through, each after the ones that come before it.
Rows(o) ==
    LET kept == {i \in 1 .. Len(modules) : PassesFilter(modules[i], o)}
        before(i) == {j \in kept : ComesBefore(j, i, o)}
    IN  [r \in 1 .. Cardinality(kept) |-> CHOOSE i \in kept : Cardinality(before(i)) = r - 1]

Labels(m, group_by) ==
    CASE group_by = "tag"    -> IF m.tags = <<>> THEN <<"(untagged)">> ELSE m.tags
      [] group_by = "prefix" -> <<Head(Split(m.module_id, "."))>>
      [] OTHER               -> <<"(all)">>

\* The groups, when the row at r is listed as entry[r].
GroupsListing(rows, group_by, entry) ==
    LET labels(r) == Labels(modules[rows[r]], group_by)
        times(r, label) == Cardinality({k \in DOMAIN labels(r) : labels(r)[k] = label})
    IN  [label \in UNION {ToSet(labels(r)) : r \in 1 .. Len(rows)} |->
            FlattenSeq([r \in 1 .. Len(rows) |-> [k \in 1 .. times(r, label) |-> entry[r]]])]

\* Mutant of BuildGroups: a group lists positions in the list, not in the table.
GroupsOfModules(rows, group_by) == GroupsListing(rows, group_by, rows)

\* The rows under each label, a row as often as its module has the label.
BuildGroups(rows, group_by) == GroupsListing(rows, group_by, [r \in 1 .. Len(rows) |-> r])

\* The labels, as they first occur.
LabelOrder(rows, group_by) ==
    LET all == FlattenSeq([r \in 1 .. Len(rows) |-> Labels(modules[rows[r]], group_by)])
    IN  FlattenSeq([i \in 1 .. Len(all) |->
            IF \E j \in 1 .. (i - 1) : all[j] = all[i] THEN <<>> ELSE <<all[i]>>])

------------------------------------------------------------------------------
(* Columns and cells *)

ColumnLabel(key) ==
    CASE key = "module_id"   -> "ID"
      [] key = "alias"       -> "Alias"
      [] key = "description" -> "Description"
      [] key = "tags"        -> "Tags"
      [] OTHER               -> key

\* The first palette is for the tags.
ColumnOf(key, o) ==
    [key |-> key, label |-> ColumnLabel(key), justify |-> "left",
     tone_by |-> IF key = "tags" /\ o.tone_palettes # <<>> THEN o.tone_palettes[1].name ELSE None]

TextCell(value) == [kind |-> "text", value |-> value, tone |-> None]

\* A column nobody knows has empty cells.
CellFor(key, m, o) ==
    CASE key = "module_id"   -> TextCell(m.module_id)
      [] key = "alias"       -> TextCell(ShownAlias(m, o))
      [] key = "description" -> TextCell(ShownDescription(m, o))
      [] key = "tags"        -> [kind |-> "tags", values |-> m.tags]
      [] OTHER               -> TextCell(<<>>)

------------------------------------------------------------------------------
(* What is written: a field that is not given, or says nothing, is left out *)

Without(record, absent) == [field \in DOMAIN record \ absent |-> record[field]]

CellValue(cell) ==
    IF cell.kind = "tags" THEN cell
    ELSE Without(cell, {f \in {"tone"} : cell[f] = None})

ColumnValue(column) ==
    Without(column, {f \in {"justify"} : column[f] = "left"} \cup {f \in {"tone_by"} : column[f] = None})

RowValue(cells, tags) ==
    Without([cells |-> [k \in DOMAIN cells |-> CellValue(cells[k])], tags |-> tags],
            {f \in {"tags"} : tags = <<>>})

Direction(sort) == IF sort.descending THEN "desc" ELSE "asc"

SortValue(sort) ==
    IF sort = None THEN None ELSE [key |-> sort.key, direction |-> Direction(sort)]

GroupValues(rows, o) ==
    LET order == LabelOrder(rows, o.group_by)
    IN  [g \in DOMAIN order |->
            [label |-> order[g], row_indices |-> BuildGroups(rows, o.group_by)[order[g]]]]

RuleValue(rule) == [match |-> [kind |-> "tag_equals", value |-> rule.value], tone |-> rule.tone]

PaletteValue(palette) ==
    [name |-> palette.name, rules |-> [k \in DOMAIN palette.rules |-> RuleValue(palette.rules[k])]]

ViewKind(o) == IF o.grouped THEN "grouped" ELSE "list"

\* TuiViewModel::to_value
Written(rows, o) ==
    Without([schema_version |-> 1, kind |-> ViewKind(o), title |-> o.title,
             columns |-> [k \in DOMAIN o.columns |-> ColumnValue(ColumnOf(o.columns[k], o))],
             rows |-> [r \in DOMAIN rows |->
                         RowValue([k \in DOMAIN o.columns |-> CellFor(o.columns[k], modules[rows[r]], o)],
                                  modules[rows[r]].tags)],
             groups |-> GroupValues(rows, o), sort |-> SortValue(o.sort), filter |-> o.filter,
             tone_palettes |-> [k \in DOMAIN o.tone_palettes |-> PaletteValue(o.tone_palettes[k])]],
            {f \in {"title", "sort", "filter"} : o[f] = None} \cup {f \in {"groups"} : ~o.grouped}
                \cup {f \in {"tone_palettes"} : o[f] = <<>>})

ShowTable ==
    /\ stage = "ready"
    /\ \E o \in ViewOptions :
        view' = [options |-> o, rows |-> Rows(o), written |-> Written(Rows(o), o)]
    /\ Goto("shown") /\ UNCHANGED modules

\* A module whose texts are of characters that have a code.
IsShowable(m) ==
    LET Texts == Seq(ToSet(Codes))
    IN  /\ m.module_id \in Texts /\ m.description \in Texts
        /\ m.display # None => {m.display.alias, m.display.description} \subseteq Texts \cup {None}
        /\ m.tags \in Seq(ToSet(m.tags))

\* By itself, with whatever list of modules a scanner or another stage may have left.
TableInit ==
    /\ stage = "ready" /\ ViewIdle
    /\ modules \in Seq(ToSet(modules))
    /\ \A i \in 1 .. Len(modules) : IsShowable(modules[i])

TableSpec == TableInit /\ [][ShowTable]_<<stage, modules, viewVars>>

------------------------------------------------------------------------------
(* Properties *)

\* What a reader takes a row to be: its cells by column, and its tags.
ReadRow(written, r) ==
    [cells |-> [key \in {written.columns[k].key : k \in DOMAIN written.columns} |->
                   written.rows[r].cells[CHOOSE k \in DOMAIN written.columns :
                                            written.columns[k].key = key]],
     tags |-> IF "tags" \in DOMAIN written.rows[r] THEN written.rows[r].tags ELSE <<>>]

ShowsWhatPasses(o, rows) ==
    /\ ToSet(rows) = {i \in 1 .. Len(modules) : PassesFilter(modules[i], o)}
    /\ \A r, q \in 1 .. Len(rows) : r < q => ComesBefore(rows[r], rows[q], o)

PalettesGiven(written) ==
    \A k \in DOMAIN written.columns :
        "tone_by" \in DOMAIN written.columns[k] =>
            \E p \in DOMAIN written.tone_palettes :
                written.tone_palettes[p].name = written.columns[k].tone_by

RowSays(o, m, written, r) ==
    LET row == ReadRow(written, r)
        shows(key, value) == key \in DOMAIN row.cells => row.cells[key].value = value
    IN  /\ Len(written.rows[r].cells) = Len(written.columns)
        /\ shows("module_id", m.module_id) /\ shows("alias", ShownAlias(m, o))
        /\ shows("description", ShownDescription(m, o))
        /\ row.tags = m.tags

GroupsOfRow(groups, labels, r) ==
    /\ ToSet(labels) \subseteq {g.label : g \in ToSet(groups)}
    /\ {g \in ToSet(groups) : r \in ToSet(g.row_indices)} =
       {g \in ToSet(groups) : g.label \in ToSet(labels)}

(* A table shows every module the filter lets through and no other, each once, in the order *)
(* asked for; in each row a reader finds that module's own cells and tags; and in a grouped *)
(* one each row is under all the labels of its own module and under no label of another's;  *)
(* a column that has a palette names one of those given (modules_to_view_model,             *)
(* build_groups, format_view_model).                                                        *)
RowsGrouped ==
    view # None =>
        LET o == view.options
            rows == view.rows
            written == view.written
        IN  /\ ShowsWhatPasses(o, rows) /\ PalettesGiven(written)
            /\ Len(written.rows) = Len(rows)
            /\ \A r \in 1 .. Len(rows) :
                 /\ RowSays(o, modules[rows[r]], written, r)
                 /\ o.grouped =>
                      GroupsOfRow(written.groups, Labels(modules[rows[r]], o.group_by), r)
===============================================================================
