------------------------------- MODULE Markdown -------------------------------
(***************************************************************************)
(* to_markdown (formatting/markdown.rs): a JSON object as headings,        *)
(* bullets and tables; and what a reader makes of the lines.               *)
(*                                                                         *)
(* A line is [kind, level, key, text]; blank ones, which part nothing, and *)
(* the title are left out.  The depth of bullets under objects is left     *)
(* out too: render_dict is only called with 0 for it.  Texts and keys have *)
(* no line breaks: they would be written as they are.                      *)
(***************************************************************************)
EXTENDS Tabular

CONSTANTS
    None,
    MaxWhole,         \* whole numbers from here on are shown with four decimals; 10^15 in the code
    MaxDepthHardCap,  \* MAX_DEPTH_HARD_CAP; 32 in the code
    Longest,          \* how many bytes a compact text may have: 80
    LongestWithin     \* and each value in it: 30

Line(kind, level, key, text) == [kind |-> kind, level |-> level, key |-> key, text |-> text]

------------------------------------------------------------------------------
(* Scalars and compact texts *)

FormatScalar(v) ==
    CASE v[1] = "null"   -> Chars("*N/A*")
      [] v[1] = "flag"   -> IF v[2] THEN Chars("Yes") ELSE Chars("No")
      [] v[1] = "number" -> Chars(ToString(Double(v[2]))) \o
                                (IF Double(v[2]) < MaxWhole THEN <<>> ELSE Chars(".0000"))
      [] v[1] = "text"   -> v[2]

Bytes(text) == FoldLeft(LAMBDA n, c : n + (IF Len(c) = 1 THEN 1 ELSE 3), 0, text)

\* The length is counted in bytes, and the text is cut by characters.
Cut(text, longest) ==
    IF Bytes(text) <= longest THEN text
    ELSE (IF Len(text) < longest - 3 THEN text ELSE SubSeq(text, 1, longest - 3)) \o Chars("...")

RECURSIVE CompactInner(_, _, _)
CompactInner(v, longest, depth) ==
    LET inner(x) == CompactInner(x, LongestWithin, depth + 1) IN
    CASE IsScalar(v) -> IF depth >= MaxDepthHardCap THEN FormatScalar(v)
                        ELSE Cut(FormatScalar(v), longest)
      [] v[1] = "object" /\ depth >= MaxDepthHardCap -> Chars("{...}")
      [] v[1] = "list" /\ depth >= MaxDepthHardCap -> Chars("[...]")
      [] v[1] = "object" /\ depth < MaxDepthHardCap ->
           Cut(<<"{">> \o Joined([i \in DOMAIN v[2] |->
                   v[2][i][1] \o Chars(": ") \o inner(v[2][i][2])], Chars(", ")) \o <<"}">>, longest)
      [] v[1] = "list" /\ depth < MaxDepthHardCap ->
           Cut(<<"[">> \o Joined([i \in DOMAIN v[2] |-> inner(v[2][i])], Chars(", ")) \o <<"]">>,
               longest)

CompactRepr(v) == CompactInner(v, Longest, 0)

Inline(v) == IF IsScalar(v) THEN FormatScalar(v) ELSE CompactRepr(v)

------------------------------------------------------------------------------
(* Rendering *)

\* The fields asked for, in that order and if they are there.
FilterKeys(pairs, o) ==
    LET wanted == IF o.fields = None THEN [i \in DOMAIN pairs |-> pairs[i][1]]
                  ELSE SelectSeq(o.fields, LAMBDA key : key \in KeysOf(pairs))
    IN  SelectSeq([i \in DOMAIN wanted |-> <<wanted[i], At(pairs, wanted[i])>>],
                  LAMBDA p : p[1] \notin o.exclude)

Kept(pairs, o) == SelectSeq(pairs, LAMBDA p : p[1] \notin o.exclude)

EscapePipe(text) ==
    FlattenSeq([i \in DOMAIN text |-> IF text[i] = "|" THEN <<"\\", "|">> ELSE <<text[i]>>])

Row(cells) ==
    Line("row", 0, None, Chars("| ") \o Joined([i \in DOMAIN cells |-> EscapePipe(cells[i])],
                                              Chars(" | ")) \o Chars(" |"))

Table(header, rows) ==
    <<Row(header), Row([i \in DOMAIN header |-> Chars("---")])>>
    \o [i \in DOMAIN rows |-> Row(rows[i])]

RenderTable(pairs) ==
    Table(<<Chars("Field"), Chars("Value")>>,
          [i \in DOMAIN pairs |-> <<pairs[i][1], FormatScalar(pairs[i][2])>>])

\* Two or more objects with the same keys and only scalars under them.
IsUniform(items) ==
    /\ Len(items) >= 2
    /\ \A i \in DOMAIN items :
        /\ items[i][1] = "object" /\ KeysOf(items[i][2]) = KeysOf(items[1][2])
        /\ \A k \in DOMAIN items[i][2] : IsScalar(items[i][2][k][2])

RenderListTable(items, o) ==
    LET kept == Kept(items[1][2], o)
        keys == [k \in DOMAIN kept |-> kept[k][1]]
    IN  Table(keys, [i \in DOMAIN items |->
                       [k \in DOMAIN keys |-> FormatScalar(At(items[i][2], keys[k]))]])

\* An item of an object: its first key follows the bullet, the others stand below it.
RenderItem(item, o) ==
    IF item[1] # "object" THEN <<Line("item", 1, None, Inline(item))>>
    ELSE LET kept == Kept(item[2], o)
         IN  [k \in DOMAIN kept |->
                Line("item", IF k = 1 THEN 1 ELSE 2, kept[k][1], Inline(kept[k][2]))]

RenderList(items, o) ==
    CASE items = <<>> -> <<Line("item", 1, None, Chars("*(empty)*"))>>
      [] items # <<>> /\ IsUniform(items) -> RenderListTable(items, o)
      [] OTHER -> FlattenSeq([i \in DOMAIN items |-> RenderItem(items[i], o)])

\* Mutant of HeadingLevel: every section has the level of the first.
HeadingLevelFlat(depth) == 2

HeadingLevel(depth) == IF depth + 2 < 6 THEN depth + 2 ELSE 6

RECURSIVE RenderDict(_, _, _)
RenderDict(pairs, depth, o) ==
    LET kept == Kept(pairs, o)
        entry(key, v) ==
            CASE IsScalar(v) \/ depth + 1 >= o.max_depth -> <<Line("bullet", 0, key, Inline(v))>>
              [] v[1] = "object" /\ depth + 1 < o.max_depth ->
                   <<Line("heading", HeadingLevel(depth), key, <<>>)>> \o RenderDict(v[2], depth + 1, o)
              [] v[1] = "list" /\ depth + 1 < o.max_depth ->
                   <<Line("bullet", 0, key, <<>>)>> \o RenderList(v[2], o)
    IN  IF pairs # <<>> /\ Len(kept) >= o.table_threshold
           /\ \A i \in DOMAIN kept : IsScalar(kept[i][2])
        THEN RenderTable(kept)
        ELSE FlattenSeq([i \in DOMAIN kept |-> entry(kept[i][1], kept[i][2])])

Clamped(o) == [o EXCEPT !.max_depth = IF @ < MaxDepthHardCap THEN @ ELSE MaxDepthHardCap]

ToMarkdown(data, o) ==
    IF data[1] # "object" THEN None
    ELSE RenderDict(FilterKeys(data[2], o), 0, Clamped(o))

------------------------------------------------------------------------------
(* What a reader finds: texts, named things, and sections or lists of them *)

Leaf(text)     == <<"leaf", text>>
Named(key, x)  == <<"named", key, x>>
Section(parts) == <<"section", parts>>

\* The parts of a sequence that begin where Begins says so.
Parts(lines, Begins(_)) ==
    LET starts == SelectSeq([i \in 1 .. Len(lines) + 1 |-> i],
                            LAMBDA i : i = Len(lines) + 1 \/ Begins(lines[i]))
    IN  [k \in 1 .. Len(starts) - 1 |-> SubSeq(lines, starts[k], starts[k + 1] - 1)]

CellsOf(text) ==
    LET pipes == SelectSeq([i \in DOMAIN text |-> i],
                           LAMBDA i : text[i] = "|" /\ (i = 1 \/ text[i - 1] # "\\"))
        plain(cell) == SelectSeq([i \in DOMAIN cell |-> i],
                                 LAMBDA i : ~(cell[i] = "\\" /\ i < Len(cell) /\ cell[i + 1] = "|"))
        cellAt(k) == SubSeq(text, pipes[k] + 2, pipes[k + 1] - 2)
    IN  [k \in 1 .. Len(pipes) - 1 |->
            [i \in DOMAIN plain(cellAt(k)) |-> cellAt(k)[plain(cellAt(k))[i]]]]

ReadItems(lines) ==
    IF lines[1].kind = "row"
    THEN LET keys == CellsOf(lines[1].text)
         IN  [i \in 1 .. Len(lines) - 2 |->
                Section([k \in DOMAIN keys |-> Named(keys[k], Leaf(CellsOf(lines[i + 2].text)[k]))])]
    ELSE LET items == Parts(lines, LAMBDA l : l.level = 1)
         IN  [i \in DOMAIN items |->
                IF items[i][1].key = None THEN Leaf(items[i][1].text)
                ELSE Section([k \in DOMAIN items[i] |-> Named(items[i][k].key, Leaf(items[i][k].text))])]

ReadEntries(lines) ==
    IF lines # <<>> /\ lines[1].kind = "row"
    THEN [i \in 1 .. Len(lines) - 2 |->
            Named(CellsOf(lines[i + 2].text)[1], Leaf(CellsOf(lines[i + 2].text)[2]))]
    ELSE LET entries == Parts(lines, LAMBDA l : l.kind = "bullet")
         IN  [i \in DOMAIN entries |->
                Named(entries[i][1].key,
                      IF Len(entries[i]) = 1 THEN Leaf(entries[i][1].text)
                      ELSE Section(ReadItems(Tail(entries[i]))))]

\* Sections of a level hold what follows up to the next heading of that level or a higher one.
RECURSIVE ReadMarkdown(_, _)
ReadMarkdown(lines, level) ==
    LET own == SelectInSeq(lines, LAMBDA l : l.kind = "heading")
        sections == Parts(lines, LAMBDA l : l.kind = "heading" /\ l.level <= level)
    IN  ReadEntries(IF own = 0 THEN lines ELSE SubSeq(lines, 1, own - 1))
        \o [i \in DOMAIN sections |->
              Named(sections[i][1].key, Section(ReadMarkdown(Tail(sections[i]), level + 1)))]

RECURSIVE Outline(_, _, _)
Outline(pairs, depth, o) ==
    LET kept == Kept(pairs, o)
        item(v) == IF v[1] # "object" THEN Leaf(Inline(v))
                   ELSE Section([k \in DOMAIN Kept(v[2], o) |->
                            Named(Kept(v[2], o)[k][1], Leaf(Inline(Kept(v[2], o)[k][2])))])
        value(v) ==
            CASE IsScalar(v) \/ depth + 1 >= o.max_depth -> Leaf(Inline(v))
              [] v = Listing(<<>>) /\ depth + 1 < o.max_depth -> Section(<<Leaf(Chars("*(empty)*"))>>)
              [] v[1] = "list" /\ v # Listing(<<>>) /\ depth + 1 < o.max_depth ->
                   Section(SelectSeq([i \in DOMAIN v[2] |-> item(v[2][i])],
                                     LAMBDA x : x # Section(<<>>)))
              [] v[1] = "object" /\ depth + 1 < o.max_depth -> Section(Outline(v[2], depth + 1, o))
    IN  [i \in DOMAIN kept |-> Named(kept[i][1], value(kept[i][2]))]

\* No key follows an object that gets a heading: it would be read as part of that object's section.
RECURSIVE HeadingsLast(_, _, _)
HeadingsLast(pairs, depth, o) ==
    \A i \in DOMAIN Kept(pairs, o) :
        LET v == Kept(pairs, o)[i][2] IN
        v[1] = "object" /\ depth + 1 < o.max_depth =>
            /\ HeadingsLast(v[2], depth + 1, o)
            /\ \A j \in i .. Len(Kept(pairs, o)) : Kept(pairs, o)[j][2][1] = "object"

\* Markdown has six levels of headings, and the title takes the first.
RECURSIVE HeadingsFit(_, _, _)
HeadingsFit(pairs, depth, o) ==
    \A i \in DOMAIN Kept(pairs, o) :
        LET v == Kept(pairs, o)[i][2] IN
        v[1] = "object" /\ depth + 1 < o.max_depth =>
            depth + 2 <= 6 /\ HeadingsFit(v[2], depth + 1, o)

\* Of an object whose nested objects come last, the lines tell everything but what is excluded:
\* each key once, with its value, in its own section, also where a table takes the place of
\* bullets, down to the depth asked for (render_dict, render_list).  They do if and only if no
\* heading would be below the sixth level: what is deeper is read beside the object it is in.
ShowsAll(data, o, lines) ==
    data[1] = "object" /\ HeadingsLast(FilterKeys(data[2], o), 0, Clamped(o)) =>
        (ReadMarkdown(lines, 2) = Outline(FilterKeys(data[2], o), 0, Clamped(o))
            <=> HeadingsFit(FilterKeys(data[2], o), 0, Clamped(o)))
===============================================================================
