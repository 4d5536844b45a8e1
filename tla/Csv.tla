---------------------------------- MODULE Csv ----------------------------------
(***************************************************************************)
(* Rows as CSV (format_csv, formatting/tabular.rs), and the reading of CSV *)
(* by RFC 4180 as a reference.                                             *)
(*                                                                         *)
(* A row is given as a sequence of <<key, value>>; a cell is a text, the   *)
(* sequence of its characters, and so is a key.                            *)
(***************************************************************************)
EXTENDS Integers, Sequences, SequencesExt

CONSTANT CsvCell(_, _)  \* what stands in a row for a key; csv_cell in the code

\* The keys of all rows, in the order in which they first occur.
Columns(rows) ==
    LET keys == FlattenSeq([i \in 1 .. Len(rows) |->
                    [k \in 1 .. Len(rows[i]) |-> rows[i][k][1]]])
    IN  FlattenSeq([i \in 1 .. Len(keys) |->
            IF \E j \in 1 .. (i - 1) : keys[j] = keys[i] THEN <<>> ELSE <<keys[i]>>])

CsvCells(rows) ==
    LET columns == Columns(rows)
    IN  <<columns>> \o [i \in 1 .. Len(rows) |->
                           [k \in 1 .. Len(columns) |-> CsvCell(rows[i], columns[k])]]

Comma    == ","
Quote    == "\""
Return   == "\r"
LineFeed == "\n"

Special == {Comma, Quote, Return, LineFeed}

QuotesTwice(cell) ==
    FlattenSeq([i \in 1 .. Len(cell) |->
        IF cell[i] = Quote THEN <<Quote, Quote>> ELSE <<cell[i]>>])

\* Mutant of CsvEscape: a line break alone is no reason to quote.
CsvEscapeOnLine(cell) ==
    IF \E i \in 1 .. Len(cell) : cell[i] \in {Comma, Quote}
    THEN <<Quote>> \o QuotesTwice(cell) \o <<Quote>>
    ELSE cell

CsvEscape(cell) ==
    IF \E i \in 1 .. Len(cell) : cell[i] \in Special
    THEN <<Quote>> \o QuotesTwice(cell) \o <<Quote>>
    ELSE cell

CsvJoin(cells) ==
    FlattenSeq([i \in 1 .. Len(cells) |->
        IF i = 1 THEN CsvEscape(cells[1]) ELSE <<Comma>> \o CsvEscape(cells[i])])

CsvLine(cells) == CsvJoin(cells) \o <<Return, LineFeed>>

CsvText(table) == FlattenSeq([i \in 1 .. Len(table) |-> CsvLine(table[i])])

FormatCsv(rows, bom) ==
    IF rows = <<>> THEN <<>>
    ELSE (IF bom THEN <<"BOM">> ELSE <<>>) \o CsvText(CsvCells(rows))

------------------------------------------------------------------------------
(* What a reader finds *)

\* Outside or inside quotes, or just after one within quotes; and what has been read so far.
Reader(mode, cell, row, rows) == [mode |-> mode, cell |-> cell, row |-> row, rows |-> rows]

\* A reader after one character more.
ReadCharacter(r, c) ==
    LET more  == Append(r.cell, c)
        ended == Append(r.row, r.cell)
    IN  CASE r.mode = "quotes" /\ c # Quote -> Reader("quotes", more, r.row, r.rows)
          [] r.mode = "quotes" /\ c = Quote -> Reader("quote", r.cell, r.row, r.rows)
          [] r.mode = "quote" /\ c = Quote -> Reader("quotes", more, r.row, r.rows)
          [] r.mode = "text" /\ c = Quote /\ r.cell = <<>> -> Reader("quotes", <<>>, r.row, r.rows)
          [] r.mode # "quotes" /\ c = Comma -> Reader("text", <<>>, ended, r.rows)
          [] r.mode # "quotes" /\ c = Return -> r
          [] r.mode # "quotes" /\ c = LineFeed -> Reader("text", <<>>, <<>>, Append(r.rows, ended))
          [] OTHER -> Reader(r.mode, more, r.row, r.rows)

ReadFrom(r, text) ==
    LET read[i \in 0 .. Len(text)] == IF i = 0 THEN r ELSE ReadCharacter(read[i - 1], text[i])
    IN  read[Len(text)]

ReadCsv(text) == ReadFrom(Reader("text", <<>>, <<>>, <<>>), text).rows
===============================================================================
