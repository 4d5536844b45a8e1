-------------------------------- MODULE Tabular --------------------------------
(***************************************************************************)
(* JSON values as the tabular and Markdown formatters take them, objects   *)
(* with their keys in order, and their canonical text; rows of them as CSV *)
(* (Csv) and as JSON Lines (formatting/tabular.rs).                        *)
(*                                                                         *)
(* A text is the sequence of its characters; a string of more than one     *)
(* letter stands for a character outside ASCII.  Numbers are integers: a   *)
(* fraction is copied as it is.                                            *)
(***************************************************************************)
EXTENDS Integers, Sequences, FiniteSets, SequencesExt, TLC

CONSTANT MaxExact  \* up to here every integer is a double; 2^53 in the code

Text(t)     == <<"text", t>>
Number(n)   == <<"number", n>>
Flag(b)     == <<"flag", b>>
Null        == <<"null", <<>>>>
Listing(l)  == <<"list", l>>
Object(ps)  == <<"object", ps>>     \* a sequence of <<key, value>>

IsScalar(v) == v[1] \notin {"list", "object"}
KeysOf(pairs) == {pairs[i][1] : i \in DOMAIN pairs}
At(pairs, key) == pairs[SelectInSeq(pairs, LAMBDA p : p[1] = key)][2]

Chars(s) == [i \in 1 .. Len(s) |-> SubSeq(s, i, i)]

Joined(parts, separator) ==
    FoldLeft(LAMBDA text, i : text \o (IF i = 1 THEN <<>> ELSE separator) \o parts[i],
             <<>>, [i \in DOMAIN parts |-> i])

\* The double next to an integer of at most 2 * MaxExact.
Double(n) == IF n <= MaxExact \/ n % 2 = 0 THEN n ELSE 4 * ((n + 1) \div 4)

Quoted(text) ==
    LET escaped(c) == CASE c \in {"\"", "\\"} -> <<"\\", c>>
                        [] c = "\n"           -> <<"\\", "n">>
                        [] c = "\r"           -> <<"\\", "r">>
                        [] OTHER              -> <<c>>
    IN  <<"\"">> \o FlattenSeq([i \in DOMAIN text |-> escaped(text[i])]) \o <<"\"">>

\* canonical_json: no spaces, keys in their order, every number by way of a double.
RECURSIVE CanonicalJson(_)
CanonicalJson(v) ==
    CASE v[1] = "text"   -> Quoted(v[2])
      [] v[1] = "number" -> Chars(ToString(Double(v[2])))
      [] v[1] = "flag"   -> IF v[2] THEN Chars("true") ELSE Chars("false")
      [] v[1] = "null"   -> Chars("null")
      [] v[1] = "list"   ->
           <<"[">> \o Joined([i \in DOMAIN v[2] |-> CanonicalJson(v[2][i])], <<",">>) \o <<"]">>
      [] v[1] = "object" ->
           <<"{">> \o Joined([i \in DOMAIN v[2] |->
                        Quoted(v[2][i][1]) \o <<":">> \o CanonicalJson(v[2][i][2])], <<",">>)
           \o <<"}">>

------------------------------------------------------------------------------
(* Rows as text *)

\* csv_cell and canonical_number: an integer is written as it is, unlike in JSON.
CsvCell(row, key) ==
    IF key \notin KeysOf(row) THEN <<>>
    ELSE LET v == At(row, key) IN
         CASE v[1] = "null"   -> <<>>
           [] v[1] = "text"   -> v[2]
           [] v[1] = "number" -> Chars(ToString(v[2]))
           [] OTHER           -> CanonicalJson(v)

INSTANCE Csv

FormatJsonl(rows) ==
    FlattenSeq([i \in DOMAIN rows |-> CanonicalJson(Object(rows[i])) \o <<"\n">>])

------------------------------------------------------------------------------
(* What a reader finds *)

Lines(text) ==
    FoldLeft(LAMBDA lines, c : IF c = "\n" THEN Append(lines, <<>>)
                               ELSE [lines EXCEPT ![Len(lines)] = Append(@, c)],
             << <<>> >>, text)

\* A value as far as its canonical text can tell it: with its numbers as doubles.
RECURSIVE Doubled(_)
Doubled(v) ==
    CASE v[1] = "number" -> Number(Double(v[2]))
      [] v[1] = "list"   -> Listing([i \in DOMAIN v[2] |-> Doubled(v[2][i])])
      [] v[1] = "object" -> Object([i \in DOMAIN v[2] |-> <<v[2][i][1], Doubled(v[2][i][2])>>])
      [] OTHER           -> v

\* A reader of CSV finds every cell as it was put in, whatever commas, quotes and line breaks it
\* has, under its own key, whichever keys the rows have; a reader of JSON Lines finds one line
\* for each row, and the same line only for the same row.
ReadsBack(rows, bom, csv, jsonl) ==
    /\ Columns(rows) # <<>> =>
         ReadCsv(IF bom THEN Tail(csv) ELSE csv) = CsvCells(rows)
    /\ LET lines == Front(Lines(jsonl)) IN
       /\ Len(lines) = Len(rows)
       /\ \A i, j \in DOMAIN rows :
            lines[i] = lines[j] <=> Doubled(Object(rows[i])) = Doubled(Object(rows[j]))
===============================================================================
