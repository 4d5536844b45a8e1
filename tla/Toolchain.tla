------------------------------ MODULE Toolchain ------------------------------
(***************************************************************************)
(* A program that uses the crate: a scan first, then the stages (Stages),  *)
(* at last proxies, a table or a text.  Or it formats data of its own      *)
(* instead, as tables (Tabular) or as Markdown (Markdown).                 *)
(***************************************************************************)
EXTENDS ProxyWriter, Stages, Surface

CONSTANTS
    Tables,           \* the rows a caller may format as CSV or JSON Lines
    Documented,       \* the <<data, options>> a caller may turn into Markdown
    MaxExact, MaxWhole, MaxDepthHardCap, Longest, LongestWithin   \* of Tabular and Markdown

VARIABLE text         \* the last data formatted, and its text; None before

textVars == <<text>>

TextIdle == text = None

------------------------------------------------------------------------------
(* Data of the caller's own *)

Tab == INSTANCE Tabular
Md  == INSTANCE Markdown

\* format_csv and format_jsonl
PrintTable ==
    /\ stage = "idle"
    /\ \E rows \in Tables, bom \in BOOLEAN :
        text' = [kind |-> "table", rows |-> rows, bom |-> bom,
                 csv |-> Tab!FormatCsv(rows, bom), jsonl |-> Tab!FormatJsonl(rows)]
    /\ Goto("printed") /\ UNCHANGED modules

\* to_markdown; what is no object is refused.
PrintMarkdown ==
    /\ stage = "idle"
    /\ \E d \in Documented :
        text' = [kind |-> "markdown", data |-> d[1], options |-> d[2],
                 lines |-> Md!ToMarkdown(d[1], d[2])]
    /\ Goto("printed") /\ UNCHANGED modules

------------------------------------------------------------------------------
(* The program *)

outputVars == <<proxyVars, viewVars, printVars, textVars>>

vars == <<stage, modules, scanVars, dedupVars, stageVars, outputVars>>

Init ==
    /\ stage = "idle" /\ modules = <<>>
    /\ ScanIdle /\ DedupIdle /\ StagesIdle
    /\ ProxyIdle /\ ViewIdle /\ PrintIdle /\ TextIdle

Scanning == ScanNext /\ UNCHANGED <<stageVars, outputVars>>

Staging == StagesNext /\ UNCHANGED <<scanVars, dedupVars, outputVars>>

Showing ==
    /\ \/ WriteProxies /\ UNCHANGED <<viewVars, printVars, textVars>>
       \/ ShowTable /\ UNCHANGED <<proxyVars, printVars, textVars>>
       \/ PrintModules /\ UNCHANGED <<proxyVars, viewVars, textVars>>
       \/ PrintSchemas /\ UNCHANGED <<proxyVars, viewVars, textVars>>
       \/ PrintTable /\ UNCHANGED <<proxyVars, viewVars, printVars>>
       \/ PrintMarkdown /\ UNCHANGED <<proxyVars, viewVars, printVars>>
    /\ UNCHANGED <<scanVars, dedupVars, stageVars>>

Next == Scanning \/ Staging \/ Showing

Spec == Init /\ [][Next]_vars

------------------------------------------------------------------------------
(* Properties *)

(* Whatever commas, quotes and line breaks the cells of a table have, a reader of CSV finds   *)
(* them as they were under their own keys, and a reader of JSON Lines a line for each row     *)
(* (format_csv, csv_escape, format_jsonl).                                                    *)
TablesReadBack ==
    text # None /\ text.kind = "table" =>
        Tab!ReadsBack(text.rows, text.bom, text.csv, text.jsonl)

(* Of an object in which no key follows a nested object, Markdown tells everything but what   *)
(* is excluded, each key once, in the section of the object it is a key of, also where a      *)
(* table takes the place of bullets, if and only if no object that gets a heading is more     *)
(* than five objects deep: headings end at the sixth level, and what is deeper is read as if  *)
(* it stood beside the object it is in (to_markdown, render_dict).                            *)
MarkdownShowsAll ==
    text # None /\ text.kind = "markdown" => Md!ShowsAll(text.data, text.options, text.lines)
===============================================================================
