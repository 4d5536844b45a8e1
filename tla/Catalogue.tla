------------------------------- MODULE Catalogue -------------------------------
(***************************************************************************)
(* The list of scanned modules (types.rs) that the stages of the toolkit   *)
(* hand to one another, and where in that pipeline it is.                  *)
(*                                                                         *)
(* Texts whose characters matter (ids, aliases, descriptions) are          *)
(* sequences of one-character strings; the absent text is <<>> where the   *)
(* code has an empty string and None where it has no string.  Warnings are *)
(* a set: their wording and order are left out.                            *)
(***************************************************************************)
EXTENDS Integers, Sequences, FiniteSets, TLC

CONSTANT None  \* an absent value

VARIABLES
    stage,   \* what the pipeline is doing: "idle" before a scan, "scan", "dedup", "ready" between
             \* stages, "enhance", "write", "shown" at the end, "failed"
    modules  \* the modules as the last stage left them

\* ScannedModule::new, with the fields it defaults.
ScannedModule(id, description, input, output, tags, target) ==
    [module_id |-> id, description |-> description, documentation |-> None,
     input_schema |-> input, output_schema |-> output, tags |-> tags, target |-> target,
     version |-> "1.0.0", annotations |-> None, suggested_alias |-> None,
     metadata |-> <<>>, display |-> None, warnings |-> {}]

\* A map with one more entry, or another.
Put(f, key, value) == [k \in DOMAIN f \cup {key} |-> IF k = key THEN value ELSE f[k]]

Goto(label) == stage' = label

Warn(m, warning) == [m EXCEPT !.warnings = @ \cup {warning}]

\* The flags and fields of ModuleAnnotations that its default sets otherwise than to false.
DefaultAnnotations ==
    [flags |-> {"discoverable"}, deprecated |-> FALSE, cache_ttl |-> 0, pagination_style |-> "cursor",
     cache_key_fields |-> None]
===============================================================================
