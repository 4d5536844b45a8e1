-------------------------------- MODULE Stages --------------------------------
(***************************************************************************)
(* What a program may do with a list of modules once it has one: have it   *)
(* enhanced, have it resolved, write stubs of it, each at most once (the   *)
(* bound of this model) and in any order.  Every stage takes the list by   *)
(* value and gives it back: none runs while another does.                  *)
(***************************************************************************)
EXTENDS Enhance, Display, RustWriter

stageVars == <<enhanceVars, displayVars, writerVars>>

StagesIdle == EnhanceIdle /\ DisplayIdle /\ WriterIdle

Enhancing == (StartEnhance \/ AskNext \/ EndEnhance) /\ UNCHANGED <<displayVars, writerVars>>

Displaying == ResolveDisplay /\ UNCHANGED <<enhanceVars, writerVars>>

Writing ==
    /\ StartWrite \/ WriteStub \/ WriteFails \/ EndWrite
    /\ UNCHANGED <<enhanceVars, displayVars>>

StagesNext == Enhancing \/ Displaying \/ Writing

\* A module with all its fields; its names are texts.
IsModule(m) ==
    /\ m = [field \in {"module_id", "description", "documentation", "input_schema", "output_schema",
                       "tags", "target", "version", "annotations", "suggested_alias", "metadata",
                       "display", "warnings"} |-> m[field]]
    /\ m.module_id \in Seq(STRING)
    /\ m.suggested_alias \in Seq(STRING) \cup {None}
    /\ "suggested_alias" \in DOMAIN m.metadata => m.metadata["suggested_alias"] \in Seq(STRING)

\* By themselves, with whatever list of modules a scanner may have left.
StagesInit ==
    /\ stage = "ready" /\ StagesIdle
    /\ modules \in Seq(ToSet(modules))
    /\ \A i \in 1 .. Len(modules) : IsModule(modules[i])

StagesSpec == StagesInit /\ [][StagesNext]_<<stage, modules, stageVars>>
===============================================================================
