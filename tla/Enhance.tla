------------------------------- MODULE Enhance -------------------------------
(***************************************************************************)
(* AIEnhancer::enhance (ai_enhancer.rs): for each module that lacks        *)
(* something, a language model is asked for it, and what it answers with   *)
(* enough confidence goes into the gaps.  A call that fails, or an answer  *)
(* that is no JSON, leaves its module alone and the others to come.        *)
(*                                                                         *)
(* Confidence and threshold are in tenths.  batch_size only cuts the queue *)
(* into chunks that are worked off one after the other: no step shows it.  *)
(***************************************************************************)
EXTENDS Catalogue, Names

CONSTANTS
    Environments,         \* variable -> its value: what a program may be started in
    Unreadable,           \* the value of a variable that is no number of its kind
    Overrides,            \* what new may be given: [endpoint, threshold, batch_size, timeout]
    RepliesTo(_),         \* prompt -> what may come back: lines of text, or None
    DescriptionLimit,     \* bytes a description may have; 500 in the code
    DocumentationLimit    \* and a documentation; 2000

VARIABLES
    authored,   \* the list enhance was given
    gapped,     \* pending: positions that have gaps, in order
    threshold,  \* of the enhancer
    enhanced    \* whether enhance has been called

enhanceVars == <<authored, gapped, threshold, enhanced>>

EnhanceIdle == authored = <<>> /\ gapped = <<>> /\ threshold = 0 /\ enhanced = FALSE

------------------------------------------------------------------------------
(* The enhancer *)

Defaults == [endpoint |-> [scheme |-> <<"h", "t", "t", "p">>], threshold |-> 7, batch_size |-> 5,
             timeout |-> 30]

ParseEnv(environment, field) ==
    IF field \in DOMAIN environment /\ environment[field] # Unreadable
    THEN environment[field] ELSE Defaults[field]

\* What was given, else what the environment says, else the default.
Setting(given, environment, field) ==
    IF given[field] # None THEN given[field] ELSE ParseEnv(environment, field)

\* Before "://", which has to be there; in upper or lower case.
ValidEndpoint(endpoint) ==
    /\ endpoint.scheme # None
    /\ [i \in 1 .. Len(endpoint.scheme) |-> ToLower(endpoint.scheme[i])]
           \in {<<"h", "t", "t", "p">>, <<"h", "t", "t", "p", "s">>}

\* The enhancers new makes: it refuses what no request can be made with.
Enhancers ==
    {e \in {[field \in DOMAIN Defaults |-> Setting(given, environment, field)] :
                given \in Overrides, environment \in Environments} :
        ValidEndpoint(e.endpoint) /\ e.threshold \in 0 .. 10 /\ e.batch_size > 0 /\ e.timeout > 0}

------------------------------------------------------------------------------
(* Gaps and prompts *)

Fields == {"description", "documentation", "annotations", "input_schema"}
Flags == {"readonly", "destructive", "idempotent", "requires_approval", "open_world",
          "streaming", "cacheable", "paginated", "discoverable"}
AnnotationFields == Flags \cup {"cache_ttl", "cache_key_fields", "pagination_style"}

HasProperties(schema) ==
    /\ schema.kind = "object" /\ "properties" \in DOMAIN schema.at
    /\ schema.at["properties"].kind = "object"
    /\ DOMAIN schema.at["properties"].at # {}

IsDefault(annotations) == annotations = DefaultAnnotations

\* Mutant of IdentifyGaps: annotations are asked for whatever the author set.
GapsWithAnnotations(m) ==
    {f \in Fields :
        \/ f = "description" /\ (m.description = <<>> \/ m.description = m.module_id)
        \/ f = "documentation" /\ m.documentation = None
        \/ f = "annotations"
        \/ f = "input_schema" /\ ~HasProperties(m.input_schema)}

\* What is missing, or says no more than its default.
IdentifyGaps(m) ==
    {f \in Fields :
        \/ f = "description" /\ (m.description = <<>> \/ m.description = m.module_id)
        \/ f = "documentation" /\ m.documentation = None
        \/ f = "annotations" /\ (m.annotations = None \/ IsDefault(m.annotations))
        \/ f = "input_schema" /\ ~HasProperties(m.input_schema)}

\* What the language model is told, and asked.  The list of annotations is written out in the
\* prompt; confidence is asked for the annotations only, for each there is.
BuildPrompt(m, gaps) ==
    [about       |-> <<m.module_id, m.target, m.description>>,
     wanted      |-> gaps,
     annotations |-> IF "annotations" \in gaps THEN AnnotationFields \ {"discoverable"} ELSE {},
     scored      |-> AnnotationFields]

------------------------------------------------------------------------------
(* Answers *)

\* What a request for a completion comes back with; None when it fails, or says nothing.
CallLlm(prompt) == RepliesTo(prompt) \cup {None}

\* The lines of a reply without the fence around them: a line is <<"fence", language>>,
\* <<"json", answer>> or <<"prose">>.
Unfenced(lines) ==
    IF lines[1][1] # "fence" \/ Len(lines) = 1 THEN lines
    ELSE SubSeq(lines, 2, IF Last(lines) = <<"fence", "">> THEN Len(lines) - 1 ELSE Len(lines))

\* The answer in a reply, or None: no reply, or lines that are no JSON document.
ParseResponse(lines) ==
    IF lines = None THEN None
    ELSE LET text == Unfenced(lines)
         IN  IF Len(text) = 1 /\ text[1][1] = "json" THEN text[1][2] ELSE None

\* A confidence is looked up as annotations.<field>, then as <field>; 0 if it is not there.
Confidence(answer, path) ==
    LET found == {key \in {path, <<Last(path)>>} : key \in DOMAIN answer.confidence}
    IN  CASE found = {} -> 0
          [] path \in found -> answer.confidence[path]
          [] OTHER -> answer.confidence[<<Last(path)>>]

Size(text) == FoldLeft(LAMBDA n, c : n + (IF Len(c) = 1 THEN 1 ELSE 3), 0, text)

\* The characters that begin before the limit: the last of them may reach beyond it.
ClampStr(text, limit) ==
    SubSeq(text, 1, Cardinality({i \in 1 .. Len(text) : Size(SubSeq(text, 1, i - 1)) < limit}))

\* Control sequences are left out: from an escape and a bracket to the next letter.
StripAnsi(text) ==
    LET step(scan, c) ==
            CASE scan.mode = "sequence" ->
                   [scan EXCEPT !.mode = IF IsLower(c) \/ IsUpper(c) THEN "text" ELSE @]
              [] scan.mode = "escape" /\ c = "[" -> [scan EXCEPT !.mode = "sequence"]
              [] OTHER ->
                   LET shown == IF scan.mode = "escape" THEN Append(scan.out, "ESC") ELSE scan.out
                   IN  IF c = "ESC" THEN [mode |-> "escape", out |-> shown]
                       ELSE [mode |-> "text", out |-> Append(shown, c)]
        scanned == FoldLeft(step, [mode |-> "text", out |-> <<>>], text)
    IN  IF scanned.mode = "escape" THEN Append(scanned.out, "ESC") ELSE scanned.out

\* Every boolean of an answer is heard, whatever it is called, and three fields that are none.
Heard(notes) ==
    {f \in DOMAIN notes :
        \/ notes[f][1] = "bool"
        \/ <<f, notes[f][1]>> \in {<<"cache_ttl", "number">>, <<"pagination_style", "string">>,
                                   <<"cache_key_fields", "array">>}}

\* A boolean is set where the struct has one of its name.
Settable(notes, f) == notes[f][1] # "bool" \/ f \in Flags

WithAnnotations(annotations, notes, taken) ==
    LET base == IF annotations = None THEN DefaultAnnotations ELSE annotations
        flags == {f \in Flags : IF f \in taken THEN notes[f][2] ELSE f \in base.flags}
    IN  [f \in DOMAIN base |->
            CASE f = "flags" -> flags
              [] f # "flags" /\ f \in taken -> notes[f][2]
              [] OTHER -> base[f]]

\* A module with what an answer says of its gaps.
Filled(m, answer) ==
    LET gaps == IdentifyGaps(m)
        notes == IF "annotations" \in gaps THEN answer.annotations ELSE <<>>
        fields == {<<f>> : f \in {g \in gaps \ {"annotations"} : answer[g] # None}}
        scores == [path \in fields \cup {<<"annotations", f>> : f \in Heard(notes)} |->
                      Confidence(answer, path)]
        sure(path) == path \in DOMAIN scores /\ scores[path] >= threshold
        accepted == {f \in Heard(notes) : sure(<<"annotations", f>>)}
        taken == {f \in accepted : Settable(notes, f)}
        doubts == {<<"low confidence", path>> : path \in {p \in DOMAIN scores : ~sure(p)}}
                  \cup {<<"unknown annotation", f>> : f \in accepted \ taken}
    IN  [m EXCEPT
          !.description = IF sure(<<"description">>)
                          THEN ClampStr(answer.description, DescriptionLimit) ELSE @,
          !.documentation = IF sure(<<"documentation">>)
                            THEN Split(StripAnsi(ClampStr(answer.documentation, DocumentationLimit)), "\n")
                            ELSE @,
          !.annotations = IF taken # {} THEN WithAnnotations(@, notes, taken) ELSE @,
          !.input_schema = IF sure(<<"input_schema">>) THEN answer.input_schema ELSE @,
          !.metadata = IF DOMAIN scores = {} THEN @
                       ELSE Put(Put(@, "x-generated-by", "slm"), "x-ai-confidence", scores),
          !.warnings = @ \cup doubts]

------------------------------------------------------------------------------
(* Steps *)

\* A configuration that new refuses makes no enhancer.
StartEnhance ==
    /\ stage = "ready" /\ ~enhanced
    /\ \E enhancer \in Enhancers : threshold' = enhancer.threshold
    /\ authored' = modules /\ enhanced' = TRUE
    /\ gapped' = SelectSeq([i \in 1 .. Len(modules) |-> i],
                           LAMBDA i : IdentifyGaps(modules[i]) # {})
    /\ Goto("enhance") /\ UNCHANGED modules

\* The next module with gaps is asked about.
AskNext ==
    /\ stage = "enhance" /\ gapped # <<>>
    /\ LET m == authored[Head(gapped)] IN
        \E reply \in CallLlm(BuildPrompt(m, IdentifyGaps(m))) :
            LET answer == ParseResponse(reply) IN
            modules' = IF answer = None THEN modules
                       ELSE [modules EXCEPT ![Head(gapped)] = Filled(m, answer)]
    /\ gapped' = Tail(gapped)
    /\ UNCHANGED <<stage, authored, threshold, enhanced>>

EndEnhance ==
    /\ stage = "enhance" /\ gapped = <<>>
    /\ Goto("ready") /\ UNCHANGED <<modules, enhanceVars>>

------------------------------------------------------------------------------
(* Properties *)

(* The language model writes only where the author wrote nothing: no id, description,       *)
(* documentation, annotation or schema the scanner brought is changed, no module is lost or *)
(* moved, and what was written is named with a confidence that reaches the threshold        *)
(* (enhance, enhance_module, identify_gaps).                                                *)
AuthoredKept ==
    enhanced =>
        /\ Len(modules) = Len(authored)
        /\ \A i \in 1 .. Len(authored) :
             LET before == authored[i]
                 after  == modules[i]
                 scores == IF "x-ai-confidence" \in DOMAIN after.metadata
                           THEN after.metadata["x-ai-confidence"] ELSE <<>>
                 trusted(path) == path \in DOMAIN scores /\ scores[path] >= threshold
             IN  /\ after.module_id = before.module_id /\ after.target = before.target
                 /\ before.warnings \subseteq after.warnings
                 /\ after.description # before.description =>
                      before.description \in {<<>>, before.module_id} /\ trusted(<<"description">>)
                 /\ after.documentation # before.documentation =>
                      before.documentation = None /\ trusted(<<"documentation">>)
                 /\ after.input_schema # before.input_schema =>
                      ~HasProperties(before.input_schema) /\ trusted(<<"input_schema">>)
                 /\ after.annotations # before.annotations =>
                      /\ before.annotations \in {None, DefaultAnnotations}
                      /\ \A f \in Flags :
                           (f \in after.annotations.flags) # (f \in DefaultAnnotations.flags) =>
                               trusted(<<"annotations", f>>)
===============================================================================
