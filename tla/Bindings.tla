------------------------------- MODULE Bindings -------------------------------
(***************************************************************************)
(* What passes between the YAML writer and the binding loader: file names  *)
(* and binding documents; and what verifiers say of them.  Pure operators: *)
(* no state.                                                               *)
(*                                                                         *)
(* Texts whose characters matter (ids, file names, targets) are sequences  *)
(* of one-character strings.  A file name stands for itself and the suffix *)
(* ".binding.yaml".  Other texts are values nobody takes apart.            *)
(***************************************************************************)
EXTENDS Integers, Sequences, FiniteSets, SequencesExt

CONSTANTS
    None,         \* a value that is absent, or of another type than is asked for
    SafeChars     \* letters, digits, "_" and "-": what a file name may hold

ASSUME BindingsAssumption == None \notin [streaming : BOOLEAN]

\* A map with one more entry, or another.
Put(f, key, value) == [k \in DOMAIN f \cup {key} |-> IF k = key THEN value ELSE f[k]]

------------------------------------------------------------------------------
(* File names *)

\* Unsafe characters become "_", and then each run of dots does.
SanitizeFilename(id) ==
    LET Safe(i) == IF id[i] \in SafeChars \cup {"."} THEN id[i] ELSE "_"
        Dot(i) == i \in DOMAIN id /\ id[i] = "."
        Piece(i) == CASE Dot(i) /\ Dot(i - 1)                -> <<>>
                      [] Dot(i) /\ ~Dot(i - 1) /\ Dot(i + 1) -> <<"_">>
                      [] OTHER                               -> <<Safe(i)>>
    IN  FlattenSeq([i \in DOMAIN id |-> Piece(i)])

\* A number, as it is written.
Digit(d) == <<"0", "1", "2", "3", "4", "5", "6", "7", "8", "9">>[d + 1]
Numeral(k) ==
    LET numeral[n \in Nat] == IF n < 10 THEN <<Digit(n)>>
                              ELSE Append(numeral[n \div 10], Digit(n % 10))
    IN  numeral[k]

Numbered(base, k) == IF k = 0 THEN base ELSE base \o <<"_">> \o Numeral(k)

\* Mutant of FreeName: a collision is not looked for.
FirstName(base, taken) == base

\* Mutant of FreeName: the numbered name is not looked up in its turn.
FreeNameOnce(base, taken) == Numbered(base, IF base \in taken THEN 1 ELSE 0)

\* The base name, or the first numbered one, that this batch has not used.
FreeName(base, taken) ==
    LET free == {k \in 0 .. Cardinality(taken) : Numbered(base, k) \notin taken}
    IN  Numbered(base, CHOOSE k \in free : \A j \in free : k <= j)

------------------------------------------------------------------------------
(* Documents *)

\* A YAML or JSON value, by its type; what is of no type the loader asks for is Odd.
Text(t)    == <<"text", t>>
Object(o)  == <<"object", o>>
Listing(l) == <<"list", l>>
Flag(b)    == <<"flag", b>>
Null       == <<"null", <<>>>>
Odd        == <<"other", <<>>>>
EmptyObject == Object(<<>>)

Is(object, key, type) == key \in DOMAIN object /\ object[key][1] = type
Given(object, key, type, default) == IF Is(object, key, type) THEN object[key][2] ELSE default

DocumentKeys == {"spec_version", "bindings"}
EntryKeys == {"module_id", "target", "description", "documentation", "input_schema",
              "output_schema", "annotations", "tags", "version", "metadata", "display",
              "suggested_alias", "examples", "warnings"}
ForbiddenKeys == {"__proto__", "constructor", "prototype"}

OrNull(type, value) == IF value = None THEN Null ELSE <<type, value>>

\* annotations_to_dict; streaming is the one flag looked at here.
AnnotationsToDict(annotations) ==
    IF annotations = None THEN Null ELSE Object([streaming |-> Flag(annotations.streaming)])

\* build_binding: one entry with the fields of a module, its warnings excepted.
Binding(m) ==
    LET entry == [module_id     |-> Text(m.module_id),
                  target        |-> Text(m.target),
                  description   |-> Text(m.description),
                  documentation |-> OrNull("text", m.documentation),
                  tags          |-> Listing([i \in DOMAIN m.tags |-> Text(m.tags[i])]),
                  version       |-> Text(m.version),
                  annotations   |-> AnnotationsToDict(m.annotations),
                  examples      |-> Listing([i \in DOMAIN m.examples |-> Object(m.examples[i])]),
                  metadata      |-> Object(m.metadata),
                  input_schema  |-> m.input_schema,
                  output_schema |-> m.output_schema,
                  display       |-> m.display,
                  suggested_alias |-> OrNull("text", m.suggested_alias)]
        absent == {k \in {"display", "suggested_alias"} : m[k] = None}
    IN  Object([spec_version |-> Text("1.0"),
                bindings |-> Listing(<<Object([k \in DOMAIN entry \ absent |-> entry[k]])>>)])

\* The entries of a document, an empty list when it has no list of them.
Entries(doc) == IF doc[1] = "object" THEN Given(doc[2], "bindings", "list", <<>>) ELSE <<>>

Blank(text) == \A i \in DOMAIN text : text[i] = " "

\* Mutant of WellFormed: the target is not looked at.
WellFormedId(doc) ==
    /\ Entries(doc) # <<>>
    /\ \A i \in DOMAIN Entries(doc) :
         Entries(doc)[i][1] = "object" /\ ~Blank(Given(Entries(doc)[i][2], "module_id", "text", <<>>))

\* YAMLVerifier, for a file that can be read and parsed.
WellFormed(doc) ==
    /\ Entries(doc) # <<>>
    /\ \A i \in DOMAIN Entries(doc) : \A field \in {"module_id", "target"} :
         Entries(doc)[i][1] = "object" /\ ~Blank(Given(Entries(doc)[i][2], field, "text", <<>>))

\* parse_entry's early returns.
EntryRejected(entry, strict) ==
    \/ ~(DOMAIN entry \subseteq EntryKeys)
    \/ ("input_schema" \in DOMAIN entry) # ("output_schema" \in DOMAIN entry)
    \/ \E field \in {"module_id", "target"} : Given(entry, field, "text", <<>>) = <<>>
    \/ strict /\ \E field \in {"input_schema", "output_schema"} : ~Is(entry, field, "object")
    \/ strict /\ "tags" \in DOMAIN entry /\ entry["tags"][1] \notin {"null", "list"}

\* parse_document's; one entry that is rejected rejects the document.
DocumentRejected(doc, strict) ==
    \/ doc[1] # "object"
    \/ ~(DOMAIN doc[2] \subseteq DocumentKeys)
    \/ ~Is(doc[2], "bindings", "list")
    \/ \E i \in DOMAIN Entries(doc) :
         Entries(doc)[i][1] # "object" \/ EntryRejected(Entries(doc)[i][2], strict)

\* The values of a list that are of a type, bare.
OfType(values, type) ==
    FlattenSeq([i \in DOMAIN values |-> IF values[i][1] = type THEN <<values[i][2]>> ELSE <<>>])

\* serde takes an object whose fields have their types.
Parses(object) == \A key \in DOMAIN object : object[key] # Odd
Parsed(objects) ==
    FlattenSeq([i \in DOMAIN objects |-> IF Parses(objects[i]) THEN <<objects[i]>> ELSE <<>>])

WithoutForbidden(metadata) == [k \in DOMAIN metadata \ ForbiddenKeys |-> metadata[k]]

\* parse_entry's result: what is absent, null or of another type takes its default.
ModuleOf(entry) ==
    LET annotations == Given(entry, "annotations", "object", <<>>) IN
    [module_id       |-> entry["module_id"][2],
     target          |-> entry["target"][2],
     description     |-> Given(entry, "description", "text", ""),
     version         |-> Given(entry, "version", "text", "1.0.0"),
     documentation   |-> Given(entry, "documentation", "text", None),
     suggested_alias |-> Given(entry, "suggested_alias", "text", None),
     input_schema    |-> Object(Given(entry, "input_schema", "object", <<>>)),
     output_schema   |-> Object(Given(entry, "output_schema", "object", <<>>)),
     tags            |-> OfType(Given(entry, "tags", "list", <<>>), "text"),
     warnings        |-> OfType(Given(entry, "warnings", "list", <<>>), "text"),
     metadata        |-> WithoutForbidden(Given(entry, "metadata", "object", <<>>)),
     display         |-> IF Is(entry, "display", "object") THEN entry["display"] ELSE None,
     annotations     |-> IF Is(entry, "annotations", "object") /\ Parses(annotations)
                         THEN [streaming |-> Given(annotations, "streaming", "flag", FALSE)]
                         ELSE None,
     examples        |-> Parsed(OfType(Given(entry, "examples", "list", <<>>), "object"))]

ModulesOf(doc) == [i \in DOMAIN Entries(doc) |-> ModuleOf(Entries(doc)[i][2])]

------------------------------------------------------------------------------
(* Verifiers *)

\* What a verifier may say of a file, or, with content None, of no file: only a custom one
\* judges that, and it may say anything or panic.  A binding file is a YAML mapping under
\* comment lines, whose first bytes are the ones magic looks for: neither Rust nor JSON.
Verdicts(verifier, content, readable) ==
    CASE verifier = "custom" -> {"ok", "fail", "panic"}
      [] verifier # "custom" /\ content = None -> {"ok"}
      [] OTHER ->
           IF /\ readable /\ content.state = "whole"
              /\ \/ verifier = "magic"
                 \/ verifier = "yaml" /\ WellFormed(content.doc)
           THEN {"ok"} ELSE {"fail"}

\* run_verifier_chain: the chain passes if all do, and ends at the first that fails or panics.
ChainMayPass(verdicts) == \A i \in DOMAIN verdicts : "ok" \in verdicts[i]
ChainMayFail(verdicts) ==
    \E i \in DOMAIN verdicts : verdicts[i] # {"ok"} /\ \A j \in 1 .. (i - 1) : "ok" \in verdicts[j]

RunVerifierChain(verifiers, content, readable) ==
    LET verdicts == [i \in DOMAIN verifiers |-> Verdicts(verifiers[i], content, readable)]
    IN  {passed \in BOOLEAN : IF passed THEN ChainMayPass(verdicts) ELSE ChainMayFail(verdicts)}
==============================================================================
