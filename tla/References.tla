------------------------------ MODULE References ------------------------------
(***************************************************************************)
(* JSON schemas that refer to one another, and what the toolkit makes of   *)
(* them (openapi.rs).                                                      *)
(*                                                                         *)
(* A JSON value is an object (a function from keys), an array (a           *)
(* sequence), a string that is a reference, or a scalar.  The tokens of a  *)
(* pointer are given decoded.                                              *)
(***************************************************************************)
EXTENDS Integers, Sequences, FiniteSets, SequencesExt, TLC

CONSTANT MaxDepth  \* nesting and references followed; 16 in the code

------------------------------------------------------------------------------
(* JSON values *)

Object(at)     == [kind |-> "object", at |-> at]
Array(items)   == [kind |-> "array", items |-> items]
Scalar(value)  == [kind |-> "scalar", value |-> value]
Pointer(local, tokens) == [kind |-> "pointer", local |-> local, tokens |-> tokens]
Missing        == [kind |-> "missing"]
EmptyObject    == Object([key \in {} |-> Missing])

Keys(node) == IF node.kind = "object" THEN DOMAIN node.at ELSE {}

Has(node, key, kind) == key \in Keys(node) /\ node.at[key].kind = kind

IsReference(node) == Has(node, "$ref", "pointer")
Beside(node) == Object(Restrict(node.at, Keys(node) \ {"$ref"}))

------------------------------------------------------------------------------
(* Resolution *)

\* An empty object if the pointer leaves the document, goes astray, or ends at no object.
ResolveRef(pointer, document) ==
    LET found == FoldLeft(LAMBDA node, token :
                     IF token \in Keys(node) THEN node.at[token] ELSE Missing,
                     document, pointer.tokens)
    IN  IF pointer.local /\ found.kind = "object" THEN found ELSE EmptyObject

\* One reference, at the top, is followed; what stands beside it goes.
ResolveSchema(schema, document) ==
    IF IsReference(schema) THEN ResolveRef(schema.at["$ref"], document) ELSE schema

\* Under these keywords are lists of schemas, schemas by name, or a schema.
ListKeywords   == {"allOf", "anyOf", "oneOf", "items", "prefixItems"}
MapKeywords    == {"properties", "patternProperties"}
SchemaKeywords == {"items", "additionalProperties", "not", "if", "then", "else"}

\* What stands under a keyword, with each schema in it taken through Resolved.
Within(keyword, node, Resolved(_)) ==
    CASE keyword \in ListKeywords /\ node.kind = "array" ->
             Array([i \in DOMAIN node.items |-> Resolved(node.items[i])])
      [] keyword \in MapKeywords /\ node.kind = "object" ->
             Object([name \in DOMAIN node.at |-> Resolved(node.at[name])])
      [] keyword \in SchemaKeywords /\ node.kind = "object" -> Resolved(node)
      [] OTHER -> node

\* Mutant of Overlay: the target wins over what stands beside the reference.
OverlayTargetWins(beside, target) == Object(target.at @@ beside.at)

\* What stands beside a reference is laid over its target.
Overlay(beside, target) == Object(beside.at @@ target.at)

\* Following a reference takes a level; what stands beside it is at the reference's own.
RECURSIVE DeepResolveRefs(_, _, _)
DeepResolveRefs(schema, document, depth) ==
    CASE depth > MaxDepth \/ schema.kind # "object" -> schema
      [] depth <= MaxDepth /\ schema.kind = "object" /\ IsReference(schema) ->
             Overlay(DeepResolveRefs(Beside(schema), document, depth),
                     DeepResolveRefs(ResolveRef(schema.at["$ref"], document), document, depth + 1))
      [] OTHER ->
             Object([keyword \in Keys(schema) |->
                 Within(keyword, schema.at[keyword],
                        LAMBDA node : DeepResolveRefs(node, document, depth + 1))])

\* The references in a value, wherever they stand.
RECURSIVE CollectRefs(_)
CollectRefs(node) ==
    CASE node.kind = "pointer" -> {}
      [] node.kind = "object" ->
             (IF IsReference(node) THEN {node.at["$ref"]} ELSE {})
             \cup UNION {CollectRefs(node.at[key]) : key \in Keys(node)}
      [] node.kind = "array" -> UNION {CollectRefs(node.items[i]) : i \in DOMAIN node.items}
      [] OTHER -> {}

------------------------------------------------------------------------------
(* Extraction from an operation *)

\* The schema of the first JSON media type of a body or response; Missing if it has none.
JsonSchema(content) ==
    LET json == SelectSeq(content, LAMBDA entry : entry.json)
    IN  IF json = <<>> THEN Missing ELSE Head(json).schema

EmptySchema == Object([type |-> Scalar("object"), properties |-> EmptyObject])

\* Query and path parameters that have a name.
InputParameters(operation) ==
    SelectSeq(operation.parameters, LAMBDA p : p.in \in {"query", "path"} /\ p.named)

ParameterSchema(p) ==
    IF p.schema = Missing THEN Object([type |-> Scalar("string")]) ELSE p.schema

BodySchema(operation, document) ==
    LET schema == JsonSchema(operation.requestBody)
    IN  IF schema = Missing THEN EmptyObject ELSE ResolveSchema(schema, document)

WithoutRepeats(list) == FoldLeft(LAMBDA l, x : IF Contains(l, x) THEN l ELSE Append(l, x), <<>>, list)

\* The properties of the body replace parameters of the same name.
ExtractInputSchema(operation, document) ==
    LET parameters == InputParameters(operation)
        body == BodySchema(operation, document)
        ofParameters == FoldLeft(LAMBDA f, p :
                            (p.name :> ResolveSchema(ParameterSchema(p), document)) @@ f,
                            EmptyObject.at, parameters)
        ofBody == IF Has(body, "properties", "object") THEN body.at["properties"].at
                  ELSE EmptyObject.at
        properties == ofBody @@ ofParameters
        demanded == SelectSeq(parameters, LAMBDA p : p.required)
        required == [i \in 1 .. Len(demanded) |-> Scalar(demanded[i].name)]
                    \o (IF Has(body, "required", "array") THEN body.at["required"].items ELSE <<>>)
    IN  Object([type |-> Scalar("object"),
                properties |-> Object([name \in DOMAIN properties |->
                                   DeepResolveRefs(properties[name], document, 0)]),
                required |-> Array(WithoutRepeats(required))])

\* Responses are keyed by status; 0 is a key that is not three digits.
Successes(operation) == {status \in DOMAIN operation.responses : status \in 200 .. 299}

\* The schema of the lowest success status that has one.
OutputSource(operation) ==
    LET described == {status \in Successes(operation) :
                         JsonSchema(operation.responses[status]) # Missing}
    IN  IF described = {} THEN EmptySchema
        ELSE JsonSchema(operation.responses[CHOOSE s \in described : \A t \in described : s <= t])

ExtractOutputSchema(operation, document) ==
    DeepResolveRefs(ResolveSchema(OutputSource(operation), document), document, 0)

------------------------------------------------------------------------------
(* What a schema says, by its definition: each keyword it has itself, and  *)
(* those of the schema it refers to that it does not have.                 *)

\* The keywords of a schema at a level, each with what is said and the level it is said at.
RECURSIVE Says(_, _, _)
Says(schema, document, depth) ==
    IF depth <= MaxDepth /\ IsReference(schema)
    THEN [key \in Keys(Beside(schema)) |-> [node |-> schema.at[key], depth |-> depth]]
         @@ Says(ResolveRef(schema.at["$ref"], document), document, depth + 1)
    ELSE [key \in Keys(schema) |-> [node |-> schema.at[key], depth |-> depth]]

\* The schemas under a keyword, by where they stand.
Under(keyword, node) ==
    CASE keyword \in ListKeywords /\ node.kind = "array"  -> node.items
      [] keyword \in MapKeywords /\ node.kind = "object"  -> node.at
      [] keyword \in SchemaKeywords /\ node.kind = "object" -> (keyword :> node)
      [] OTHER -> <<>>

\* A resolved schema says what the schema says, no less and no more, down to MaxDepth.
RECURSIVE Conveys(_, _, _, _)
Conveys(resolved, schema, document, depth) ==
    IF depth > MaxDepth \/ schema.kind # "object" THEN resolved = schema
    ELSE LET said == Says(schema, document, depth) IN
         /\ Keys(resolved) = DOMAIN said
         /\ \A key \in DOMAIN said :
              LET there == Under(key, said[key].node)
                  here  == Under(key, resolved.at[key])
              IN  IF said[key].depth > MaxDepth \/ there = <<>>
                  THEN resolved.at[key] = said[key].node
                  ELSE /\ DOMAIN here = DOMAIN there
                       /\ \A place \in DOMAIN there :
                            Conveys(here[place], there[place], document, said[key].depth + 1)
===============================================================================
