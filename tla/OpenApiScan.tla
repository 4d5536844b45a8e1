----------------------------- MODULE OpenApiScan -----------------------------
(***************************************************************************)
(* What OpenAPIScanner::scan (openapi_scanner.rs) makes of an operation    *)
(* of a document, for Scanner to put on the list.                          *)
(*                                                                         *)
(* A document is the record of what scan reads of it; its paths are in the *)
(* order they are written in, and "root" is the value references point     *)
(* into.  The hooks of ScanOptions are the caller's code: constants, each  *)
(* of which options either have or not.                                    *)
(***************************************************************************)
EXTENDS Scanner, References

CONSTANTS
    TransformOperation(_, _),    \* entry, operation -> operation or None
    DeriveHook(_, _),            \* entry, operation -> id or None
    TransformModule(_)            \* module -> module or None

------------------------------------------------------------------------------
(* What a module is made of *)

\* Without its hook an operation goes as it is, an id is derived, a module stays.
Transformed(entry) ==
    IF "transform_operation" \in options.hooks
    THEN TransformOperation(entry, entry.operation) ELSE entry.operation

HookedId(entry, operation) ==
    IF "derive_module_id" \in options.hooks THEN DeriveHook(entry, operation) ELSE None

TransformedModule(m) ==
    IF "transform_module" \in options.hooks THEN TransformModule(m) ELSE m

\* Each reference of the body and of the responses, whatever their media types.
OperationRefs(operation) ==
    LET schemas == [i \in 1 .. Len(operation.requestBody) |-> operation.requestBody[i].schema]
                   \o FlattenSeq(SetToSeq({[i \in 1 .. Len(content) |-> content[i].schema] :
                          content \in {operation.responses[s] : s \in DOMAIN operation.responses}}))
    IN  UNION {CollectRefs(schema) : schema \in Members(schemas)}

RefWarnings(operation, root) ==
    {<<"external", r>> : r \in {p \in OperationRefs(operation) : ~p.local}}
    \cup {<<"unresolvable", r>> : r \in {p \in OperationRefs(operation) :
              p.local /\ Keys(ResolveRef(p, root)) = {}}}

\* infer_annotations_from_method
InferAnnotations(method) ==
    [DefaultAnnotations EXCEPT !.flags = @ \cup
        CASE method = "get"                 -> {"readonly", "cacheable"}
          [] method \in {"head", "options"} -> {"readonly"}
          [] method = "delete"              -> {"destructive"}
          [] method = "put"                 -> {"idempotent"}
          [] OTHER                          -> {}]

\* The first line that is not blank.
FirstLine(lines) ==
    LET written == NonEmpty(lines)
    IN  IF written = <<>> THEN <<>> ELSE Head(written)

\* The first server's URL as far as it can be used: verbatim when nothing is declared of its
\* variables, substituted when each of them has a default, else none.
ServerUrl(server) ==
    CASE server = None \/ ~server.absolute -> None
      [] server # None /\ server.absolute /\ server.variables = <<>> -> <<"verbatim", server.holes>>
      [] OTHER ->
           IF /\ \A name \in DOMAIN server.variables : server.variables[name] # None
              /\ server.holes \subseteq DOMAIN server.variables
           THEN <<"substituted", {server.variables[name] : name \in server.holes}>>
           ELSE None

\* The id before it is normalised: a hook's or a derived one, under the prefix if there is one.
ChosenId(entry, operation) ==
    LET hooked == HookedId(entry, operation)
        id == IF hooked # None THEN hooked
              ELSE DeriveModuleId(entry.path, entry.method, operation.operationId)
    IN  IF options.base_path_prefix = <<>> THEN id ELSE options.base_path_prefix \o <<".">> \o id

\* The module of an operation, before the last hook.
OperationModule(entry, operation) ==
    LET m == ScannedModule(ChosenId(entry, operation),
                 IF operation.summary # <<>> THEN operation.summary
                 ELSE FirstLine(operation.description),
                 ExtractInputSchema(operation, document.root),
                 ExtractOutputSchema(operation, document.root),
                 operation.tags, <<Upper[entry.method], entry.path>>)
    IN  [m EXCEPT
          !.version = document.version,
          !.annotations = [InferAnnotations(entry.method) EXCEPT !.deprecated = operation.deprecated],
          !.documentation = IF operation.description = <<>> THEN None ELSE operation.description,
          !.metadata = [http_method |-> Upper[entry.method], url_path |-> entry.path,
                        server_url |-> ServerUrl(document.server)],
          !.warnings = RefWarnings(operation, document.root)
                       \cup (IF Successes(operation) = {} THEN {<<"no 2xx response">>} ELSE {})]

\* The module of an entry, or None: a hook or include_deprecated drops the operation.
EntryModule(entry) ==
    LET operation == Transformed(entry)
    IN  IF operation = None \/ (operation.deprecated /\ ~options.include_deprecated) THEN None
        ELSE TransformedModule(OperationModule(entry, operation))

------------------------------------------------------------------------------
(* Steps *)

ScanOperation == ScanModule(EntryModule(Entries(document)[position + 1]))

ScanNext ==
    \/ StartScan \/ ScanOperation \/ FilterFound \/ EndScan
    \/ FrameworkScan \/ EndFrameworkScan
    \/ DedupStep /\ UNCHANGED scanVars

------------------------------------------------------------------------------
(* Properties *)

\* The operations of the document a module may have been made of.
Origins(m) ==
    LET entries == SelectSeq(Entries(document), LAMBDA e :
            e.path = m.metadata["url_path"] /\ Upper[e.method] = m.metadata["http_method"])
    IN  {Transformed(e) : e \in Members(entries)} \ {None}

\* What the properties of the input schema are to say.
InputSources(operation) ==
    LET parameters == InputParameters(operation)
        body == BodySchema(operation, document.root)
        named == {parameters[i].name : i \in 1 .. Len(parameters)}
        last(name) == CHOOSE i \in 1 .. Len(parameters) :
            parameters[i].name = name /\ \A j \in (i + 1) .. Len(parameters) : parameters[j].name # name
    IN  (IF Has(body, "properties", "object") THEN body.at["properties"].at ELSE EmptyObject.at)
        @@ [name \in named |-> ResolveSchema(ParameterSchema(parameters[last(name)]), document.root)]

(* The schemas of a module say what the schemas of its operation and all they refer to say, *)
(* keyword by keyword, the one nearest to the reference first, however deep the references  *)
(* go and though they may come back to where they started: only below the limit of depth    *)
(* does anything stay unresolved.  What stands beside a reference at the very top of a      *)
(* parameter's, a body's or a response's schema is not counted here: see SiblingsKept       *)
(* (extract_input_schema, extract_output_schema, deep_resolve_refs).                        *)
RefsFollowed ==
    stage = "scan" =>
        \A i \in 1 .. Len(found) : \E operation \in Origins(found[i]) :
            LET sources == InputSources(operation)
                input == found[i].input_schema.at["properties"].at
            IN  /\ DOMAIN input = DOMAIN sources
                /\ \A name \in DOMAIN input :
                     Conveys(input[name], sources[name], document.root, 0)
                /\ Conveys(found[i].output_schema,
                           ResolveSchema(OutputSource(operation), document.root), document.root, 0)

(* What is written beside a reference is part of the schema, wherever the reference stands: *)
(* CHANGELOG.md has the resolved target merged with its siblings at every depth, so that a  *)
(* field marked x-sensitive there reaches apcore marked (extract_input_schema,              *)
(* extract_output_schema).                                                                  *)
SiblingsKept ==
    \A i \in 1 .. Len(found) : \E operation \in Origins(found[i]) :
        /\ \A p \in Members(InputParameters(operation)) :
             LET input == found[i].input_schema.at["properties"].at[p.name]
             IN  IsReference(ParameterSchema(p)) => Keys(Beside(p.schema)) \subseteq Keys(input)
        /\ LET source == OutputSource(operation)
           IN  IsReference(source) => Keys(Beside(source)) \subseteq Keys(found[i].output_schema)
===============================================================================
