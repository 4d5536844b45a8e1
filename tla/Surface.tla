------------------------------- MODULE Surface -------------------------------
(***************************************************************************)
(* format_schema, format_module and format_modules (formatting/surface.rs):*)
(* the modules of the list as text, for a language model, as a skill file  *)
(* or as rows.  A text is the sequence of its parts; what stands between   *)
(* them is left out.  Properties of a schema are in any order.             *)
(***************************************************************************)
EXTENDS ViewModel, References

CONSTANTS
    PrintOptions,     \* the [style, group_by, display] a caller may ask for
    MaxShownDepth     \* DEFAULT_MAX_DEPTH; 3 in the code

VARIABLE printed      \* the last text: [options, blocks]; None before

printVars == <<printed>>

PrintIdle == printed = None

------------------------------------------------------------------------------
(* Schemas *)

TypeOf(schema) == IF Has(schema, "type", "scalar") THEN schema.at["type"].value ELSE None

RequiredSet(schema) ==
    IF Has(schema, "required", "array")
    THEN {schema.at["required"].items[i].value : i \in DOMAIN schema.at["required"].items}
    ELSE {}

HasNested(schema) == TypeOf(schema) = "object" /\ Has(schema, "properties", "object")

Bullet(indent, name, type, required) ==
    [indent |-> indent, name |-> name, type |-> type, required |-> required, json |-> None]
Fenced(indent, schema) ==
    [indent |-> indent, name |-> None, type |-> None, required |-> FALSE, json |-> schema]

\* Mutant of Indented: what is below a property stands beside it.
Level(lines) == lines

Indented(lines) == [i \in DOMAIN lines |-> [lines[i] EXCEPT !.indent = @ + 1]]

\* One bullet for a property, and below it its own properties, as JSON where they lie too deep.
RECURSIVE RenderProperties(_, _)
RenderProperties(schema, depth) ==
    LET properties == schema.at["properties"].at
        names == SetToSeq(DOMAIN properties)
        below(property) ==
            CASE ~HasNested(property) -> <<>>
              [] HasNested(property) /\ depth + 1 >= MaxShownDepth -> Indented(<<Fenced(0, property)>>)
              [] HasNested(property) /\ depth + 1 < MaxShownDepth ->
                   Indented(RenderProperties(property, depth + 1))
        type(property) == IF TypeOf(property) = None THEN "any" ELSE TypeOf(property)
    IN  FlattenSeq([i \in DOMAIN names |->
            <<Bullet(0, names[i], type(properties[names[i]]), names[i] \in RequiredSet(schema))>>
            \o below(properties[names[i]])])

\* A schema of another type than an object is named by its type.
RenderSchemaProse(schema) ==
    CASE HasNested(schema) -> RenderProperties(schema, 0)
      [] ~HasNested(schema) /\ TypeOf(schema) \in {None, "object"} -> <<>>
      [] OTHER -> <<Bullet(0, None, TypeOf(schema), FALSE)>>

\* A row for a property, without what lies below it.
SchemaRow(name, property, required) ==
    [name        |-> name,
     type        |-> IF TypeOf(property) = None THEN "any" ELSE TypeOf(property),
     required    |-> required,
     default     |-> IF "default" \in Keys(property) THEN property.at["default"] ELSE Missing,
     description |-> IF Has(property, "description", "scalar")
                     THEN TrimEnd(TrimStart(property.at["description"].value, " "), " ") ELSE <<>>]

\* A schema of another type than an object is a caption instead.
RenderSchemaTable(schema) ==
    LET names == SetToSeq(DOMAIN schema.at["properties"].at)
        row(n) == SchemaRow(n, schema.at["properties"].at[n], n \in RequiredSet(schema))
    IN  CASE HasNested(schema) -> [i \in DOMAIN names |-> row(names[i])]
          [] ~HasNested(schema) /\ TypeOf(schema) \in {None, "object"} -> <<>>
          [] OTHER -> <<SchemaRow(None, schema, FALSE)>>

\* format_schema: SchemaNotObject (None) if the schema says it is of another type.
FormatSchema(schema, style) ==
    CASE TypeOf(schema) \notin {None, "object"} -> None
      [] style = "json"  -> schema
      [] style = "prose" -> RenderSchemaProse(schema)
      [] style = "table" -> RenderSchemaTable(schema)

------------------------------------------------------------------------------
(* Modules *)

\* The overlay of the module in place of what it says itself, if asked for and not empty.
ResolveDisplayFields(m, display) ==
    [title       |-> ShownText(m, "alias", m.module_id, display),
     description |-> ShownText(m, "description", m.description, display),
     guidance    |-> ShownText(m, "guidance", None, display),
     tags        |-> ShownText(m, "tags", m.tags, display)]

Settings == {"cache_ttl", "pagination_style", "cache_key_fields"}

\* Rows for what differs from the default; the free extras, "deprecated" among them, have none.
RenderAnnotations(annotations) ==
    IF annotations = None THEN {}
    ELSE LET default == DefaultAnnotations IN
         {<<f, f \in annotations.flags>> : f \in (annotations.flags \ default.flags)
                                                 \cup (default.flags \ annotations.flags)}
         \cup {<<f, annotations[f]>> : f \in {g \in Settings : annotations[g] # default[g]}}

ModuleBody(m, resolved) ==
    [resolved   |-> resolved,
     parameters |-> RenderSchemaProse(m.input_schema),
     returns    |-> RenderSchemaProse(m.output_schema),
     behavior   |-> RenderAnnotations(m.annotations)]

NeedQuotes == {":", "#", "{", "}", "[", "]", "'", "\"", "\n", "&", "*", "!", "|", ">"}
SpecialStarts == {"-", "?", "%", "@", "backquote"}

\* yaml_scalar
YamlScalar(text) ==
    IF text # <<>> /\ text[1] \notin SpecialStarts /\ \A i \in DOMAIN text : text[i] \notin NeedQuotes
    THEN text
    ELSE <<"\"">> \o FlattenSeq([i \in DOMAIN text |->
                         IF text[i] \in {"\\", "\""} THEN <<"\\", text[i]>> ELSE <<text[i]>>])
         \o <<"\"">>

OneLine(text) ==
    LET flat == [i \in DOMAIN text |-> IF text[i] = "\n" THEN " " ELSE text[i]]
    IN  TrimEnd(TrimStart(flat, " "), " ")

Block(kind, id, content) == [kind |-> kind, id |-> id, content |-> content]

\* format_module; "json" is the module itself.
FormatModule(m, style, display) ==
    LET resolved == ResolveDisplayFields(m, display)
        alias == IF resolved.title # m.module_id THEN resolved.title ELSE <<>>
    IN  CASE style = "json" -> Block("json", m.module_id, m)
          [] style = "table_row" ->
               Block("row", m.module_id, <<alias, resolved.description, resolved.tags>>)
          [] style = "skill" ->
               Block("skill", m.module_id,
                     <<resolved.title, YamlScalar(OneLine(resolved.description)), ModuleBody(m, resolved)>>)
          [] style = "markdown" -> Block("body", m.module_id, ModuleBody(m, resolved))

\* format_modules: in order, or group by group as labels first occur; groups are not for JSON.
FormatModules(o) ==
    LET one(i) == FormatModule(modules[i], o.style, o.display)
        all == [i \in 1 .. Len(modules) |-> i]
        groups == BuildGroups(all, o.group_by)
        labels == LabelOrder(all, o.group_by)
    IN  IF o.style = "json" \/ o.group_by = None THEN [i \in DOMAIN all |-> one(i)]
        ELSE FlattenSeq([k \in DOMAIN labels |->
                <<Block("group", labels[k], None)>>
                \o [i \in DOMAIN groups[labels[k]] |-> one(groups[labels[k]][i])]])

PrintModules ==
    /\ stage = "ready"
    /\ \E o \in PrintOptions : printed' = [options |-> o, blocks |-> FormatModules(o)]
    /\ Goto("printed") /\ UNCHANGED modules

\* A program prints the schemas of its modules, each on its own.
PrintSchemas ==
    /\ stage = "ready"
    /\ \E style \in {"json", "prose", "table"} :
        printed' = [options |-> [style |-> style, group_by |-> None, display |-> FALSE],
                    blocks  |-> [i \in 1 .. Len(modules) |->
                        Block("schemas", modules[i].module_id,
                              <<FormatSchema(modules[i].input_schema, style),
                                FormatSchema(modules[i].output_schema, style)>>)]]
    /\ Goto("printed") /\ UNCHANGED modules

------------------------------------------------------------------------------
(* What a reader finds *)

Below(lines) ==
    [i \in 1 .. Len(lines) - 1 |-> [lines[i + 1] EXCEPT !.indent = @ - 1]]

\* A bullet with the lines up to the next one that stands no deeper.
RECURSIVE ReadProperties(_)
ReadProperties(lines) ==
    LET ends(i) == {j \in i + 1 .. Len(lines) : lines[j].indent = 0} \cup {Len(lines) + 1}
        part(i) == SubSeq(lines, i, (CHOOSE j \in ends(i) : \A k \in ends(i) : j <= k) - 1)
    IN  {[name |-> lines[i].name, type |-> lines[i].type, required |-> lines[i].required,
          json |-> lines[i].json, below |-> ReadProperties(Below(part(i)))] :
            i \in {k \in DOMAIN lines : lines[k].indent = 0}}

RECURSIVE PropertiesOf(_, _)
PropertiesOf(schema, depth) ==
    IF ~HasNested(schema) THEN {}
    ELSE IF depth = MaxShownDepth
    THEN {[name |-> None, type |-> None, required |-> FALSE, json |-> schema, below |-> {}]}
    ELSE LET properties == schema.at["properties"].at IN
         {[name |-> n, type |-> IF TypeOf(properties[n]) = None THEN "any" ELSE TypeOf(properties[n]),
           required |-> n \in RequiredSet(schema), json |-> None,
           below |-> PropertiesOf(properties[n], depth + 1)] : n \in DOMAIN properties}

ReadYaml(scalar) ==
    IF scalar[1] # "\"" THEN scalar
    ELSE LET inner == SubSeq(scalar, 2, Len(scalar) - 1)
             escapes(i) == inner[i] = "\\" /\ Cardinality({j \in 1 .. i : \A k \in j .. i : inner[k] = "\\"}) % 2 = 1
             kept == SelectSeq([i \in DOMAIN inner |-> i], LAMBDA i : ~escapes(i))
         IN  [i \in DOMAIN kept |-> inner[kept[i]]]

BodyTrue(m, body) ==
    LET flags == {r \in body.behavior : r[1] \notin Settings} IN
    /\ HasNested(m.input_schema) => ReadProperties(body.parameters) = PropertiesOf(m.input_schema, 0)
    /\ HasNested(m.output_schema) => ReadProperties(body.returns) = PropertiesOf(m.output_schema, 0)
    /\ m.annotations # None =>
         m.annotations.flags = (DefaultAnnotations.flags \ {r[1] : r \in {x \in flags : ~x[2]}})
                               \cup {r[1] : r \in {x \in flags : x[2]}}
    /\ m.annotations # None =>
         \A f \in Settings :
             {m.annotations[f]} = IF \E r \in body.behavior : r[1] = f
                                  THEN {r[2] : r \in {x \in body.behavior : x[1] = f}}
                                  ELSE {DefaultAnnotations[f]}

\* The rows of a table are the bullets of the prose that stand furthest left, and say what is
\* used where nothing is given.
SchemaTrue(schema, shown, style) ==
    LET bullets == ReadProperties(RenderSchemaProse(schema)) IN
    CASE shown = None -> ~HasNested(schema)
      [] shown # None /\ style = "json" -> shown = schema
      [] shown # None /\ style = "prose" -> ReadProperties(shown) = PropertiesOf(schema, 0)
      [] shown # None /\ style = "table" ->
           /\ Len(shown) = Cardinality(bullets)
           /\ {<<r.name, r.type, r.required>> : r \in ToSet(shown)} =
                  {<<b.name, b.type, b.required>> : b \in bullets}
           /\ \A r \in ToSet(shown) :
                r.default # Missing => r.default = schema.at["properties"].at[r.name].at["default"]

(* A listing shows every module under each of its labels, as often as it has it, in the order  *)
(* of the list, and under no other; and of each the parameters and results, at the place where *)
(* they lie in its schemas and whole where they lie too deep for bullets, the flags it sets,   *)
(* and, in the front matter of a skill, its description; a schema printed by itself is the     *)
(* same in every form (format_modules, format_module, format_schema).                          *)
ListingTrue ==
    printed # None =>
        LET o == printed.options
            blocks == printed.blocks
            heads == {b \in 1 .. Len(blocks) : blocks[b].kind = "group"}
            under(b) == IF {h \in heads : h < b} = {} THEN None
                        ELSE blocks[CHOOSE h \in heads : h < b /\ \A x \in heads : x < b => x <= h].id
            bears(m) == IF o.style = "json" \/ o.group_by = None THEN <<None>> ELSE Labels(m, o.group_by)
            shows(b, i) ==
                /\ blocks[b].id = modules[i].module_id
                /\ blocks[b].kind = "body" => BodyTrue(modules[i], blocks[b].content)
                /\ blocks[b].kind = "skill" =>
                     /\ BodyTrue(modules[i], blocks[b].content[3])
                     /\ ReadYaml(blocks[b].content[2]) =
                            OneLine(ShownText(modules[i], "description", modules[i].description, o.display))
                /\ blocks[b].kind = "schemas" =>
                     /\ SchemaTrue(modules[i].input_schema, blocks[b].content[1], o.style)
                     /\ SchemaTrue(modules[i].output_schema, blocks[b].content[2], o.style)
            listed(label) == SelectSeq([b \in 1 .. Len(blocks) |-> b],
                                       LAMBDA b : b \notin heads /\ under(b) = label)
            due(label) == FlattenSeq([i \in 1 .. Len(modules) |->
                            [k \in 1 .. Len(SelectSeq(bears(modules[i]), LAMBDA x : x = label)) |-> i]])
        IN  \A label \in {blocks[h].id : h \in heads} \cup UNION {ToSet(bears(modules[i])) : i \in 1 .. Len(modules)} :
                /\ Len(listed(label)) = Len(due(label))
                /\ \A k \in 1 .. Len(due(label)) : shows(listed(label)[k], due(label)[k])
===============================================================================
