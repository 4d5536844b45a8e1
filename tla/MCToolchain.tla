----------------------------- MODULE MCToolchain -----------------------------
(***************************************************************************)
(* Small instances of Toolchain: four OpenAPI documents and two batches of *)
(* a framework's scanner.                                                  *)
(***************************************************************************)
EXTENDS Toolchain

Chars(s) == [i \in 1 .. Len(s) |-> SubSeq(s, i, i)]

MCDecimal(n) == Chars(ToString(n))

------------------------------------------------------------------------------
(* Schemas *)

Ref(name) == "$ref" :> Pointer(TRUE, <<"components", "schemas", name>>)
StringSchema == Object([type |-> Scalar("string")])
Marked == "x-sensitive" :> Scalar("true")

\* A user has a name that is sensitive by reference, a boss who is a user, and a list of tags.
UserSchema ==
    Object([type |-> Scalar("object"),
            required |-> Array(<<Scalar("name")>>),
            properties |-> Object(
                [name |-> Object(Ref("Name") @@ Marked @@ [title |-> Scalar("full name")]),
                 boss |-> Object(Ref("User") @@ [title |-> Scalar("boss")]),
                 tags |-> Object([type |-> Scalar("array"), items |-> Object(Ref("Name"))])])])

\* Two that refer to each other, one to nothing there, one that says all of something.
Root ==
    Object([components |-> Object([schemas |-> Object(
        [User |-> UserSchema,
         Name |-> Object([type |-> Scalar("string"), title |-> Scalar("name")]),
         Here |-> Object(Ref("There") @@ [title |-> Scalar("here")]),
         There |-> Object(Ref("Here") @@ [note |-> Scalar("there")]),
         Some |-> Object([allOf |-> Array(<<Object(Ref("Name") @@ Marked), Object(Ref("Gone"))>>),
                          additionalProperties |-> Object(Ref("Here"))])])])])

Json(schema) == <<[json |-> FALSE, schema |-> Object(Ref("Name"))], [json |-> TRUE, schema |-> schema]>>

Param(in, name, schema, required) ==
    [in |-> in, named |-> TRUE, name |-> name, schema |-> schema, required |-> required]

------------------------------------------------------------------------------
(* Documents *)

Op(operationId, parameters, body, responses) ==
    [operationId |-> Chars(operationId), summary |-> <<>>, description |-> <<>>,
     deprecated |-> FALSE, tags |-> <<>>, parameters |-> parameters, requestBody |-> body,
     responses |-> responses]

Item(path, operations) == [path |-> Chars(path), item |-> operations]
On(method, operation) == [method |-> method, operation |-> operation]

Document(paths) ==
    [openapi |-> "3.1", version |-> "2.0.0", server |-> None, paths |-> paths, root |-> Root]

\* References of all sorts, in a parameter, a body and a response.
Users == Document(<<
    Item("/users",
         <<On("summary", None),
           On("get", [Op("", <<Param("query", "q", Object(Ref("Name") @@ Marked), FALSE),
                               Param("header", "h", Missing, TRUE)>>,
                         <<>>, 200 :> Json(Object(Ref("Some")))) EXCEPT
                      !.summary = Chars("list"), !.tags = <<"a", "b">>]),
           On("post", [Op("", <<Param("query", "name", Missing, TRUE)>>, Json(Object(Ref("User"))),
                          201 :> Json(Object(Ref("User"))) @@ 0 :> Json(Object(Ref("Gone"))))
                       EXCEPT !.description = <<<<>>, Chars("new")>>, !.tags = <<"b", "b">>])>>)>>)

\* The same id again and again, and one that looks like a number was appended already.
Threes == [Document(<<
    Item("/3ds", <<On("post", Op("3ds", <<>>, <<>>, 0 :> <<>>)),
                   On("put", [Op("3ds", <<>>, <<>>, 204 :> <<>>) EXCEPT !.deprecated = TRUE])>>),
    Item("/x", <<On("get", Op("3ds_2", <<>>, <<>>, 200 :> Json(Object(Ref("Here"))))),
                 On("post", Op("3ds", <<>>, <<>>, 0 :> <<>>))>>)>>)
    EXCEPT !.server = [absolute |-> TRUE, holes |-> {"host"}, variables |-> [host |-> "h", port |-> "p"]]]

\* Paths that leave no name, or one that needs care; references that lead nowhere.
Corners == [Document(<<
    Item("/", <<On("delete", Op("", <<>>, <<>>,
                     200 :> Json(Object("$ref" :> Pointer(FALSE, <<"elsewhere">>)))))>>),
    Item("/-HTTPServer/{item-id}/:at",
         <<On("head", Op("__", <<Param("path", "item-id", StringSchema, TRUE),
                                 Param("path", "at", Missing, TRUE)>>, <<>>, 0 :> <<>>))>>),
    Item("/x:y", <<On("patch", Op("", <<>>, <<>>, 200 :> <<>>))>>)>>)
    EXCEPT !.server = [absolute |-> TRUE, holes |-> {"host"}, variables |-> [host |-> None]]]

MCDocuments == {Users, Threes, Corners, [Users EXCEPT !.openapi = "2.0"]}

------------------------------------------------------------------------------
(* Options and hooks *)

MCScanOptions ==
    {DefaultOptions,
     [DefaultOptions EXCEPT !.base_path_prefix = Chars("A.B-C"), !.include_deprecated = FALSE],
     [DefaultOptions EXCEPT !.hooks = {"transform_operation", "derive_module_id", "transform_module"}],
     [DefaultOptions EXCEPT !.hooks = {"derive_module_id"}, !.base_path_prefix = Chars("p")],
     [DefaultOptions EXCEPT !.include = <<"s">>, !.exclude = <<"3">>],
     [DefaultOptions EXCEPT !.exclude = <<"[">>]}

MCIsPattern(pattern) == pattern # <<"[">>
MCMatches(pattern, id) == \E i \in 1 .. Len(id) : <<id[i]>> = pattern

\* The hooks drop deletions, give posts an id nothing is left of, and puts an alias; one of
\* them drops what it gets for a head.
MCTransformOperation(entry, operation) ==
    IF entry.method = "delete" THEN None ELSE operation
MCDeriveHook(entry, operation) ==
    IF entry.method \in {"post", "head"} THEN Chars("_.") ELSE None
MCTransformModule(m) ==
    CASE m.metadata["http_method"] = "PUT" ->
             [m EXCEPT !.suggested_alias = GenerateSuggestedAlias(m.metadata["url_path"], "put")]
      [] m.metadata["http_method"] = "HEAD" -> None
      [] OTHER -> m

------------------------------------------------------------------------------
(* What a framework brings *)

Function(id, description) ==
    ScannedModule(Chars(id), description, EmptySchema, EmptySchema, <<>>, <<"function">>)

Batch ==
    <<[Function("a.b", Chars("doc")) EXCEPT
         !.annotations = [DefaultAnnotations EXCEPT !.flags = {"destructive"}],
         !.display = [alias |-> Chars("z"), description |-> Chars("-s: \"z\""), guidance |-> None,
                      tags |-> <<"b", "a", "b">>]],
      [Function("a.b", Chars("a.b")) EXCEPT !.annotations = DefaultAnnotations,
         !.documentation = <<Chars("text")>>, !.tags = <<"a">>],
      [Function("a_b", <<>>) EXCEPT !.suggested_alias = <<>>]>>

Repeated == <<Function("f", <<>>), Function("f", <<>>), Function("f_2", <<>>), Function("f", <<>>)>>

\* One with parameters in parameters, deeper than a listing shows, and an overlay without tags.
Aliased ==
    <<[Function("g", Chars(" d\\")) EXCEPT
         !.metadata = [suggested_alias |-> <<>>],
         !.display = [alias |-> <<>>, description |-> <<>>, guidance |-> Chars("ask"), tags |-> <<>>],
         !.annotations = [DefaultAnnotations EXCEPT !.flags = {}, !.cache_ttl = 5],
         !.input_schema = Object(
             [type |-> Scalar("object"), required |-> Array(<<Scalar("where")>>),
              properties |-> Object(
                 [where |-> Object(
                     [type |-> Scalar("object"), required |-> Array(<<Scalar("zone")>>),
                      properties |-> Object(
                         [zone |-> Object([type |-> Scalar("object"),
                                           properties |-> Object([id |-> StringSchema])]),
                          id |-> Object(<<>>)])]),
                  when |-> Object([description |-> Scalar(Chars(" then ")),
                                   default |-> Scalar("now")])])]),
         !.output_schema = Object([type |-> Scalar("array")])]>>

MCBatches == {Batch, Repeated, Aliased}

------------------------------------------------------------------------------
(* The language model *)

\* One that says nothing, one that says what cannot be read, one that says what is refused.
MCEnvironments ==
    {<<>>, [threshold |-> Unreadable, timeout |-> 9], [threshold |-> 11, batch_size |-> 0]}

FromElsewhere == [endpoint |-> None, threshold |-> None, batch_size |-> None, timeout |-> None]

MCOverrides ==
    {FromElsewhere,
     [FromElsewhere EXCEPT !.threshold = 7, !.batch_size = 1],
     [FromElsewhere EXCEPT !.endpoint = [scheme |-> Chars("ftp")], !.threshold = 0],
     [FromElsewhere EXCEPT !.endpoint = [scheme |-> None], !.threshold = 0]}

Answer == [description |-> None, documentation |-> None, annotations |-> <<>>, input_schema |-> None,
           confidence |-> <<>>]

\* Sure of some fields and not of others, the second the other way round from the first; in a
\* fence, and bare.  Some replies hold no JSON.
MCRepliesTo(prompt) ==
    LET only(field, value) == IF field \in prompt.wanted THEN value ELSE None IN
    {<<<<"fence", "json">>,
       <<"json", [Answer EXCEPT
            !.description = only("description", Chars("said more than this")),
            !.documentation = only("documentation", Chars("said")),
            !.annotations = [readonly |-> <<"bool", TRUE>>, discoverable |-> <<"bool", FALSE>>,
                             odd |-> <<"bool", TRUE>>, cache_ttl |-> <<"string", "long">>],
            !.confidence = <<"description">> :> 7 @@ <<"annotations", "readonly">> :> 8
                           @@ <<"readonly">> :> 0 @@ <<"discoverable">> :> 9 @@ <<"odd">> :> 9]>>,
       <<"fence", "">>>>,
     <<<<"json", [Answer EXCEPT
            !.documentation = only("documentation",
                                   <<"ESC", "[", "1", "m", "A", "\n", "ESC", "ESC", "B", "CJK">>),
            !.annotations = [cache_ttl |-> <<"number", 5>>, destructive |-> <<"bool", TRUE>>,
                             cache_key_fields |-> <<"array", <<"id">>>>,
                             pagination_style |-> <<"string", "page">>],
            !.input_schema = only("input_schema",
                                  Object([properties |-> Object([p |-> StringSchema])])),
            !.confidence = <<"documentation">> :> 10 @@ <<"input_schema">> :> 9
                           @@ <<"cache_ttl">> :> 7 @@ <<"cache_key_fields">> :> 9
                           @@ <<"destructive">> :> 1]>>>>,
     <<<<"fence", "json">>>>,
     <<<<"fence", "">>, <<"prose">>, <<"fence", "">>>>,
     <<<<"fence", "">>, <<"json", Answer>>, <<"prose">>>>}

------------------------------------------------------------------------------
(* Proxies *)

MCProxyWriters == {[scheme |-> "https", timeout |-> 1], [scheme |-> "file", timeout |-> 1],
                   [scheme |-> "http", timeout |-> None], [scheme |-> "http", timeout |-> 0]}

MCRegistries == {{}, {Chars("a.b"), Chars("users.get")}}

\* All that any path asks for and more, with what has a meaning in a path and what a URL drops
\* (in a segment between others, in the last one, or where no path needs it); nothing.
MCInputs ==
    {Chars("item-id") :> Chars(between) @@ Chars("at") :> Chars(last) @@ Chars("q") :> Chars(".") :
        between \in {"a/b{q}:c %?", ".", ".."}, last \in {"a/b{q}:c %?", "../x", "...", "", ".", ".."}}
    \cup {<<>>}

------------------------------------------------------------------------------
(* Bindings and tables *)

Entry(id, alias, cli, mcp) ==
    [module_id |-> Chars(id), description |-> None, documentation |-> Chars("manual"), tags |-> None,
     display |-> [alias |-> alias, description |-> None, documentation |-> None,
                  guidance |-> Chars("careful"), tags |-> IF alias = None THEN <<>> ELSE None,
                  cli |-> [Silent EXCEPT !.alias = cli, !.guidance = <<>>],
                  mcp |-> [Silent EXCEPT !.alias = mcp],
                  a2a |-> [Silent EXCEPT !.description = Chars("for agents"),
                                         !.guidance = Chars("ask")]]]

MCBindingSources ==
    {<<>>,
     <<<<Entry("users.get", Chars("Users.All"), Chars("no good"), None),
         Entry("a.b", None, <<>>, Chars("9 lives"))>>, None,
       <<Entry("a.b", <<>>, Chars("fine-b"), None), Entry("3ds", Chars("7z"), None, None)>>>>,
     <<<<Entry("a.b_2", None, None, Chars("far_too_long_alias")),
         Entry("users.post", None, None, Chars("-x"))>>>>}

Table == [DefaultTable EXCEPT !.columns = <<"tags", "calls", "module_id">>]
Loud == [name |-> "loud", rules |-> <<[value |-> "a", tone |-> "warning"]>>]

MCCodes ==
    <<"\n", " ", "\"", "-", ".", "/">> \o <<"0", "1", "2", "3", "4", "5", "6", "7", "8", "9", ":">>
    \o UpperCase \o <<"\\", "_">> \o LowerCase \o <<"{", "}">>

MCViewOptions ==
    {[Table EXCEPT !.title = "all", !.tone_palettes = <<Loud>>],
     [Table EXCEPT !.columns = <<"module_id", "alias", "description">>, !.sort = [key |-> "alias", descending |-> TRUE], !.grouped = TRUE,
                   !.group_by = "prefix"],
     [Table EXCEPT !.filter = [DefaultFilter EXCEPT !.deprecated = FALSE, !.exposure = "exposed",
                                             !.search = Chars("S")],
                   !.sort = [key |-> "description", descending |-> FALSE],
                   !.grouped = TRUE, !.group_by = "tag"],
     [Table EXCEPT !.filter = [DefaultFilter EXCEPT !.annotations = {"readonly"}, !.exposure = "hidden"],
                   !.sort = [key |-> "calls", descending |-> TRUE], !.grouped = TRUE],
     [Table EXCEPT !.filter = [DefaultFilter EXCEPT !.tags = {"b"}], !.display = FALSE,
                   !.sort = [key |-> "module_id", descending |-> FALSE], !.grouped = TRUE,
                   !.group_by = "tag"]}
------------------------------------------------------------------------------
(* Texts and tables of a caller's own *)

MCPrintOptions ==
    {[style |-> "markdown", group_by |-> "tag", display |-> TRUE],
     [style |-> "skill", group_by |-> None, display |-> TRUE],
     [style |-> "table_row", group_by |-> "prefix", display |-> FALSE],
     [style |-> "json", group_by |-> "tag", display |-> FALSE]}

\* Keys that come and go and change places; cells with all that needs quotes; numbers that are
\* one in JSON.
MCTables ==
    {<<>>,
     <<<< >>, <<<<Chars("k"), Md!Text(<<>>)>>>>>>,
     <<<<<<Chars("a"), Md!Text(Chars("x,y"))>>, <<Chars("b\""), Md!Number(9)>>>>,
       <<<<Chars("b\""), Md!Number(8)>>, <<Chars("c"), Md!Text(<<"u", "\n", "v">>)>>>>,
       <<<<Chars("c"), Md!Listing(<<Md!Number(9), Md!Flag(FALSE), Md!Null>>)>>,
         <<Chars("a"), Md!Object(<<<<Chars("a"), Md!Text(Chars("\"\\"))>>>>)>>>>>>,
     <<<<<<Chars("r"), Md!Text(<<"\r">>)>>, <<Chars("s"), Md!Null>>, <<Chars("t"), Md!Flag(TRUE)>>>>>>,
     <<<<<<Chars("n"), Md!Number(9)>>>>, <<<<Chars("n"), Md!Number(8)>>>>>>}

Nothing == [fields |-> None, exclude |-> {}, max_depth |-> 3, table_threshold |-> 3]

Pet(name, age) == Md!Object(<<<<Chars("name"), Md!Text(Chars(name))>>, <<Chars("age"), age>>>>)

Person ==
    Md!Object(
        <<<<Chars("name"), Md!Text(Chars("Jo|e"))>>,
          <<Chars("pets"), Md!Listing(<<Pet("a|b", Md!Number(9)), Pet("c", Md!Null)>>)>>,
          <<Chars("odds"), Md!Listing(<<Pet("d", Md!Listing(<<Md!Number(1)>>)), Md!Text(Chars("e")),
                                        Md!Listing(<<>>), Md!Object(<<>>)>>)>>,
          <<Chars("none"), Md!Listing(<<>>)>>,
          <<Chars("home"), Md!Object(
              <<<<Chars("street"), Md!Text(<<"S", "CJK", "CJK", "CJK", "CJK">>)>>,
                <<Chars("at"), Md!Object(<<<<Chars("x"), Md!Number(1)>>, <<Chars("y"), Md!Number(2)>>,
                                           <<Chars("z"), Md!Flag(TRUE)>>>>)>>>>)>>,
          <<Chars("work"), Md!Object(
              <<<<Chars("boss"), Md!Object(<<<<Chars("name"), Md!Text(Chars("x"))>>,
                                             <<Chars("in"), Md!Object(<<<<Chars("b"), Md!Null>>>>)>>>>)>>>>)>>>>)

\* Objects in objects, n deep, each with an empty one beside it; a table in the innermost; and
\* lists in lists, deeper than compact texts go.
Nest[n \in 0 .. 8] ==
    IF n = 0 THEN Md!Object([i \in 1 .. 3 |-> <<Chars(ToString(i)), Md!Number(i)>>])
    ELSE Md!Object(<<<<Chars("v"), Md!Flag(TRUE)>>, <<Chars("in"), Nest[n - 1]>>,
                     <<Chars("by"), Md!Object(<<>>)>>>>)

Brackets[n \in 0 .. 9] == IF n = 0 THEN Md!Null ELSE Md!Listing(<<Brackets[n - 1]>>)

\* The last headings that fit; values in the place of those that do not; headings that do not
\* fit, down to the cap.
MCDocumented ==
    {<<Person, Nothing>>,
     <<Person, [Nothing EXCEPT !.max_depth = 2, !.exclude = {Chars("age")}]>>,
     <<Person, [Nothing EXCEPT !.max_depth = 9, !.table_threshold = 0,
                               !.fields = <<Chars("home"), Chars("gone"), Chars("work")>>]>>,
     <<Nest[5], [Nothing EXCEPT !.max_depth = 9]>>,
     <<Nest[6], [Nothing EXCEPT !.max_depth = 6]>>,
     <<Nest[6], [Nothing EXCEPT !.max_depth = 7, !.table_threshold = 9]>>,
     <<Nest[8], [Nothing EXCEPT !.max_depth = 9]>>,
     <<Md!Object(<<<<Chars("l"), Brackets[9]>>>>), Nothing>>,
     <<Md!Number(3), Nothing>>}
===============================================================================
