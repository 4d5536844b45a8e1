----------------------------- MODULE ProxyWriter -----------------------------
(***************************************************************************)
(* HTTPProxyRegistryWriter::write (output/http_proxy_writer.rs): for each  *)
(* module a proxy in apcore's registry, which makes calls of the module    *)
(* requests to the operation its metadata names.  What one call goes       *)
(* through in time is modelled in HttpProxy; here it is the request a      *)
(* module and its inputs make.                                             *)
(*                                                                         *)
(* Paths and values are texts of ASCII characters.  base_url goes before   *)
(* every path and is left out: it has no path of its own to climb into.    *)
(***************************************************************************)
EXTENDS OpenApiScan

CONSTANTS
    ProxyWriters,  \* [scheme, timeout] given to new; None for a timeout that is not finite
    Registries,    \* the sets of ids a registry may hold already
    Inputs         \* what calls may bring: functions from names to texts

VARIABLES
    registry,  \* id -> [descriptor, proxy], or None for what others registered
    proxied    \* results of write: whether each module was registered, in order

proxyVars == <<registry, proxied>>

ProxyIdle == registry = <<>> /\ proxied = <<>>

------------------------------------------------------------------------------
(* Placeholders *)

IsWordStart(c) == IsLower(c) \/ IsUpper(c) \/ c = "_"
IsWordPart(c) == IsAlphanumeric(c) \/ c = "_"

\* The last character of the word, or of the text without a brace, that begins at i.
WordEnd(path, i) ==
    i - 1 + Cardinality({j \in i .. Len(path) : \A k \in i .. j : IsWordPart(path[k])})
TextEnd(path, i) ==
    i - 1 + Cardinality({j \in i .. Len(path) : \A k \in i .. j : path[k] # "}"})

\* Mutant of PlaceholderAt: what is in braces is a word.
WordPlaceholderAt(path, i) ==
    LET end == WordEnd(path, i + 1)
    IN  CASE path[i] = "{" /\ end > i /\ end < Len(path) /\ path[end + 1] = "}" -> end + 1
          [] path[i] = ":" /\ i < Len(path) /\ IsWordStart(path[i + 1]) -> end
          [] OTHER -> 0

\* The end of the placeholder that begins at i, or 0: anything in braces, or a colon and a word.
PlaceholderAt(path, i) ==
    CASE path[i] = "{" /\ i < TextEnd(path, i + 1) /\ TextEnd(path, i + 1) < Len(path) ->
           TextEnd(path, i + 1) + 1
      [] path[i] = ":" /\ i < Len(path) /\ IsWordStart(path[i + 1]) -> WordEnd(path, i + 1)
      [] OTHER -> 0

\* The pieces of a path: single characters, and placeholders with the name of each.
Pieces(path) ==
    LET next(pieces, i) ==
            IF i <= pieces.end THEN pieces
            ELSE LET end == PlaceholderAt(path, i)
                     first == i + 1
                     last == IF path[i] = "{" THEN end - 1 ELSE end
                 IN  IF end = 0
                     THEN [pieces EXCEPT !.list = Append(@, [name |-> None, text |-> <<path[i]>>])]
                     ELSE [end |-> end,
                           list |-> Append(pieces.list, [name |-> SubSeq(path, first, last),
                                                         text |-> SubSeq(path, i, end)])]
    IN  FoldLeft(next, [end |-> 0, list |-> <<>>], [i \in 1 .. Len(path) |-> i]).list

ExtractPathParamNames(path) == {piece.name : piece \in Members(Pieces(path))} \ {None}

SubstitutePathParams(path, values) ==
    LET pieces == Pieces(path)
    IN  FlattenSeq([i \in 1 .. Len(pieces) |->
            IF pieces[i].name \in DOMAIN values THEN values[pieces[i].name] ELSE pieces[i].text])

------------------------------------------------------------------------------
(* Requests *)

Hex == "/" :> <<"2", "F">> @@ "%" :> <<"2", "5">> @@ "{" :> <<"7", "B">> @@ "}" :> <<"7", "D">>
       @@ ":" :> <<"3", "A">> @@ "?" :> <<"3", "F">> @@ " " :> <<"2", "0">>

PercentEncodePathSegment(text) ==
    FlattenSeq([i \in 1 .. Len(text) |->
        IF IsAlphanumeric(text[i]) \/ text[i] \in {"-", ".", "_", "~"} THEN <<text[i]>>
        ELSE <<"%">> \o Hex[text[i]]])

BodyMethods == {"POST", "PUT", "PATCH"}
SupportedMethods == BodyMethods \cup {"GET", "DELETE", "HEAD", "OPTIONS", "TRACE"}

HttpFields(m) ==
    [http_method |-> IF "http_method" \in DOMAIN m.metadata THEN m.metadata["http_method"] ELSE "GET",
     url_path    |-> IF "url_path" \in DOMAIN m.metadata THEN m.metadata["url_path"] ELSE <<"/">>]

Proxy(m) == HttpFields(m) @@ [path_params |-> ExtractPathParamNames(HttpFields(m).url_path)]

InPath(proxy, inputs) == DOMAIN inputs \cap proxy.path_params

ActualPath(proxy, inputs) ==
    SubstitutePathParams(proxy.url_path,
        [name \in InPath(proxy, inputs) |-> PercentEncodePathSegment(inputs[name])])

\* What the client asks for when the text of a URL has this path: "." goes, and ".." takes the
\* segment before it along; at the end both leave an empty segment.
RequestedPath(path) ==
    LET segments == Tail(Split(path, "/"))
        end(i) == IF i = Len(segments) THEN << <<>> >> ELSE <<>>
        step(kept, i) ==
            CASE segments[i] = <<".">>      -> kept \o end(i)
              [] segments[i] = <<".", ".">> -> (IF kept = <<>> THEN kept ELSE Front(kept)) \o end(i)
              [] OTHER                      -> Append(kept, segments[i])
    IN  Joined(<< <<>> >> \o FoldLeft(step, <<>>, [i \in DOMAIN segments |-> i]), "/")

Forwarded(proxy, inputs) ==
    LET rest == [name \in DOMAIN inputs \ InPath(proxy, inputs) |-> inputs[name]]
        inBody == proxy.http_method \in BodyMethods
    IN  [path  |-> RequestedPath(ActualPath(proxy, inputs)),
         query |-> IF inBody THEN <<>> ELSE rest,
         json  |-> IF inBody THEN rest ELSE <<>>]

\* A call is sent when no placeholder is left in its path, and with a method that is known.
PathParamsFilled(path) == ExtractPathParamNames(path) = {}
Sendable(proxy, inputs) ==
    PathParamsFilled(ActualPath(proxy, inputs)) /\ proxy.http_method \in SupportedMethods

------------------------------------------------------------------------------
(* Registration *)

ValidWriter(writer) ==
    writer.scheme \in {"http", "https"} /\ writer.timeout # None /\ writer.timeout > 0

\* What becomes of a module in the registry; its warnings and suggested alias stay behind.
Descriptor(m) ==
    [field \in DOMAIN m \ {"warnings", "suggested_alias", "target"} |-> m[field]]

Streams(m) == m.annotations # None /\ "streaming" \in m.annotations.flags

\* apcore's registry holds an id once, and no module that says it streams and does not.
Registrable(held, m) == m.module_id \notin DOMAIN held /\ ~Streams(m)

Registered(held, m) ==
    IF Registrable(held, m)
    THEN (m.module_id :> [descriptor |-> Descriptor(m), proxy |-> Proxy(m)]) @@ held
    ELSE held

\* The whole of write: a module that is refused does not keep the next from its turn.
WriteProxies ==
    /\ stage = "ready"
    /\ \E writer \in ProxyWriters : ValidWriter(writer)
    /\ \E ids \in Registries :
        LET before == [id \in ids |-> None]
            after(n) == FoldLeft(Registered, before, SubSeq(modules, 1, n))
        IN  /\ registry' = after(Len(modules))
            /\ proxied' = [i \in 1 .. Len(modules) |-> Registrable(after(i - 1), modules[i])]
    /\ Goto("proxied") /\ UNCHANGED modules

------------------------------------------------------------------------------
(* Properties *)

\* What a server makes of an encoded segment.
PercentDecode(text) ==
    LET step(scan, c) ==
            CASE c = "%" -> [scan EXCEPT !.code = <<"%">>]
              [] c # "%" /\ Len(scan.code) = 1 -> [scan EXCEPT !.code = Append(@, c)]
              [] c # "%" /\ Len(scan.code) = 2 ->
                   [code |-> <<>>, out |-> Append(scan.out,
                        CHOOSE d \in DOMAIN Hex : Hex[d] = <<scan.code[2], c>>)]
              [] OTHER -> [scan EXCEPT !.out = Append(@, c)]
    IN  FoldLeft(step, [code |-> <<>>, out |-> <<>>], text).out

Letters(name) == [i \in 1 .. Len(name) |-> SubSeq(name, i, i)]

\* The parameters an operation has in its path.
Declared(operation) ==
    {Letters(p.name) : p \in {q \in Members(InputParameters(operation)) : q.in = "path"}}

\* What a URL has no segment for.
DotSegments == {<<".">>, <<".", ".">>}

\* Segments that are a parameter, or have nothing of one in them and stay in a URL.
PlainSegments(path) ==
    \A segment \in Members(Split(path, "/")) :
        \/ IsParameter(segment)
        \/ Members(segment) \cap {"{", ":"} = {} /\ segment \notin DotSegments

Bare(segment) == SelectSeq(segment, LAMBDA c : c \notin {"{", "}", ":"})

\* A server finds each segment as the document has it, with the values in the place of names.
Reaches(url_path, request, inputs) ==
    LET there == Split(url_path, "/")
        sent  == Split(request.path, "/")
    IN  /\ Len(sent) = Len(there)
        /\ \A i \in 1 .. Len(there) :
             PercentDecode(sent[i]) =
                 IF IsParameter(there[i]) THEN inputs[Bare(there[i])] ELSE there[i]

(* A module that was scanned from a document and registered as a proxy is called by what its *)
(* operation declares: when each parameter of the path has a value, the request is sent with *)
(* that operation's method, and it goes to the operation's path with the values in their     *)
(* segments, whatever characters are in them, if and only if no value is "." or "..": those  *)
(* are not encoded, the URL is rid of them, and the request goes to another path.  Every     *)
(* other input is in the query or in the body, whichever the method has.  Each id holds the  *)
(* first module of the list that was accepted under it, and what others had registered stays *)
(* (write, forward, substitute_path_params, percent_encode_path_segment).  Paths that have a *)
(* colon or a brace inside a segment are left out: a colon there counts as a parameter that  *)
(* no document declares.                                                                     *)
CallsReachOperations ==
    stage = "proxied" =>
        /\ \A i \in 1 .. Len(modules) :
             LET m == modules[i] IN
             /\ proxied[i] => registry[m.module_id].descriptor = Descriptor(m)
             /\ ~proxied[i] /\ ~Streams(m) /\ registry[m.module_id] # None =>
                  \E j \in 1 .. (i - 1) : proxied[j] /\ modules[j].module_id = m.module_id
        /\ \A i \in 1 .. Len(modules) : proxied[i] /\ document # None =>
             \E operation \in Origins(modules[i]) :
                LET url_path == modules[i].metadata["url_path"]
                    proxy == registry[modules[i].module_id].proxy
                IN  \A inputs \in Inputs :
                      /\ PlainSegments(url_path)
                      /\ {Bare(s) : s \in {t \in Members(Split(url_path, "/")) : IsParameter(t)}}
                             \subseteq Declared(operation)
                      /\ Declared(operation) \subseteq DOMAIN inputs
                      => LET request == Forwarded(proxy, inputs)
                         IN  /\ Sendable(proxy, inputs)
                             /\ Reaches(url_path, request, inputs)
                                  <=> {inputs[n] : n \in Declared(operation)} \cap DotSegments = {}
                             /\ request.query @@ request.json
                                    = [n \in DOMAIN inputs \ Declared(operation) |-> inputs[n]]
===============================================================================
