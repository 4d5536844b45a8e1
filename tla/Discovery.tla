------------------------------ MODULE Discovery ------------------------------
(***************************************************************************)
(* From a configuration to the endpoints a client talks to: endpoint       *)
(* discovery and the checks on a configuration (auth/config.rs), building  *)
(* a client (auth/client.rs), and the target, contents and store key of    *)
(* every request it makes.  The same program runs again and again over one *)
(* credentials store, with configurations that differ and metadata         *)
(* documents the server changes in between.                                *)
(*                                                                         *)
(* A URL is [scheme, host, path]: host is what is_secure_endpoint cuts     *)
(* out, path a sequence of segments, an empty last one for a final slash.  *)
(* When to poll and what races there are is in modules DevicePoll and      *)
(* TokenClient; here an answer only stores, keeps or clears a record.      *)
(***************************************************************************)
EXTENDS Requests

CONSTANTS
    Configs,  \* configurations the program may be started with
    Answers,  \* what may come back for a metadata request
    Urls      \* every URL that occurs

Endpoints == {"device_authorization_endpoint", "token_endpoint", "revocation_endpoint"}

EndpointOf == [device |-> "device_authorization_endpoint", token |-> "token_endpoint",
               refresh |-> "token_endpoint", revoke |-> "revocation_endpoint"]

\* The identifiers an error alias may map onto.
Identifiers == {"authorization_pending", "slow_down", "access_denied", "expired_token"}

OptionalUrls == Urls \cup {None}

\* An answer is "failed" (no response), "unusable" (not 2xx, not decodable, or without any
\* of the three fields under their own names) or "metadata", read with the field aliases.
ASSUME DiscoveryAssumption ==
    /\ Urls \subseteq [scheme : STRING, host : STRING, path : Seq(STRING)]
    /\ None \notin Urls /\ None \notin Configs
    /\ \A c \in Configs : c.issuer \in OptionalUrls /\ c.endpoint \in [Endpoints -> OptionalUrls]
    /\ \A a \in Answers :
         /\ a.outcome \in {"failed", "unusable", "metadata"}
         /\ a.issuer \in OptionalUrls /\ a.endpoint \in [Endpoints -> OptionalUrls]

\* What the parameters of a request are called, and every text that names or fills one.
ParamNames ==
    {"scope", "grant_type", "device_code", "refresh_token", "token", "token_type_hint",
     "client_id", "client_secret"}
        \cup UNION {DOMAIN c.extra_device_params \cup DOMAIN c.extra_token_params : c \in Configs}

TextsOf(config) ==
    {config.client_id} \cup ({config.client_secret, config.scope} \ {None})
        \cup Range(config.extra_device_params) \cup Range(config.extra_token_params)

ParamTexts ==
    ParamNames
        \cup {"device code", "refresh token", "access token", "access_token"}
        \cup UNION {TextsOf(c) : c \in Configs}

\* Parameters are finitely many; a text is its bytes, and two names never have the same.
ASSUME ParamsAssumption ==
    /\ \A c \in Configs : /\ IsFiniteSet(DOMAIN c.extra_device_params)
                          /\ IsFiniteSet(DOMAIN c.extra_token_params)
    /\ \A t \in ParamTexts : Bytes(t) \in Seq(0 .. 255)
    /\ \A m, n \in ParamNames : Bytes(m) = Bytes(n) => m = n

VARIABLES
    stage,    \* "down", "configured", "asking" for metadata, "built" client, "coded": user code shown
    given,    \* the configuration as the program wrote it
    endpoint, \* the endpoints of the configuration in hand
    answers,  \* the answers of this discovery, in the order of its candidates
    warnings, \* what the DiscoveryReport warns of
    key,      \* the client's store key
    store,    \* the stored records: under which key, and for whom
    sent      \* the last request: its url and what it carries

vars == <<stage, given, endpoint, answers, warnings, key, store, sent>>

-----------------------------------------------------------------------------
(* URLs *)

IsSecure(url) ==
    \/ url.scheme = "https"
    \/ url.scheme = "http" /\ url.host \in {"localhost", "127.0.0.1"}

OriginOf(url) == <<url.scheme, url.host>>

\* The path without its final slashes.
Trimmed(path) ==
    LET kept == {n \in 0 .. Len(path) : n = 0 \/ path[n] # ""}
    IN  SubSeq(path, 1, CHOOSE n \in kept : \A m \in kept : m <= n)

\* The well-known URLs to try, in order: for an issuer without a path the last two coincide.
DiscoveryCandidates(issuer) ==
    LET path == Trimmed(issuer.path)
    IN  << [issuer EXCEPT !.path = <<".well-known", "oauth-authorization-server">> \o path],
           [issuer EXCEPT !.path = <<".well-known", "openid-configuration">> \o path],
           [issuer EXCEPT !.path = path \o <<".well-known", "openid-configuration">>] >>

-----------------------------------------------------------------------------
(* Configurations *)

Identity(issuer, token) == IF issuer # None THEN issuer ELSE token

\* Mutant of StoreKey: the endpoint in use names the credential.
StoreKeyOfEndpoint(config, endpoints) ==
    <<Identity(endpoints["token_endpoint"], config.issuer), config.client_id>>

StoreKey(config, endpoints) ==
    <<Identity(config.issuer, endpoints["token_endpoint"]), config.client_id>>

Valid(config, endpoints) ==
    /\ config.client_id # ""
    /\ \A e \in Endpoints : endpoints[e] # None => IsSecure(endpoints[e])
    /\ config.error_aliases \subseteq Identifiers
    /\ config.method \in {"client_secret_post", "client_secret_basic"} => config.client_secret # None

\* Mutant of Authoritative: any document that declares an issuer will do.
AuthoritativeAnyIssuer(answer) == answer.outcome = "metadata" /\ answer.issuer # None

\* Issuers are compared as exact strings.
Authoritative(answer) == answer.outcome = "metadata" /\ answer.issuer = given.issuer

\* An endpoint the program configured is never replaced.
Merged(answer) ==
    [e \in Endpoints |-> IF endpoint[e] = None THEN answer.endpoint[e] ELSE endpoint[e]]

\* A named endpoint that is not secure is refused even where it would not be used.
Refused(answer) ==
    \/ \E e \in Endpoints : answer.endpoint[e] # None /\ ~IsSecure(answer.endpoint[e])
    \/ Merged(answer)["device_authorization_endpoint"] = None

\* The advice an authoritative document gives rise to.
Advice(answer) ==
    {e \in Endpoints : /\ answer.endpoint[e] # None
                       /\ OriginOf(answer.endpoint[e]) # OriginOf(given.issuer)}
        \cup (IF answer.grants = "others" THEN {"grant_types_supported"} ELSE {})

\* Why a candidate that is not authoritative was passed over; unusable ones leave no word.
Reason(answer) ==
    CASE answer.outcome = "failed" -> {"failed"}
      [] answer.outcome = "unusable" -> {}
      [] OTHER -> {IF answer.issuer = None THEN "no issuer" ELSE "other issuer"}

-----------------------------------------------------------------------------
Unset == [e \in Endpoints |-> None]

\* A configuration nobody has filled in.
DefaultConfig ==
    [issuer |-> None, endpoint |-> Unset, client_id |-> "", client_secret |-> None,
     method |-> "none", scope |-> None, error_aliases |-> {}, extra_device_params |-> <<>>,
     extra_token_params |-> <<>>, extra_headers |-> <<>>, encoding |-> [k \in Kinds |-> "form"]]

Init ==
    /\ stage = "down" /\ given = None /\ endpoint = Unset
    /\ answers = <<>> /\ warnings = {} /\ key = None
    /\ store = {} /\ sent = None

Launch ==
    /\ stage = "down"
    /\ \E c \in Configs : given' = c /\ endpoint' = c.endpoint
    /\ stage' = "configured"
    /\ UNCHANGED <<answers, warnings, key, store, sent>>

\* A discovery that has found nothing may be tried again.
Discover ==
    /\ stage = "configured" /\ given.issuer # None
    /\ endpoint = given.endpoint
    /\ stage' = "asking" /\ answers' = <<>> /\ warnings' = {}
    /\ UNCHANGED <<given, endpoint, key, store, sent>>

Metadata == [kind |-> "metadata", body |-> None,
             headers |-> Over(given.extra_headers, [Accept |-> "application/json"])]

\* One candidate: the first authoritative document settles the discovery, for better or worse.
Ask ==
    /\ stage = "asking"
    /\ sent' = [url |-> DiscoveryCandidates(given.issuer)[Len(answers) + 1], request |-> Metadata]
    /\ \E a \in Answers :
         /\ answers' = Append(answers, a)
         /\ \/ /\ Authoritative(a)
               /\ warnings' = warnings \cup Advice(a)
               /\ endpoint' = IF Refused(a) THEN endpoint ELSE Merged(a)
               /\ stage' = "configured"
            \/ /\ ~Authoritative(a)
               /\ warnings' = warnings \cup Reason(a)
               /\ stage' = IF Len(answers) + 1 = 3 THEN "configured" ELSE "asking"
               /\ UNCHANGED endpoint
    /\ UNCHANGED <<given, key, store>>

\* A client is built from what was discovered or, just as well, from what was given.
Build ==
    /\ stage = "configured"
    /\ Valid(given, endpoint)
    /\ key' = StoreKey(given, endpoint)
    /\ stage' = "built"
    /\ UNCHANGED <<given, endpoint, answers, warnings, store, sent>>

Owner == <<Identity(given.issuer, given.endpoint["token_endpoint"]), given.client_id>>

Save == store' = {r \in store : r.key # key} \cup {[key |-> key, owner |-> Owner]}
Clear == store' = {r \in store : r.key # key}
Stored == \E r \in store : r.key = key

Send(kind, base) ==
    /\ endpoint[EndpointOf[kind]] # None
    /\ sent' = [url |-> endpoint[EndpointOf[kind]], request |-> PrepareRequest(given, kind, base)]
    /\ UNCHANGED <<given, endpoint, answers, warnings, key>>

RequestCode ==
    /\ stage = "built"
    /\ Send("device", DeviceParams(given))
    /\ stage' \in {"coded", "built"}
    /\ UNCHANGED store

Poll ==
    /\ stage = "coded"
    /\ Send("token", TokenParams("device code"))
    /\ \/ stage' \in {"coded", "built"} /\ UNCHANGED store
       \/ stage' = "built" /\ Save

\* The token endpoint is only looked for once the user has been shown a code.
PollNowhere ==
    /\ stage = "coded" /\ endpoint["token_endpoint"] = None
    /\ stage' = "built"
    /\ UNCHANGED <<given, endpoint, answers, warnings, key, store, sent>>

RefreshStored ==
    /\ stage = "built" /\ Stored
    /\ Send("refresh", RefreshParams("refresh token"))
    /\ Save \/ Clear \/ UNCHANGED store
    /\ UNCHANGED stage

\* The revocation request is best effort; what it answers changes nothing.
Logout ==
    /\ stage = "built"
    /\ IF Stored /\ endpoint["revocation_endpoint"] # None
       THEN Send("revoke", RevokeParams("access token"))
       ELSE UNCHANGED <<given, endpoint, answers, warnings, key, sent>>
    /\ Clear
    /\ UNCHANGED stage

\* The program ends, at any point; the store stays.
Quit ==
    /\ stage # "down"
    /\ stage' = "down" /\ given' = None /\ endpoint' = Unset
    /\ answers' = <<>> /\ warnings' = {} /\ key' = None /\ sent' = None
    /\ UNCHANGED store

Next ==
    \/ Launch \/ Discover \/ Ask \/ Build
    \/ RequestCode \/ Poll \/ PollNowhere \/ RefreshStored \/ Logout \/ Quit

Spec == Init /\ [][Next]_vars

-----------------------------------------------------------------------------
(* The types of the state. *)
TypeOK ==
    /\ stage \in {"down", "configured", "asking", "built", "coded"}
    /\ given \in Configs \cup {None}
    /\ stage # "down" => given \in Configs
    /\ endpoint \in [Endpoints -> OptionalUrls]
    /\ answers \in Seq(Answers) /\ Len(answers) <= 3
    /\ stage = "asking" => given.issuer # None /\ Len(answers) < 3

\* The first of the answers that names this very issuer, and what it says of an endpoint.
Speaks(i) == answers[i].outcome = "metadata" /\ answers[i].issuer = given.issuer

Declared(e, url) ==
    \E i \in 1 .. Len(answers) :
        /\ Speaks(i) /\ \A j \in 1 .. (i - 1) : ~Speaks(j)
        /\ answers[i].endpoint[e] = url

(* Every request goes where it may: a metadata request to the issuer's own origin; any     *)
(* other, over a secure connection, to the endpoint the program configured for it or,      *)
(* where it configured none, to the one named by the first document that declares exactly  *)
(* this issuer, with a warning when that lies on another origin.  Endpoints of two         *)
(* documents are never mixed in (discover_with, merge_metadata, validate).                 *)
TargetsTrusted ==
    sent # None =>
        IF sent.request.kind = "metadata" THEN OriginOf(sent.url) = OriginOf(given.issuer)
        ELSE LET e == EndpointOf[sent.request.kind] IN
             /\ IsSecure(sent.url)
             /\ IF given.endpoint[e] # None THEN sent.url = given.endpoint[e]
                ELSE /\ Declared(e, sent.url)
                     /\ OriginOf(sent.url) # OriginOf(given.issuer) => e \in warnings

(* A client finds exactly the records its own issuer (or, without one, its own token       *)
(* endpoint) and client id left behind, whatever was discovered then and now: discovery    *)
(* never changes the name a credential is kept under (store_key, DeviceAuthClient::new).   *)
RecordsFound ==
    stage \in {"built", "coded"} => \A r \in store : (r.key = key) <=> (r.owner = Owner)

(* In a request of any kind, revocation included, the server finds, by its own reading of   *)
(* the bytes, the client's id and what the caller had added, and the client's secret in     *)
(* the one place its method names and nowhere else, whatever characters they are made of,   *)
(* unless a configured extra of the same name replaced it (prepare_request,                 *)
(* apply_client_auth, form_encode, basic_credentials).                                      *)
Authenticated ==
    sent # None /\ sent.request.kind \in Kinds =>
        LET extra == ExtraParams(given, sent.request.kind)
            headers == sent.request.headers
            read == Received(sent.request.body)
            valuesOf(name) == {p[2] : p \in {q \in read : q[1] = Bytes(name)}}
        IN  /\ "client_id" \notin DOMAIN extra => valuesOf("client_id") = {Bytes(given.client_id)}
            /\ "client_secret" \notin DOMAIN extra =>
                 valuesOf("client_secret") = IF given.method = "client_secret_post"
                                             THEN {Bytes(given.client_secret)} ELSE {}
            /\ \A name \in DOMAIN extra : valuesOf(name) = {Bytes(extra[name])}
            /\ "Authorization" \notin DOMAIN given.extra_headers =>
                 /\ ("Authorization" \in DOMAIN headers) <=> (given.method = "client_secret_basic")
                 /\ given.method = "client_secret_basic" =>
                      ReceivedCredentials(headers["Authorization"][2])
                          = <<Bytes(given.client_id), Bytes(given.client_secret)>>
===============================================================================
