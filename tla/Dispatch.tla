------------------------------- MODULE Dispatch -------------------------------
(***************************************************************************)
(* How the client reads an authorization server's answer (auth/parse.rs    *)
(* and the dispatch table of auth/grant.rs): field aliasing, then the      *)
(* provider's error aliases, then the classify_error hook, then one of     *)
(* four steps.  Pure operators: no state.                                  *)
(*                                                                         *)
(* A decoded body is a function from wire field names to values; a body    *)
(* that neither decoder accepts is None.  A JSON null, or a value of a     *)
(* type the reader does not take, is the value None under a present name.  *)
(* The parse_response hook only replaces one decoded body by another, so   *)
(* the responses below are the ones it leaves.                             *)
(***************************************************************************)
EXTENDS Integers, Sequences

CONSTANTS
    None,              \* an absent value (Option::None)
    FieldAliases,      \* config.field_aliases: logical name -> extra wire names
    ErrorAliases,      \* config.error_aliases: wire identifier -> identifier
    ClassifyHook(_),   \* hooks.classify_error: body -> wire value or None
    Second,            \* clock ticks in a second
    SlowDownIncrement, \* SLOW_DOWN_INCREMENT_SECONDS (5 in the code)
    DefaultExpiry      \* DEFAULT_DEVICE_EXPIRY_SECONDS (900 in the code)

ASSUME ScaleAssumption ==
    /\ Second \in Nat \ {0}
    /\ SlowDownIncrement \in Nat
    /\ DefaultExpiry \in Nat
    /\ None \notin Int

Identifiers == {"authorization_pending", "slow_down", "access_denied", "expired_token"}

\* The identifier an error hook may not invent: dispatch refuses it.
InvalidHookReturn == "invalid_hook_return"

\* Mutant of BuiltinNames: the private spelling error_code is forgotten.
StandardNamesOnly(logical) ==
    IF logical = "verification_uri" THEN <<"verification_uri", "verification_url">> ELSE <<logical>>

BuiltinNames(logical) ==
    CASE logical = "error" -> <<"error", "error_code">>
      [] logical = "verification_uri" -> <<"verification_uri", "verification_url">>
      [] OTHER -> <<logical>>

ConfiguredNames(logical) ==
    IF logical \in DOMAIN FieldAliases THEN FieldAliases[logical] ELSE <<>>

\* Standard spellings first; configured names extend the list, never replace it.
AcceptedNames(logical) == BuiltinNames(logical) \o ConfiguredNames(logical)

\* The first accepted name the body holds decides, even when its value is null.
ReadField(body, logical) ==
    LET names == AcceptedNames(logical)
        present == {i \in 1..Len(names) : names[i] \in DOMAIN body}
    IN  IF present = {} THEN None
        ELSE body[names[CHOOSE i \in present : \A j \in present : i <= j]]

AliasedError(body) ==
    LET raw == ReadField(body, "error")
    IN  IF raw \in DOMAIN ErrorAliases THEN ErrorAliases[raw] ELSE raw

\* Mutant of Classify: the hook is asked first.
ClassifyHookFirst(body) ==
    IF ClassifyHook(body) \in Identifiers THEN ClassifyHook(body) ELSE AliasedError(body)

\* A standard identifier settles the question; the hook only sees the rest.
Classify(body) ==
    LET hooked == ClassifyHook(body)
    IN  CASE AliasedError(body) \in Identifiers -> AliasedError(body)
          [] AliasedError(body) \notin Identifiers /\ hooked \in Identifiers \cup {None} -> hooked
          [] OTHER -> InvalidHookReturn

\* The server's own interval verbatim when it is a non-negative integer, else +5.
NextInterval(current, bodyInterval) ==
    IF bodyInterval # None /\ bodyInterval >= 0
    THEN bodyInterval * Second
    ELSE current + SlowDownIncrement * Second

\* What one response makes the loop do.  A response is [ok, body]: ok for a 2xx status.
Success == [step |-> "success", interval |-> None]
Continue == [step |-> "continue", interval |-> None]
\* Mutant of Backoff: the interval the server names is not read.
BackoffAlwaysFive(i) == [step |-> "backoff", interval |-> None]
Backoff(i) == [step |-> "backoff", interval |-> i]
Terminate(verdict) == [step |-> verdict, interval |-> None]

DispatchError(body) ==
    LET identifier == Classify(body)
    IN  CASE identifier = "authorization_pending" -> Continue
          [] identifier = "slow_down" -> Backoff(ReadField(body, "interval"))
          [] identifier = "access_denied" -> Terminate("denied")
          [] identifier = "expired_token" -> Terminate("code_expired")
          [] identifier = InvalidHookReturn -> Terminate("invalid_hook")
          [] OTHER -> Terminate("protocol")

\* Mutant of DispatchResponse: the token is looked for under its standard name alone.
DispatchStandardToken(response) ==
    IF response.body = None THEN Terminate("protocol")
    ELSE IF ~response.ok THEN DispatchError(response.body)
    ELSE IF "access_token" \in DOMAIN response.body THEN Success
    ELSE Terminate("protocol")

DispatchResponse(response) ==
    IF response.body = None THEN Terminate("protocol")
    ELSE IF ~response.ok THEN DispatchError(response.body)
    ELSE IF ReadField(response.body, "access_token") # None THEN Success
    ELSE Terminate("protocol")

\* u64::try_from: a negative number reads as absent.
Unsigned(value) == IF value # None /\ value >= 0 THEN value ELSE None

EffectiveExpiresIn(raw) == IF raw # None THEN raw ELSE DefaultExpiry

\* The device authorization a response carries, or None when it is not a usable one.
DeviceAuthorization(response) ==
    LET body == response.body
        Holds(logical) == ReadField(body, logical) # None
    IN  IF /\ body # None
           /\ response.ok
           /\ \A logical \in {"device_code", "user_code", "verification_uri"} : Holds(logical)
        THEN [expires_in |-> EffectiveExpiresIn(Unsigned(ReadField(body, "expires_in"))),
              interval |-> Unsigned(ReadField(body, "interval"))]
        ELSE None

===============================================================================
