------------------------------- MODULE Requests -------------------------------
(***************************************************************************)
(* What one request to the authorization server carries (auth/request.rs): *)
(* the parameters of its kind, the client's id, its authentication, the    *)
(* configured extras, and last the transform_request hook.                 *)
(*                                                                         *)
(* Parameters and headers are functions from names to values.  A later     *)
(* insert replaces an earlier one.                                         *)
(***************************************************************************)
EXTENDS Encoding

CONSTANT
    Transform(_, _, _)  \* hooks.transform_request: kind, parameters, headers -> the pair that is sent

Kinds == {"device", "token", "refresh", "revoke"}

\* What is inserted into g, one by one, is on top of it.
Over(f, g) == [n \in DOMAIN f \cup DOMAIN g |-> IF n \in DOMAIN f THEN f[n] ELSE g[n]]

\* What every kind of request starts from.
DeviceParams(config) == IF config.scope = None THEN <<>> ELSE [scope |-> config.scope]

TokenParams(code) == [grant_type |-> "device_code", device_code |-> code]

RefreshParams(token) == [grant_type |-> "refresh_token", refresh_token |-> token]

RevokeParams(token) == [token |-> token, token_type_hint |-> "access_token"]

\* The parameters and headers that authenticate the client, by client_auth_method.
SecretParams(config) ==
    IF config.method = "client_secret_post" /\ config.client_secret # None
    THEN [client_secret |-> config.client_secret] ELSE <<>>

SecretHeaders(config) ==
    IF config.method = "client_secret_basic" /\ config.client_secret # None
    THEN [Authorization |-> <<"Basic", BasicCredentials(config.client_id, config.client_secret)>>]
    ELSE <<>>

ExtraParams(config, kind) ==
    IF kind = "device" THEN config.extra_device_params ELSE config.extra_token_params

PrepareRequest(config, kind, base) ==
    LET own == Over(SecretParams(config), Over([client_id |-> config.client_id], base))
        params == Over(ExtraParams(config, kind), own)
        headers == Over(config.extra_headers,
                        Over(SecretHeaders(config), [Accept |-> "application/json"]))
        sent == Transform(kind, params, headers)
    IN  [kind |-> kind, headers |-> sent.headers,
         body |-> EncodeBody(sent.params, config.encoding[kind])]
===============================================================================
