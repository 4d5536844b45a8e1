------------------------------ MODULE MCDiscovery ------------------------------
(* Programs of one client id: with an issuer, with explicit endpoints, and with both. *)
EXTENDS Discovery

Url(scheme, host, name) == [scheme |-> scheme, host |-> host, path |-> <<name>>]

\* A tenant's issuer, spelled with a final slash, and the same issuer without one.
Issuer == [scheme |-> "https", host |-> "as", path |-> <<"tenant", "">>]
Slashless == [Issuer EXCEPT !.path = <<"tenant">>]

Device == Url("https", "as", "device")
TokenA == Url("https", "as", "token")
TokenB == Url("https", "elsewhere", "token")
Local == Url("http", "localhost", "token")
Plain == Url("http", "as", "device")
Revoke == Url("https", "as", "revoke")

MCUrls == {Issuer, Slashless, Device, TokenA, TokenB, Local, Plain, Revoke}

At(device, token, revocation) ==
    [e \in Endpoints |-> CASE e = "device_authorization_endpoint" -> device
                           [] e = "token_endpoint" -> token
                           [] OTHER -> revocation]

Config(issuer, endpoints, secret, method) ==
    [DefaultConfig EXCEPT
        !.issuer = issuer, !.endpoint = endpoints, !.client_id = "tool", !.client_secret = secret,
        !.method = method, !.scope = "all", !.error_aliases = {"expired_token"},
        !.extra_device_params = "audience" :> "api", !.extra_headers = "X-Tool" :> "1",
        !.encoding["refresh"] = "json"]

MCConfigs ==
    {Config(Issuer, At(None, None, None), "s", "client_secret_post"),
     Config(Issuer, At(None, TokenB, None), "s", "client_secret_basic"),
     Config(Issuer, At(Device, None, None), None, "none"),
     Config(Slashless, At(None, None, None), "s", "none"),
     Config(None, At(Device, Local, Revoke), None, "none"),
     \* Refused when the client is built, each for its own reason.
     Config(None, At(Plain, TokenA, None), None, "none"),
     Config(Issuer, At(Device, TokenA, None), None, "client_secret_post"),
     [Config(Issuer, At(Device, TokenA, None), None, "none") EXCEPT !.client_id = ""],
     [Config(Issuer, At(Device, TokenA, None), None, "none") EXCEPT !.error_aliases = {"retry"}]}

Document(issuer, endpoints, grants) ==
    [outcome |-> "metadata", issuer |-> issuer, endpoint |-> endpoints, grants |-> grants]

Nothing(outcome) == [Document(None, At(None, None, None), "absent") EXCEPT !.outcome = outcome]

MCAnswers ==
    {Nothing("failed"), Nothing("unusable"),
     Document(None, At(Device, TokenB, None), "absent"),
     Document(Issuer, At(Device, TokenA, Revoke), "device_code"),
     Document(Issuer, At(Device, TokenB, None), "others"),
     Document(Issuer, At(None, TokenA, None), "absent"),
     Document(Issuer, At(Plain, TokenA, None), "absent"),
     Document(Slashless, At(Device, TokenB, Revoke), "absent"),
     Document(Slashless, At(Device, None, None), "absent")}

\* A hook that marks every refresh.
MCTransform(kind, params, headers) ==
    [params |-> params, headers |-> IF kind = "refresh" THEN "X-Hook" :> "1" @@ headers ELSE headers]
------------------------------------------------------------------------------
(* Bytes *)

Ascii == <<" ", "!", "", "#", "$", "%", "&", "'", "(", ")", "*", "+", ",", "-", ".", "/">>
         \o <<"0", "1", "2", "3", "4", "5", "6", "7", "8", "9", ":", ";", "<", "=", ">", "", "@">>
         \o <<"A", "B", "C", "D", "E", "F", "G", "H", "I", "J", "K", "L", "M">>
         \o <<"N", "O", "P", "Q", "R", "S", "T", "U", "V", "W", "X", "Y", "Z">>
         \o <<"[", "", "]", "^", "_", "">>
         \o <<"a", "b", "c", "d", "e", "f", "g", "h", "i", "j", "k", "l", "m">>
         \o <<"n", "o", "p", "q", "r", "s", "t", "u", "v", "w", "x", "y", "z", "{", "|", "}", "~">>

Code == [c \in Range(Ascii) |-> 31 + CHOOSE i \in DOMAIN Ascii : Ascii[i] = c]

Typed(s) == [i \in 1 .. Len(s) |-> Code[SubSeq(s, i, i)]]

\* The ids and secrets have all that needs care: separators, signs, and bytes beyond ASCII.
MCBytes(s) == CASE s = "tool" -> Typed("t:%2B") \o <<195, 169>>
                [] s = "s"    -> Typed("+& =~:")
                [] s = "api"  -> <<0, 255>> \o Typed("a;b")
                [] OTHER      -> Typed(s)

Response(content_type, text, object) ==
    [content_type |-> content_type, text |-> text, object |-> object]

\* Forms are read back as they were written, whatever is in them; a content type that lies, an
\* escape that is none and a value given twice are tolerated, and what is no body is told apart.
ASSUME FormsAreRead ==
    \A values \in [{"tool", "s"} -> {"tool", "s", "api", ""}], type \in {"json", "form", "none"} :
        DecodeBody(Response(type, EncodeBody(values, "form").form, None))
            = [b \in {Bytes("tool"), Bytes("s")} |->
                 Bytes(values[CHOOSE n \in DOMAIN values : Bytes(n) = b])]

ASSUME BodiesAreTold ==
    LET object == Typed("k") :> Typed("v")
        read(type, s, o) == DecodeBody(Response(type, Typed(s), o))
    IN  /\ read("json", "[k, v]", None) = None
        /\ read("form", "  {k: v}", object) = object
        /\ read("json", "{k: v}", object) = object
        /\ read("none", "<html>", None) = None
        /\ read("none", "", None) = None
        /\ read("none", "&&", None) = None
        /\ read("form", "k=", None) = (Typed("k") :> <<>>)
        /\ read("form", "k=a&l&k=%4a%2&%", None) =
               (Typed("k") :> Typed("J%2") @@ Typed("l") :> <<>> @@ Typed("%") :> <<>>)
        /\ read("form", "k=%+5%%41", None) = (Typed("k") :> <<5>> \o Typed("%A"))
===============================================================================
