----------------------------- MODULE MCDevicePoll -----------------------------
(* A provider with its own spellings: it reports errors in error_code, calls a     *)
(* pending authorization by a private name, and one refusal only a hook recognises. *)
EXTENDS DevicePoll

MCFieldAliases == [access_token |-> <<"token">>]
MCErrorAliases == [waiting_for_user |-> "authorization_pending",
                   user_said_no |-> "access_denied"]

\* The hook reads anything it is asked about but bad_tenant as a refusal (one envelope of this
\* provider has no error identifier at all); asked about an alias it would overrule it.
MCClassifyHook(body) ==
    LET e == ReadField(body, "error")
    IN  CASE e = "odd" -> "not_an_identifier"
          [] e = "invalid_grant" -> None
          [] OTHER -> "access_denied"

Err(body) == [ok |-> FALSE, body |-> body]
OK(body) == [ok |-> TRUE, body |-> body]

MCDialect == [
    pending |-> {Err([error_code |-> "waiting_for_user"])},
    slow_down |-> {Err([error |-> "slow_down"]), Err([error |-> "slow_down", interval |-> 3]),
                   Err([error |-> "slow_down", interval |-> 0])},
    denied |-> {Err([error_code |-> "user_said_no"]), Err([code |-> "E42"])},
    code_expired |-> {Err([error |-> "expired_token", error_code |-> "access_denied"])},
    token |-> {OK([access_token |-> "a"]), OK([token |-> "b"])},
    garbage |-> {Err(None), OK([error |-> "slow_down", access_token |-> None, token |-> "b"]), Err([error |-> "odd"]),
                 Err([error |-> "invalid_grant"])}]

MCDeviceResponses ==
        {OK([device_code |-> "d", user_code |-> "u", verification_url |-> "v",
             expires_in |-> 4, interval |-> 1]),
         OK([device_code |-> "d", user_code |-> "u", verification_uri |-> "v",
             expires_in |-> 5, interval |-> 0]),
         OK([device_code |-> "d", user_code |-> "u", verification_uri |-> "v"]),
         OK([device_code |-> "d", user_code |-> "u"]),
         Err([error |-> "invalid_client"])}

\* No ceiling, one with a fraction of a second in it, one the code ignores, and one that
\* is longer than MaxDuration.
MCTimeouts == {None, 5, -1, 30}

===============================================================================
