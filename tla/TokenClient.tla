------------------------------ MODULE TokenClient ------------------------------
(***************************************************************************)
(* The credential lifecycle (auth/client.rs): login, ensure_valid, refresh,*)
(* forget and logout on one store key, called from several tasks and       *)
(* several clients at once, beside a server that rotates refresh tokens.   *)
(*                                                                         *)
(* Every await, and every lock of the cache, is a step of its own.  One    *)
(* store operation is one step: module FileStore says when that is so.     *)
(* A refresh token is named by the number of the response it came in.      *)
(***************************************************************************)
EXTENDS Integers

CONSTANTS
    None,
    Calls,      \* tasks: each runs one operation at a time
    Clients,    \* DeviceAuthClient objects that share the store key
    Owner,      \* call -> the client it is made on
    Skew,       \* skew_seconds
    Lifetimes,  \* values of expires_in, None when the server states none
    MaxTime,    \* bound on the wall clock
    MaxIssued   \* bound on the responses that carry a token

ASSUME ClientAssumption ==
    /\ Owner \in [Calls -> Clients]
    /\ Skew \in Int
    /\ Lifetimes \ {None} \subseteq Int
    /\ MaxTime \in Nat /\ MaxIssued \in Nat
    /\ None \notin Int
    /\ None \notin [access : Int, refresh : Int \cup {None}, expires : Int \cup {None}]

Operations == {"login", "ensure_valid", "refresh", "forget", "logout"}

VARIABLES
    now,        \* the wall clock
    store,      \* the record under the key, or None
    cached,     \* client -> what its header factory hands out
    pc,         \* call -> where it is
    op,         \* call -> the operation it runs
    stored,     \* call -> the record it loaded, or None
    tokens,     \* call -> the TokenSet it received; a lifetime until it is received
    live,       \* server: the refresh tokens it accepts
    issued,     \* server: responses that carried a token
    abandoned,  \* history: refresh tokens that died and no successor reached the store
    persisted   \* history: access tokens that were in the store

locals == <<op, stored, tokens>>
server == <<live, issued>>
history == <<abandoned, persisted>>
vars == <<now, store, cached, pc, locals, server, history>>

Refresh(record) == IF record = None THEN None ELSE record.refresh

\* The refresh token the call presents.
Presented(c) == Refresh(stored[c])

ExpiresAt(lifetime) == IF lifetime = None THEN None ELSE now + lifetime

IsExpired(record) == record.expires # None /\ now + Skew >= record.expires

Usable(record) == record # None /\ ~IsExpired(record)

\* A credential goes into a request as a header; without one there is none (None).
AuthHeaders(record) == IF record = None THEN None ELSE record.access

\* The synchronous factory never refreshes: it hands out what the client has cached.
AuthHeaderFactory(cl) == AuthHeaders(cached[cl])

\* The calls whose answer replaces the refresh token they presented, and is not stored yet.
Carrying(c) == pc[c] \in {"granted", "save"} /\ Presented(c) # None

Goto(c, place) == pc' = [pc EXCEPT ![c] = place]

Return(c) ==
    /\ Goto(c, "idle")
    /\ stored' = [stored EXCEPT ![c] = None]
    /\ tokens' = [tokens EXCEPT ![c] = None]
    /\ op' = [op EXCEPT ![c] = None]

\* What a call carries is gone with it.
Abandon(calls) == abandoned' = abandoned \cup {Presented(c) : c \in {d \in calls : Carrying(d)}}

-----------------------------------------------------------------------------
Init ==
    /\ now = 0 /\ store = None
    /\ cached = [cl \in Clients |-> None]
    /\ pc = [c \in Calls |-> "idle"] /\ op = [c \in Calls |-> None]
    /\ stored = [c \in Calls |-> None] /\ tokens = [c \in Calls |-> None]
    /\ live = {} /\ issued = 0
    /\ abandoned = {} /\ persisted = {}

Tick == now < MaxTime /\ now' = now + 1 /\ UNCHANGED <<store, cached, pc, locals, server, history>>

Start(c) ==
    /\ pc[c] = "idle"
    /\ \E o \in Operations :
         /\ op' = [op EXCEPT ![c] = o]
         /\ Goto(c, CASE o = "login" -> "acquire" [] o = "forget" -> "clear" [] OTHER -> "load")
    /\ UNCHANGED <<now, store, cached, stored, tokens, server, history>>

\* The grant ran to its end (module DevicePoll); the server need not issue a refresh token.
Acquire(c) ==
    /\ pc[c] = "acquire"
    /\ \/ /\ issued < MaxIssued
          /\ \E l \in Lifetimes, r \in {issued + 1, None} :
               /\ tokens' = [tokens EXCEPT ![c] = [access |-> issued + 1, refresh |-> r,
                                                   expires |-> ExpiresAt(l)]]
               /\ live' = live \cup ({r} \ {None})
          /\ issued' = issued + 1
          /\ Goto(c, "save") /\ UNCHANGED <<op, stored>>
       \/ Return(c) /\ UNCHANGED server
    /\ UNCHANGED <<now, store, cached, history>>

Load(c) ==
    /\ pc[c] = "load"
    /\ \/ /\ stored' = [stored EXCEPT ![c] = store]
          /\ Goto(c, "loaded") /\ UNCHANGED <<op, tokens>>
       \/ Return(c)
    /\ UNCHANGED <<now, store, cached, server, history>>

\* A credential still valid for the skew is cached and returned unchanged.
ReturnStored(c) ==
    /\ pc[c] = "loaded" /\ op[c] = "ensure_valid"
    /\ Usable(stored[c])
    /\ tokens' = [tokens EXCEPT ![c] = stored[c]]
    /\ Goto(c, "cache")
    /\ UNCHANGED <<now, store, cached, op, stored, server, history>>

\* refresh exchanges whatever is stored; ensure_valid only what has expired.
Exchange(c) ==
    /\ pc[c] = "loaded"
    /\ \/ op[c] = "refresh"
       \/ op[c] = "ensure_valid" /\ ~Usable(stored[c])
    /\ \/ Presented(c) # None /\ Goto(c, "request") /\ UNCHANGED locals
       \/ Return(c)  \* no credential, no refresh token, or no endpoint configured
    /\ UNCHANGED <<now, store, cached, server, history>>

\* logout revokes only what is stored, and only where an endpoint is configured.
Logout(c) ==
    /\ pc[c] = "loaded" /\ op[c] = "logout"
    /\ \/ stored[c] # None /\ Goto(c, "revoke")
       \/ Goto(c, "clear")
    /\ UNCHANGED <<now, store, cached, locals, server, history>>

\* The revocation's answer, or failure, changes nothing: the local credential goes.
Revoke(c) ==
    /\ pc[c] = "revoke"
    /\ \/ /\ live' = live \ {Presented(c)}
          /\ abandoned' = abandoned \cup ({Presented(c)} \ {None})
       \/ UNCHANGED <<live, abandoned>>
    /\ Goto(c, "clear")
    /\ UNCHANGED <<now, store, cached, locals, issued, persisted>>

\* A 2xx answer becomes a TokenSet of its own, its lifetime counted from now.
Receive(c) ==
    /\ pc[c] = "granted"
    /\ tokens' = [tokens EXCEPT ![c].expires = ExpiresAt(tokens[c].expires)]
    /\ Goto(c, "save")
    /\ UNCHANGED <<now, store, cached, op, stored, server, history>>

\* Mutant of Save: the answer is merged into the stored record, whose refresh token is spent.
SaveMerged(c) ==
    /\ pc[c] = "save"
    /\ store' = IF stored[c] = None THEN tokens[c] ELSE [tokens[c] EXCEPT !.refresh = Presented(c)]
    /\ persisted' = persisted \cup {tokens[c].access}
    /\ Goto(c, "cache")
    /\ UNCHANGED <<now, cached, locals, server, abandoned>>

\* Mutant of Save: a store that fails does not fail the operation.
SaveBestEffort(c) ==
    /\ pc[c] = "save"
    /\ \/ store' = tokens[c] /\ persisted' = persisted \cup {tokens[c].access} /\ UNCHANGED abandoned
       \/ Abandon({c}) /\ UNCHANGED <<store, persisted>>
    /\ Goto(c, "cache")
    /\ UNCHANGED <<now, cached, locals, server>>

\* The whole record is replaced.
Save(c) ==
    /\ pc[c] = "save"
    /\ \/ /\ store' = tokens[c]
          /\ persisted' = persisted \cup {tokens[c].access}
          /\ Goto(c, "cache") /\ UNCHANGED <<locals, abandoned>>
       \/ Return(c) /\ Abandon({c}) /\ UNCHANGED <<store, persisted>>
    /\ UNCHANGED <<now, cached, server>>

SetCached(c, record) ==
    /\ cached' = [cached EXCEPT ![Owner[c]] = record]
    /\ Return(c)
    /\ UNCHANGED <<now, store, server, history>>

Cache(c) == pc[c] = "cache" /\ SetCached(c, tokens[c])

Clear(c) ==
    /\ pc[c] = "clear"
    /\ \/ store' = None /\ Goto(c, "uncache") /\ UNCHANGED locals
       \/ Return(c) /\ UNCHANGED store
    /\ UNCHANGED <<now, cached, server, history>>

\* Mutant of Uncache: the store is cleared and the cache forgotten.
UncacheNothing(c) ==
    pc[c] = "uncache" /\ Return(c) /\ UNCHANGED <<now, store, cached, server, history>>

Uncache(c) == pc[c] = "uncache" /\ SetCached(c, None)

\* The process ends: its cache and its calls go, the store stays.
Crash(cl) ==
    LET own == {c \in Calls : Owner[c] = cl} IN
    /\ cached' = [cached EXCEPT ![cl] = None]
    /\ pc' = [c \in Calls |-> IF c \in own THEN "idle" ELSE pc[c]]
    /\ op' = [c \in Calls |-> IF c \in own THEN None ELSE op[c]]
    /\ stored' = [c \in Calls |-> IF c \in own THEN None ELSE stored[c]]
    /\ tokens' = [c \in Calls |-> IF c \in own THEN None ELSE tokens[c]]
    /\ Abandon(own)
    /\ UNCHANGED <<now, store, server, persisted>>

-----------------------------------------------------------------------------
(* The authorization server and the network.                               *)

\* A live refresh token is rotated, or stays live and is left out of the answer.
Grant(c) ==
    /\ pc[c] = "request" /\ Presented(c) \in live /\ issued < MaxIssued
    /\ \E l \in Lifetimes, r \in {issued + 1, None} :
         /\ tokens' = [tokens EXCEPT ![c] = [access |-> issued + 1, refresh |-> r, expires |-> l]]
         /\ live' = IF r = None THEN live ELSE (live \ {Presented(c)}) \cup {r}
    /\ issued' = issued + 1
    /\ Goto(c, "granted")
    /\ UNCHANGED <<now, store, cached, op, stored, history>>

\* Mutant of Refuse: every refusal discards the stored credential.
RefuseAndDiscard(c) ==
    /\ pc[c] = "request" /\ Goto(c, "clear")
    /\ UNCHANGED <<now, store, cached, locals, server, history>>

\* invalid_grant says the token is spent or revoked, and has the stored credential discarded;
\* any other failure is an error.  No state changes between this answer and its receipt.
Refuse(c) ==
    /\ pc[c] = "request"
    /\ \/ Presented(c) \notin live /\ Goto(c, "clear") /\ UNCHANGED locals
       \/ Return(c)
    /\ UNCHANGED <<now, store, cached, server, history>>

\* Mutant of Lose: a transport failure is retried, as it is while polling.
LoseAndRetry(c) ==
    /\ pc[c] \in {"request", "granted"}
    /\ Goto(c, "load")
    /\ stored' = [stored EXCEPT ![c] = None]
    /\ tokens' = [tokens EXCEPT ![c] = None] /\ Abandon({c})
    /\ UNCHANGED <<now, store, cached, op, server, persisted>>

\* The request or its answer is lost, or the HTTP timeout fires: not retried.
Lose(c) ==
    /\ pc[c] \in {"request", "granted"}
    /\ Return(c) /\ Abandon({c})
    /\ UNCHANGED <<now, store, cached, server, persisted>>

\* The server, or its user, withdraws a refresh token.
Withdraw ==
    /\ \E r \in live : live' = live \ {r} /\ abandoned' = abandoned \cup {r}
    /\ UNCHANGED <<now, store, cached, pc, locals, issued, persisted>>

-----------------------------------------------------------------------------
CallStep(c) ==
    \/ Acquire(c) \/ Load(c) \/ ReturnStored(c) \/ Exchange(c) \/ Logout(c) \/ Revoke(c)
    \/ Receive(c) \/ Save(c) \/ Cache(c) \/ Clear(c) \/ Uncache(c)
    \/ Grant(c) \/ Refuse(c) \/ Lose(c)

Next ==
    \/ Tick \/ Withdraw
    \/ \E c \in Calls : Start(c) \/ CallStep(c)
    \/ \E cl \in Clients : Crash(cl)

\* A call under way proceeds: the store returns, the HTTP client has a timeout.
Spec == Init /\ [][Next]_vars /\ \A c \in Calls : WF_vars(CallStep(c))

-----------------------------------------------------------------------------
(* Properties                                                              *)

Records == [access : 1..issued, refresh : (1..issued) \cup {None}, expires : Int \cup {None}]

Places == {"idle", "acquire", "load", "loaded", "request", "granted", "save",
          "cache", "revoke", "clear", "uncache"}

TypeOK ==
    /\ now \in Nat /\ issued \in Nat
    /\ store \in Records \cup {None}
    /\ cached \in [Clients -> Records \cup {None}]
    /\ pc \in [Calls -> Places] /\ op \in [Calls -> Operations \cup {None}]
    /\ stored \in [Calls -> Records \cup {None}]
    /\ tokens \in [Calls -> Records \cup {None}]
    /\ \A c \in Calls :
           /\ pc[c] \in {"request", "granted"} => Presented(c) # None
           /\ pc[c] \in {"granted", "save", "cache"} => tokens[c] # None
    /\ live \subseteq 1..issued /\ abandoned \subseteq 1..issued
    /\ persisted \subseteq 1..issued

\* Whatever calls and clients race, the store never keeps a refresh token the server has
\* replaced: it is live, its successor is on its way to the store, or it died for good.
StoreNotStranded ==
    \/ Refresh(store) \in live \cup abandoned \cup {None}
    \/ \E c \in Calls : Carrying(c) /\ Presented(c) = Refresh(store)

\* What the header factory hands out was persisted first: a credential the store refused is
\* never served from memory.
CachedWasPersisted ==
    \A cl \in Clients : AuthHeaderFactory(cl) \in persisted \cup {None}

\* A refresh discards the stored credential only when that very credential is spent.
DiscardsOnlySpent ==
    [][\A c \in Calls :
         pc[c] = "clear" /\ op[c] \in {"ensure_valid", "refresh"} /\ store' # store
             => Refresh(store) \notin live]_vars

\* Between the calls of a client that has the store to itself, the header factory hands out
\* what the store holds, or nothing: after failed saves and clears, lost answers and crashes.
CacheFresh ==
    (\A c \in Calls : pc[c] = "idle") =>
        \A cl \in Clients : AuthHeaderFactory(cl) \in {None, AuthHeaders(store)}

\* The credential ensure_valid settles on is good for the skew it was asked for.
EnsureHonoursSkew ==
    [][\A c \in Calls :
         (/\ op[c] = "ensure_valid"
          /\ pc[c] \in {"loaded", "granted"} /\ pc'[c] \in {"cache", "save"})
             => Usable(tokens'[c])]_vars

\* Every call returns, though requests are lost and the server refuses.
CallsReturn == \A c \in Calls : pc[c] # "idle" ~> pc[c] = "idle"

===============================================================================
