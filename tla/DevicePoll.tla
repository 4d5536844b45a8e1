------------------------------ MODULE DevicePoll ------------------------------
(***************************************************************************)
(* One run of the device authorization grant (auth/grant.rs): the device   *)
(* request, the user-code callback, and the poll loop with its interval,   *)
(* its deadline and its watchdog, beside an authorization server that      *)
(* answers, delays, loses or garbles what it is asked.                     *)
(*                                                                         *)
(* Time is the monotonic clock, in ticks; it may advance wherever the code *)
(* awaits, calls a hook or calls the consumer back, so between any two     *)
(* steps below.  A step reads the clock once and does what the code does   *)
(* up to its next await, callback or hook.                                 *)
(***************************************************************************)
EXTENDS Dispatch

CONSTANTS
    DeviceResponses,   \* answers of the device endpoint
    Dialect,           \* what the server means -> the responses that say so
    Timeouts,          \* values of callbacks.timeout_seconds, in ticks, or None
    DefaultInterval,   \* config.default_interval, in seconds
    MaxDuration,       \* largest Duration, in ticks: a longer one panics
    MaxOrigin,         \* bound on the clock's value when the run begins
    MaxElapsed,        \* bound on the time a run is followed for
    MaxAnswered        \* bound on the polls the server or the network answers

Meanings == {"pending", "slow_down", "denied", "code_expired", "token", "garbage"}

Responses == UNION {Dialect[m] : m \in Meanings}

Verdicts == {"token", "denied", "code_expired", "deadline", "protocol",
             "invalid_hook", "transport", "config", "panicked"}

ASSUME PollAssumption ==
    /\ DefaultInterval \in Nat
    /\ MaxDuration \in Nat
    /\ MaxOrigin \in Nat
    /\ MaxElapsed \in Nat
    /\ MaxAnswered \in Nat
    /\ \A t \in Timeouts \ {None} : t \in Int
    /\ None \notin Responses /\ None \notin Verdicts

\* The integer fields of a response are integers wherever they are present.
ASSUME WireAssumption ==
    /\ \A r \in DeviceResponses :
           r.body # None => \A f \in {"expires_in", "interval"} :
               ReadField(r.body, f) # None => ReadField(r.body, f) \in Int
    /\ \A r \in Responses :
           r.body # None /\ ReadField(r.body, "interval") # None
               => ReadField(r.body, "interval") \in Int
    /\ \A r \in Dialect["slow_down"] : r.body # None

VARIABLES
    now,        \* the monotonic clock
    pc,         \* where the run is
    start,      \* the clock when the device response was in hand
    deadline,   \* the Duration after start at which the loop gives up
    interval,   \* the polling interval in force
    wake,       \* when the current sleep ends
    polls,      \* summary.polls_made
    outcome,    \* how the run ended, None while it runs
    link,       \* the token request: idle, sent, answered or failed
    reply,      \* the response in hand or on its way, or None
    decision,   \* server: what became of the device code
    demand,     \* server: the interval its rate limiter expects, in ticks
    since,      \* history: when the last answer (or the device code) arrived
    promised,   \* history: when the countdown the consumer was shown runs out, or None
    missed      \* history: a slow_down or a token was lost on its way

client == <<pc, start, deadline, interval, wake, polls, outcome>>
server == <<decision, demand>>
history == <<since, promised, missed>>
vars == <<now, client, link, reply, server, history>>

Elapsed == now - start

\* The shorter of the device code's lifetime and a usable caller timeout.
PollDeadline(expiresIn, timeout) ==
    LET lifetime == expiresIn * Second
    IN  IF timeout # None /\ timeout > 0 /\ timeout < lifetime THEN timeout ELSE lifetime

\* Duration::from_secs_f64 panics on a finite timeout longer than a Duration can hold.
TimeoutPanics(timeout) == timeout # None /\ timeout > MaxDuration

FirstInterval(stated) ==
    LET seconds == IF stated # None THEN stated ELSE DefaultInterval
    IN  (IF seconds < 1 THEN 1 ELSE seconds) * Second

\* Mutant of SleepUntil: a fixed schedule, whatever the last answer cost.
SleepFixedRate(i) ==
    IF i < deadline - Elapsed /\ wake > 0 THEN wake + i ELSE now + i

SleepUntil(i) ==
    IF i < deadline - Elapsed THEN now + i ELSE start + deadline

Finish(verdict) == outcome' = verdict /\ pc' = "done"

-----------------------------------------------------------------------------
Init ==
    /\ now \in 0..MaxOrigin /\ pc = "request" /\ start = 0 /\ deadline = 0
    /\ interval = 0 /\ wake = 0 /\ polls = 0
    /\ outcome = None
    /\ link = "idle" /\ reply = None
    /\ decision = "undecided" /\ demand = 0
    /\ since = 0 /\ promised = None /\ missed = FALSE

\* How long the device request itself takes is left out: nothing is measured from before it.
Tick ==
    /\ pc \notin {"request", "done"} /\ Elapsed < MaxElapsed
    /\ now' = now + 1
    /\ UNCHANGED <<client, link, reply, server, history>>

\* The device request fails: no endpoint is configured, it cannot be reached, or its answer is
\* no authorization.  (Each endpoint is read once, so whether it is configured is chosen there.)
RequestFails ==
    /\ pc = "request"
    /\ \/ Finish("config")
       \/ Finish("transport")
       \/ /\ \E r \in DeviceResponses : DeviceAuthorization(r) = None
          /\ Finish("protocol")
    /\ UNCHANGED <<now, start, deadline, interval, wake, polls,
                   link, reply, server, history>>

\* The device response: the deadline is fixed once, before on_user_code is called with it.
Authorized ==
    /\ pc = "request"
    /\ \E r \in DeviceResponses, timeout \in Timeouts :
         /\ DeviceAuthorization(r) # None
         /\ LET a == DeviceAuthorization(r) IN
            /\ start' = now /\ since' = now
            /\ IF TimeoutPanics(timeout)
               THEN Finish("panicked") /\ UNCHANGED <<deadline, promised, interval, demand>>
               ELSE /\ deadline' = PollDeadline(a.expires_in, timeout)
                    /\ promised' = now + (deadline' \div Second) * Second
                    /\ interval' = FirstInterval(a.interval)
                    /\ demand' = IF a.interval # None THEN a.interval * Second ELSE 0
                    /\ pc' = "shown" /\ UNCHANGED outcome
    /\ UNCHANGED <<now, wake, polls, link, reply, decision, missed>>

\* Mutant of EnterPoll: the countdown starts when the callback returns.
EnterPollRestarts ==
    /\ pc = "shown"
    /\ pc' = "top" /\ start' = now
    /\ UNCHANGED <<now, deadline, interval, wake, polls, outcome, link, reply, server, history>>

\* poll() is entered after the callback returned, however long that took.
EnterPoll ==
    /\ pc = "shown"
    /\ \/ pc' = "top" /\ UNCHANGED outcome
       \/ Finish("config")
    /\ UNCHANGED <<now, start, deadline, interval, wake, polls,
                   link, reply, server, history>>

\* Wait before every poll, the first included, but never past the deadline.
GoToSleep ==
    /\ pc = "top" /\ Elapsed < deadline
    /\ wake' = SleepUntil(interval)
    /\ pc' = "asleep"
    /\ UNCHANGED <<now, start, deadline, interval, polls, outcome,
                   link, reply, server, history>>

\* The sleep is over: on_poll is called and the request prepared.
WakeUp ==
    /\ pc = "asleep" /\ now >= wake /\ Elapsed < deadline
    /\ pc' = "preparing"
    /\ UNCHANGED <<now, start, deadline, interval, wake, polls, outcome,
                   link, reply, server, history>>

\* Mutant of Send: the deadline is not looked at again after on_poll.
SendLate ==
    /\ pc = "preparing"
    /\ polls' = polls + 1
    /\ link' = "sent" /\ pc' = "waiting"
    /\ UNCHANGED <<now, start, deadline, interval, wake, outcome, reply, server, history>>

Send ==
    /\ pc = "preparing" /\ Elapsed < deadline
    /\ polls' = polls + 1
    /\ link' = "sent" /\ pc' = "waiting"
    /\ UNCHANGED <<now, start, deadline, interval, wake, outcome,
                   reply, server, history>>

\* The response (or a transport failure) is in hand before the watchdog fired.
Receive ==
    /\ pc = "waiting" /\ link \in {"answered", "failed"} /\ Elapsed < deadline
    /\ pc' = IF link = "answered" THEN "dispatching" ELSE "top"
    /\ link' = "idle" /\ since' = now
    /\ UNCHANGED <<now, start, deadline, interval, wake, polls, outcome,
                   reply, server, promised, missed>>

\* The hooks have run; the response decides the next step.
Dispatched ==
    /\ pc = "dispatching" /\ Elapsed < deadline
    /\ LET d == DispatchResponse(reply) IN
         \/ /\ d.step = "success" /\ Finish("token") /\ UNCHANGED interval
         \/ /\ d.step = "continue" /\ pc' = "top" /\ UNCHANGED <<interval, outcome>>
         \/ /\ d.step = "backoff" /\ interval' = NextInterval(interval, d.interval)
            /\ pc' = "top" /\ UNCHANGED outcome
         \/ /\ d.step \in Verdicts /\ Finish(d.step) /\ UNCHANGED interval
    /\ reply' = None
    /\ UNCHANGED <<now, start, deadline, wake, polls, link, server, history>>

\* Mutant of GiveUp: no watchdog over the request in flight.
GiveUpBetweenPolls ==
    /\ \/ pc \in {"top", "preparing", "dispatching"}
       \/ pc = "asleep" /\ now >= wake
    /\ Elapsed >= deadline
    /\ Finish("deadline")
    /\ link' = "idle" /\ reply' = None
    /\ UNCHANGED <<now, start, deadline, interval, wake, polls, server, history>>

\* The clock is read at five places of the loop; past the deadline each one gives up,
\* and the request in flight, if any, is dropped.
GiveUp ==
    /\ \/ pc \in {"top", "preparing", "waiting", "dispatching"}
       \/ pc = "asleep" /\ now >= wake
    /\ Elapsed >= deadline
    /\ Finish("deadline")
    /\ link' = "idle" /\ reply' = None
    /\ UNCHANGED <<now, start, deadline, interval, wake, polls, server, history>>

-----------------------------------------------------------------------------
(* The authorization server, its user, and the network.                    *)

Meant(m) ==
    /\ reply' \in Dialect[m]
    /\ link' = "answered"

\* The user approves or refuses; the server may let an uncollected code lapse.
Decide ==
    /\ pc \notin {"request", "done"}
    /\ \/ decision = "undecided" /\ decision' \in {"approved", "refused", "lapsed"}
       \/ decision = "approved" /\ decision' = "lapsed"
    /\ UNCHANGED <<now, client, link, reply, demand, history>>

Answerable == pc = "waiting" /\ link = "sent" /\ polls <= MaxAnswered

\* Any poll may be told to slow down; the server's limiter moves as it says it does.
AnswerSlowDown ==
    /\ Answerable
    /\ Meant("slow_down")
    /\ demand' = NextInterval(demand, ReadField(reply'.body, "interval"))
    /\ UNCHANGED <<now, client, decision, history>>

\* A token is issued once: the device code is spent with it.
AnswerToken ==
    /\ Answerable /\ decision = "approved"
    /\ Meant("token")
    /\ decision' = "redeemed"
    /\ UNCHANGED <<now, client, demand, history>>

AnswerRest ==
    /\ Answerable
    /\ \/ decision = "undecided" /\ Meant("pending")
       \/ decision = "refused" /\ Meant("denied")
       \/ decision = "lapsed" /\ Meant("code_expired")
       \/ Meant("garbage")
    /\ UNCHANGED <<now, client, server, history>>

\* The connection fails before the server saw the poll, or its answer is lost.
FailTransport ==
    /\ pc = "waiting" /\ polls <= MaxAnswered
    /\ link \in {"sent", "answered"}
    /\ missed' = (missed \/ reply \in Dialect["slow_down"] \cup Dialect["token"])
    /\ link' = "failed" /\ reply' = None
    /\ UNCHANGED <<now, client, server, since, promised>>

-----------------------------------------------------------------------------
LoopStep == Authorized \/ RequestFails \/ EnterPoll \/ GoToSleep \/ WakeUp \/ Send
            \/ Receive \/ Dispatched \/ GiveUp

ServerStep == Decide \/ AnswerSlowDown \/ AnswerToken \/ AnswerRest \/ FailTransport

Ended == pc = "done" /\ UNCHANGED vars

Next == Tick \/ LoopStep \/ ServerStep \/ Ended

\* The clock advances and the executor polls the task; the server owes nothing.
Spec == Init /\ [][Next]_vars /\ WF_vars(Tick) /\ WF_vars(LoopStep)

-----------------------------------------------------------------------------
(* Properties                                                              *)

TypeOK ==
    /\ now \in Nat /\ start \in Nat /\ deadline \in Nat
    /\ interval \in Nat /\ wake \in Nat /\ polls \in Nat
    /\ demand \in Nat /\ since \in Nat
    /\ pc \in {"request", "shown", "top", "asleep", "preparing", "waiting", "dispatching", "done"}
    /\ outcome \in Verdicts \cup {None}
    /\ promised \in Nat \cup {None}
    /\ link \in {"idle", "sent", "answered", "failed"}
    /\ reply \in Responses \cup {None}
    /\ decision \in {"undecided", "approved", "refused", "lapsed", "redeemed"}
    /\ missed \in BOOLEAN

\* The code dispatches on a response only when it has one, with no request still under way.
ReplyInHand ==
    /\ link = "answered" \/ pc = "dispatching" <=> reply # None
    /\ link # "idle" => pc = "waiting"

\* The clock readings the loop still relies on: a sleep ends a whole interval after the last
\* answer unless the deadline ends it, and a poll is prepared only after such a sleep.
TimingInv ==
    /\ start <= since /\ since <= now
    /\ pc = "asleep" => wake >= since + interval \/ wake >= start + deadline
    /\ pc = "preparing" => now >= since + interval

\* The countdown shown is the loop's deadline, in whole seconds.
CountdownInv ==
    pc \notin {"request", "done"} =>
        promised # None /\ promised <= start + deadline /\ start + deadline < promised + Second

\* A run has a verdict exactly when it is over, and announces its limit once.
EndingInv ==
    /\ outcome # None <=> pc = "done"
    /\ pc = "request" => promised = None

\* A backoff in hand, once applied, brings the client level with the server's limiter; without
\* one in hand the client is level with it.
PaceInv ==
    pc # "done" /\ ~missed =>
        IF reply # None /\ DispatchResponse(reply).step = "backoff"
        THEN NextInterval(interval, DispatchResponse(reply).interval) >= demand
        ELSE interval >= demand

\* A verdict in hand is the server's.
VerdictInv ==
    reply # None =>
        LET step == DispatchResponse(reply).step IN
        /\ step = "success" => decision = "redeemed"
        /\ step = "denied" => decision = "refused"
        /\ step = "code_expired" => decision = "lapsed"

\* A token the server issued and the network did not lose is in hand until the run ends.
TokenInv ==
    decision = "redeemed" /\ ~missed =>
        \/ outcome \in {"token", "deadline"}
        \/ reply # None /\ DispatchResponse(reply).step = "success"

\* Every poll waits out the whole interval in force since the previous answer, the first one
\* since the device code: the sleep is shortened only when the deadline then forbids the poll.
PollSpacing == [][polls' # polls => now >= since + interval]_vars

\* The countdown the consumer was shown is the loop's: no poll and no token after the
\* second it names has passed, and giving up never before it, callback and hooks included.
CountdownHonoured ==
    [][/\ polls' # polls \/ (outcome' = "token" /\ outcome # "token")
             => now < promised + Second
       /\ outcome' = "deadline" /\ outcome # "deadline"
             => now >= promised]_vars

\* The loop polls no faster than the server's rate limiter last asked for in an answer that
\* arrived, whatever transport failures and lone intervals came between.
PaceHonoured == [][polls' # polls /\ ~missed => now >= since + demand]_vars

\* What the caller is told is what happened at the server: a token only when the user's
\* approval was redeemed, a denial only when the user refused, an expiry only when it lapsed.
OutcomeHonest ==
    /\ outcome = "token" => decision = "redeemed"
    /\ outcome = "denied" => decision = "refused"
    /\ outcome = "code_expired" => decision = "lapsed"

\* A token the server issued is thrown away only at the deadline, or after its response was
\* lost on the way (the code is spent, and the next answer is an unknown error).
TokenNotDiscarded ==
    decision = "redeemed" /\ pc = "done" /\ ~missed => outcome \in {"token", "deadline"}

UnderstoodAs(m, r) ==
    LET step == DispatchResponse(r).step
    IN  CASE m = "pending" -> step = "continue"
          [] m = "slow_down" -> step = "backoff"
          [] m = "token" -> step = "success"
          [] m = "garbage" -> step \in {"protocol", "invalid_hook"}
          [] OTHER -> step = m

\* What the properties about verdicts and pace ask of the configuration.
DialectUnderstood == \A m \in Meanings : \A r \in Dialect[m] : UnderstoodAs(m, r)

\* Every answer the server sends is read as it meant it, through any spelling of its dialect:
\* standard, configured or left to the hook, with a second spelling or a null beside it.
RepliesUnderstood == \A m \in Meanings : reply \in Dialect[m] => UnderstoodAs(m, reply)

\* The login always ends, though the server never answers and the user never decides.
Terminates == <>(pc = "done")

\* The detailed run read as an abstract login.
Login == INSTANCE DeviceLogin WITH
    clock <- now,
    limit <- IF promised = None THEN None ELSE start + deadline,
    decision <- decision,
    verdict <- outcome

\* Every step of the grant is a step of the abstract login, or invisible to it.
ImplementsLogin == Login!Spec

===============================================================================
