------------------------------ MODULE HttpProxy ------------------------------
(***************************************************************************)
(* One call of a proxy module: ProxyModule::execute, which forwards the    *)
(* inputs as an HTTP request, raced by execute_cancellable against the     *)
(* cancel token of the call's Context (output/http_proxy_writer.rs).       *)
(*                                                                         *)
(* A poll of the task is the run of actions from "check" (or "inner",      *)
(* without a token) until the task is parked or has ended.  Other threads  *)
(* may cancel between any two of them.  The executor polls a woken task at *)
(* once: time passes only while the task is parked and nothing is due, or  *)
(* while the synchronous auth factory is at work.                          *)
(***************************************************************************)
EXTENDS Integers, FiniteSets

CONSTANTS
    Methods,        \* http_method values a module may carry, upper case or not
    Names,          \* names of inputs and of path placeholders
    TickPeriod,     \* 10 ms, in units of the clock
    Timeout,        \* timeout_secs of the HTTP client, in the same units
    MaxFactory,     \* bound: how long the auth factory may take
    None            \* no value; also inputs that are not a JSON object

ASSUME ProxyAssumption ==
    /\ TickPeriod \in Nat \ {0}
    /\ Timeout \in Nat \ {0}
    /\ MaxFactory \in Nat

VARIABLES
    call,           \* the module called, the inputs and the Context
    now,            \* the runtime's clock
    pc,             \* where execute is
    cancelled,      \* when the token was cancelled, and whether before the
                    \* request was handed to the client; or None
    request,        \* the parameters of the request sent, or None
    http,           \* [stage, status, sentAt] of the request future
    tick,           \* [at, armed] of the polling timer
    woken,          \* the task is to be polled
    ready,          \* what the request future has returned, or None
    outcome         \* what execute returned, "dropped", or None

vars == <<call, now, pc, cancelled, request, http, tick, woken, ready, outcome>>

------------------------------------------------------------------------------
(* Forwarding *)

BodyMethods == {"POST", "PUT", "PATCH"}

\* The second list of the code, consulted when the request is assembled.
JsonMethods == {"POST", "PUT", "PATCH"}

SupportedMethods ==
    BodyMethods \cup {"GET", "DELETE", "HEAD", "OPTIONS", "TRACE"}

\* Inputs that are not an object have no entries to distribute.
Entries(inputs) == IF inputs = None THEN {} ELSE inputs

Unfilled(c) == c.params \ Entries(c.inputs)

Assembled(c) ==
    LET rest == Entries(c.inputs) \ c.params
        body == IF c.method \in BodyMethods THEN rest ELSE {}
    IN  [path  |-> Entries(c.inputs) \cap c.params,
         query |-> rest \ body,
         json  |-> IF c.method \in JsonMethods THEN body ELSE {}]

------------------------------------------------------------------------------
(* States *)

Statuses == {"no_content", "success", "failure"}
Stages == {"unsent", "sent", "headers", "reading", "body", "garbage",
           "failed", "timed_out", "closed"}
InFlight == {"sent", "reading"}

Results == {"missing_params", "unsupported_method", "cancelled", "empty",
            "value", "bad_json", "http_error", "request_failed", "timed_out"}

\* No value is none of the values.
ASSUME NoneAssumption == None \notin Results \cup {"dropped"} \cup Statuses

Calls == [method : Methods, params : SUBSET Names,
          inputs : (SUBSET Names) \cup {None},
          token : BOOLEAN, factory : BOOLEAN]

Init ==
    /\ call \in Calls
    /\ now = 0
    /\ pc = "start"
    /\ cancelled = None
    /\ request = None
    /\ http = [stage |-> "unsent", status |-> None, sentAt |-> 0]
    /\ tick = [at |-> 0, armed |-> FALSE]
    /\ woken = FALSE
    /\ ready = None
    /\ outcome = None

Live == outcome = None

\* Every exit drops the request future and the timer with the scope they live in.
EndWith(result) ==
    /\ pc' = "ended"
    /\ outcome' = result
    /\ http' = [http EXCEPT !.stage = "closed"]
    /\ tick' = [tick EXCEPT !.armed = FALSE]
    /\ woken' = FALSE
    /\ UNCHANGED <<call, now, cancelled, request, ready>>

Goto(label) ==
    /\ pc' = label
    /\ UNCHANGED <<call, now, cancelled, request, http, tick, woken, ready, outcome>>

\* The request future is done: with a token the result is held for one more check.
Resolve(result) ==
    \/ /\ call.token
       /\ ready' = result
       /\ pc' = "recheck"
       /\ UNCHANGED <<call, now, cancelled, request, http, tick, woken, outcome>>
    \/ /\ ~call.token
       /\ EndWith(result)

\* The request future is pending.
Pend == Goto(IF call.token THEN "tick" ELSE "parked")

------------------------------------------------------------------------------
(* The task *)

\* execute: the token's check before anything is polled.  The timer is made
\* here, due at once.
Start ==
    /\ pc = "start"
    /\ IF call.token /\ cancelled # None
       THEN EndWith("cancelled")
       ELSE Goto(IF call.token THEN "check" ELSE "inner")

CheckFirst ==
    /\ pc = "check"
    /\ IF cancelled # None THEN EndWith("cancelled") ELSE Goto("inner")

\* The first poll of the request future, up to the auth factory.
Prepare ==
    /\ pc = "inner"
    /\ http.stage = "unsent"
    /\ \/ /\ Unfilled(call) # {}
          /\ Resolve("missing_params")
       \/ /\ Unfilled(call) = {}
          /\ call.method \notin SupportedMethods
          /\ Resolve("unsupported_method")
       \/ /\ Unfilled(call) = {}
          /\ call.method \in SupportedMethods
          /\ Goto(IF call.factory THEN "factory" ELSE "vet")

FactoryReturns ==
    /\ pc = "factory"
    /\ Goto("vet")

\* Mutant of Vet: the factory's effect on the token is not looked at.
VetNothing ==
    /\ pc = "vet"
    /\ Goto("send")

\* The factory may itself have cancelled the Context.
Vet ==
    /\ pc = "vet"
    /\ IF call.token /\ cancelled # None
       THEN Resolve("cancelled")
       ELSE Goto("send")

\* send().await: the client's timeout starts here and spans the body too.
Send ==
    /\ pc = "send"
    /\ request' = Assembled(call)
    /\ http' = [stage |-> "sent", status |-> None, sentAt |-> now]
    /\ pc' = IF call.token THEN "tick" ELSE "parked"
    /\ UNCHANGED <<call, now, cancelled, tick, woken, ready, outcome>>

\* A later poll of the request future: it stands at one of its two awaits.
PollRequest ==
    /\ pc = "inner"
    /\ \/ /\ http.stage \in InFlight
          /\ Pend
       \/ /\ http.stage = "headers"
          /\ http.status = "no_content"
          /\ Resolve("empty")
       \/ /\ http.stage = "headers"
          /\ http.status # "no_content"
          /\ http' = [http EXCEPT !.stage = "reading"]
          /\ UNCHANGED <<call, now, pc, cancelled, request, tick, woken, ready, outcome>>
       \/ /\ http.stage \in {"body", "garbage"}
          /\ Resolve(IF http.status = "failure" THEN "http_error"
                     ELSE IF http.stage = "body" THEN "value" ELSE "bad_json")
       \/ /\ http.stage = "failed"
          /\ Resolve("request_failed")
       \/ /\ http.stage = "timed_out"
          /\ Resolve("timed_out")

\* Mutant of Recheck: whatever is ready is returned.
RecheckNothing ==
    /\ pc = "recheck"
    /\ EndWith(ready)

\* Cancellation wins over a simultaneous result.
Recheck ==
    /\ pc = "recheck"
    /\ EndWith(IF cancelled # None THEN "cancelled" ELSE ready)

\* Mutant of ResetTick: nothing is registered for the new deadline.
ResetTickWithoutPoll == [at |-> now + TickPeriod, armed |-> FALSE]

\* reset() and the second poll, which registers the waker for the new deadline.
ResetTick == [at |-> now + TickPeriod, armed |-> TRUE]

\* The first poll of the timer, which finds it due or registers the waker.
PollTick ==
    /\ pc = "tick"
    /\ tick' = IF tick.at <= now THEN ResetTick ELSE [tick EXCEPT !.armed = TRUE]
    /\ pc' = "parked"
    /\ UNCHANGED <<call, now, cancelled, request, http, woken, ready, outcome>>

\* The executor polls the task it was asked to poll.
Polled ==
    /\ pc = "parked"
    /\ woken
    /\ woken' = FALSE
    /\ pc' = IF call.token THEN "check" ELSE "inner"
    /\ UNCHANGED <<call, now, cancelled, request, http, tick, ready, outcome>>

TaskStep ==
    \/ Start \/ CheckFirst \/ Prepare \/ FactoryReturns \/ Vet \/ Send
    \/ PollRequest \/ Recheck \/ PollTick \/ Polled

------------------------------------------------------------------------------
(* Timers, the network, and the other threads *)

TickDue == tick.armed /\ tick.at <= now

TickFires ==
    /\ TickDue
    /\ tick' = [tick EXCEPT !.armed = FALSE]
    /\ woken' = TRUE
    /\ UNCHANGED <<call, now, pc, cancelled, request, http, ready, outcome>>

\* Mutant of TimeoutDue: the body is read without a limit.
TimeoutCoversHeadersOnly == http.stage = "sent" /\ now >= http.sentAt + Timeout

\* The client's timeout covers the request up to the last byte of the body.
TimeoutDue == http.stage \in InFlight /\ now >= http.sentAt + Timeout

Network(stage, status) ==
    /\ http' = [http EXCEPT !.stage = stage, !.status = status]
    /\ woken' = TRUE
    /\ UNCHANGED <<call, now, pc, cancelled, request, tick, ready, outcome>>

TimeoutFires ==
    /\ TimeoutDue
    /\ Network("timed_out", http.status)

HeadersArrive ==
    /\ http.stage = "sent"
    /\ \E status \in Statuses : Network("headers", status)

\* The whole body, which may not be JSON.
BodyArrives ==
    /\ http.stage = "reading"
    /\ \E content \in {"body", "garbage"} : Network(content, http.status)

ConnectionFails ==
    /\ http.stage \in InFlight
    /\ Network("failed", http.status)

\* Core tokens have no waker: cancelling does not wake the task.
Cancel ==
    /\ Live
    /\ call.token
    /\ cancelled = None
    /\ cancelled' = [at |-> now, unsent |-> request = None /\ pc # "send"]
    /\ UNCHANGED <<call, now, pc, request, http, tick, woken, ready, outcome>>

\* The caller drops the execute future, between two polls.
Drop ==
    /\ pc \in {"start", "parked"}
    /\ EndWith("dropped")

Advance ==
    /\ \/ pc = "factory" /\ now < MaxFactory
       \/ pc = "parked" /\ ~woken /\ ~TickDue /\ ~TimeoutDue
                        /\ now < MaxFactory + Timeout
    /\ now' = now + 1
    /\ UNCHANGED <<call, pc, cancelled, request, http, tick, woken, ready, outcome>>

\* execute has returned; nothing is left that could run.
Ended ==
    /\ ~Live
    /\ UNCHANGED vars

Next ==
    \/ TaskStep
    \/ TickFires \/ TimeoutFires
    \/ HeadersArrive \/ BodyArrives \/ ConnectionFails
    \/ Cancel \/ Drop \/ Advance
    \/ Ended

Fairness ==
    /\ WF_vars(TaskStep)
    /\ WF_vars(TickFires)
    /\ WF_vars(TimeoutFires)
    /\ WF_vars(Advance)

Spec == Init /\ [][Next]_vars /\ Fairness

------------------------------------------------------------------------------
(* Properties *)

\* Every variable has its type; the timer never lies further ahead than one
\* period, and a result is held exactly at the last check of the token.
TypeOK ==
    /\ call \in Calls
    /\ now \in 0 .. (MaxFactory + Timeout)
    /\ pc \in {"start", "check", "inner", "factory", "vet", "send", "tick",
               "parked", "recheck", "ended"}
    /\ cancelled = None \/ cancelled \in [at : 0 .. now, unsent : BOOLEAN]
    /\ request = None \/ request \in
         [path : SUBSET Names, query : SUBSET Names, json : SUBSET Names]
    /\ http \in [stage : Stages, status : Statuses \cup {None}, sentAt : 0 .. now]
    /\ tick \in [at : 0 .. (now + TickPeriod), armed : BOOLEAN]
    /\ woken \in BOOLEAN
    /\ ready \in Results \cup {None}
    /\ pc = "recheck" => ready # None
    /\ outcome \in Results \cup {None, "dropped"}
    /\ outcome # None <=> pc = "ended"

\* A cancelled call does not lie idle for more than one period of the polling
\* timer, although cancelling wakes nobody: the timer is re-armed on each poll
\* that finds it due (http_proxy_writer.rs:470-474).
CancelPrompt ==
    pc = "parked" /\ cancelled # None => now <= cancelled.at + TickPeriod

\* A token cancelled before the request is handed to the client, by the auth
\* factory for one, keeps it from being sent at all (http_proxy_writer.rs:404-408).
NothingSentOnceCancelled ==
    cancelled # None /\ cancelled.unsent => request = None

\* What is sent carries every input exactly once, in the path, the query or the
\* body, and leaves no placeholder open (http_proxy_writer.rs:184-187).
InputsForwarded ==
    request # None =>
        /\ request.path = call.params
        /\ request.path \cup request.query \cup request.json = Entries(call.inputs)
        /\ request.query \cap request.json = {}
        /\ (request.query \cup request.json) \cap request.path = {}

\* No result, success or failure, is returned by a call that was cancelled
\* before it returned: only the cancellation is (http_proxy_writer.rs:462-467).
CancelWins ==
    [][outcome = None /\ outcome' \in Results \ {"cancelled"} => cancelled = None]_vars

\* Every call comes to an end, whatever the server does: the client's timeout
\* covers the wait for the headers and the reading of the body, and the polling
\* timer keeps the task from missing either.
CallEnds == <>(outcome # None)
==============================================================================
