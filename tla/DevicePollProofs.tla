--------------------------- MODULE DevicePollProofs ---------------------------
(* Proofs about one run of the device authorization grant. *)
EXTENDS DevicePoll, TLAPS

-----------------------------------------------------------------------------
(* Lemmas about the operators.                                             *)

\* Every response leads to one of the loop's steps, and the interval a backoff carries is an
\* integer or absent.
LEMMA DispatchSteps ==
    ASSUME NEW r \in Responses
    PROVE  /\ DispatchResponse(r).step
                  \in {"success", "continue", "backoff", "denied", "code_expired",
                       "protocol", "invalid_hook"}
           /\ DispatchResponse(r).interval = None \/ DispatchResponse(r).interval \in Int
  <1>1. CASE r.body = None
    BY <1>1 DEF DispatchResponse, Terminate
  <1>2. CASE r.body # None /\ r.ok
    BY <1>2 DEF DispatchResponse, Terminate, Success
  <1>3. CASE r.body # None /\ ~r.ok
    <2>1. ReadField(r.body, "interval") = None \/ ReadField(r.body, "interval") \in Int
      BY <1>3, WireAssumption
    <2>2. DispatchResponse(r) = DispatchError(r.body)
      BY <1>3 DEF DispatchResponse
    <2>3. QED
      BY <2>1, <2>2 DEF DispatchError, Continue, Backoff, Terminate
  <1>4. QED
    BY <1>1, <1>2, <1>3

\* The interval after a slow_down is a natural number of ticks, whatever the body carries.
LEMMA NextIntervalType ==
    ASSUME NEW i \in Nat, NEW b, b = None \/ b \in Int
    PROVE  NextInterval(i, b) \in Nat
  <1>1. SlowDownIncrement * Second \in Nat
    BY ScaleAssumption
  <1>2. b \in Nat => b * Second \in Nat
    BY ScaleAssumption
  <1>3. QED
    BY <1>1, <1>2 DEF NextInterval

\* An answer to slow_down never leaves the client behind the server's limiter.
LEMMA NextIntervalMonotone ==
    ASSUME NEW i \in Nat, NEW j \in Nat, NEW b, b = None \/ b \in Int, j <= i
    PROVE  NextInterval(j, b) <= NextInterval(i, b)
  <1>1. SlowDownIncrement * Second \in Nat
    BY ScaleAssumption
  <1>2. b \in Nat => b * Second \in Nat
    BY ScaleAssumption
  <1>3. QED
    BY <1>1, <1>2 DEF NextInterval

\* A usable device response yields a lifetime, and an interval that is absent or non-negative.
LEMMA AuthorizationType ==
    ASSUME NEW r \in DeviceResponses, DeviceAuthorization(r) # None
    PROVE  /\ DeviceAuthorization(r).expires_in \in Nat
           /\ DeviceAuthorization(r).interval # None => DeviceAuthorization(r).interval \in Nat
  <1>1. r.body # None
    BY DEF DeviceAuthorization
  <1>2. \A f \in {"expires_in", "interval"} :
           Unsigned(ReadField(r.body, f)) # None => Unsigned(ReadField(r.body, f)) \in Nat
    BY <1>1, WireAssumption DEF Unsigned
  <1>3. DeviceAuthorization(r) =
           [expires_in |-> EffectiveExpiresIn(Unsigned(ReadField(r.body, "expires_in"))),
            interval |-> Unsigned(ReadField(r.body, "interval"))]
    BY DEF DeviceAuthorization
  <1>4. QED
    BY <1>2, <1>3, ScaleAssumption DEF EffectiveExpiresIn

\* The first interval is never below one second nor below what the server stated.
LEMMA FirstIntervalType ==
    ASSUME NEW s, s # None => s \in Nat
    PROVE  /\ FirstInterval(s) \in Nat
           /\ s # None => s * Second \in Nat /\ FirstInterval(s) >= s * Second
  <1> DEFINE m == IF s # None THEN s ELSE DefaultInterval
  <1>1. m \in Nat
    BY PollAssumption
  <1>2. m * Second \in Nat /\ 1 * Second \in Nat
    BY <1>1, ScaleAssumption
  <1>3. m < 1 => m * Second = 0
    BY <1>1, ScaleAssumption
  <1>4. FirstInterval(s) = IF m < 1 THEN 1 * Second ELSE m * Second
    BY DEF FirstInterval
  <1>5. QED
    BY <1>1, <1>2, <1>3, <1>4, ScaleAssumption

\* The deadline is a natural number of ticks for every caller timeout, negative ones included.
LEMMA DeadlineType ==
    ASSUME NEW e \in Nat, NEW t \in Timeouts
    PROVE  PollDeadline(e, t) \in Nat
  <1>1. e * Second \in Nat
    BY ScaleAssumption
  <1>2. QED
    BY <1>1, PollAssumption DEF PollDeadline

\* The whole seconds of a duration, back in ticks: at most a second short of it.
LEMMA WholeSeconds ==
    ASSUME NEW d \in Nat
    PROVE  /\ (d \div Second) * Second \in Nat
           /\ (d \div Second) * Second <= d
           /\ d < (d \div Second) * Second + Second
  BY ScaleAssumption

\* A countdown of d ticks shown from n on, in whole seconds, runs out within the last second of d.
LEMMA CountdownArithmetic ==
    ASSUME NEW n \in Nat, NEW d \in Nat, NEW p, p = n + (d \div Second) * Second
    PROVE  p \in Nat /\ p # None /\ p <= n + d /\ n + d < p + Second
  <1>1. PICK w \in Nat : p = n + w /\ w <= d /\ d < w + Second
    BY WholeSeconds
  <1>2. Second \in Nat
    BY ScaleAssumption
  <1>3. p \in Nat /\ p <= n + d /\ n + d < p + Second
    BY <1>1, <1>2
  <1>4. QED
    BY <1>3, ScaleAssumption

\* The limit is not before the start.
LEMMA LimitNotBefore ==
    ASSUME NEW s \in Nat, NEW d \in Nat
    PROVE  s + d \in Nat /\ s + d >= s
  OBVIOUS

-----------------------------------------------------------------------------
(* Type correctness.                                                       *)

\* Init and every step of the grant keep every variable in its type.
LEMMA TypeStep == TypeOK /\ ReplyInHand /\ [Next]_vars => TypeOK'
  <1> SUFFICES ASSUME TypeOK, ReplyInHand, [Next]_vars
               PROVE  TypeOK'
    OBVIOUS
  <1> USE DEF TypeOK
  <1>1. CASE Tick
    BY <1>1 DEF Tick, client, server, history
  <1>2. CASE RequestFails
    BY <1>2 DEF RequestFails, Finish, Verdicts, server, history
  <1>3. CASE Authorized
    <2>1. PICK r \in DeviceResponses, t \in Timeouts :
            /\ DeviceAuthorization(r) # None
            /\ LET a == DeviceAuthorization(r) IN
               /\ start' = now /\ since' = now
               /\ IF TimeoutPanics(t)
                  THEN Finish("panicked") /\ UNCHANGED <<deadline, promised, interval, demand>>
                  ELSE /\ deadline' = PollDeadline(a.expires_in, t)
                       /\ promised' = now + (deadline' \div Second) * Second
                       /\ interval' = FirstInterval(a.interval)
                       /\ demand' = IF a.interval # None THEN a.interval * Second ELSE 0
                       /\ pc' = "shown" /\ UNCHANGED outcome
      BY <1>3 DEF Authorized
    <2>2. UNCHANGED <<now, wake, polls, link, reply, decision, missed>>
      BY <1>3 DEF Authorized
    <2>3. CASE TimeoutPanics(t)
      BY <2>1, <2>2, <2>3 DEF Finish, Verdicts
    <2>4. CASE ~TimeoutPanics(t)
      <3>1. deadline' \in Nat /\ interval' \in Nat /\ demand' \in Nat
        BY <2>1, <2>4, AuthorizationType, DeadlineType, FirstIntervalType
      <3>2. promised' \in Nat
        BY <2>1, <2>4, <3>1, WholeSeconds
      <3>3. QED
        BY <2>1, <2>2, <2>4, <3>1, <3>2
    <2>5. QED
      BY <2>3, <2>4
  <1>4. CASE EnterPoll
    BY <1>4 DEF EnterPoll, Finish, Verdicts, server, history
  <1>5. CASE GoToSleep
    BY <1>5 DEF GoToSleep, SleepUntil, server, history
  <1>6. CASE WakeUp
    BY <1>6 DEF WakeUp, server, history
  <1>7. CASE Send
    BY <1>7 DEF Send, server, history
  <1>8. CASE Receive
    BY <1>8 DEF Receive, server
  <1>9. CASE Dispatched
    <2>1. /\ reply' = None
          /\ UNCHANGED <<now, start, deadline, wake, polls, link, server, history>>
          /\ pc' \in {"top", "done"} /\ outcome' \in Verdicts \cup {None}
      BY <1>9 DEF Dispatched, Finish, Verdicts
    <2>2. interval' \in Nat
      <3>1. CASE UNCHANGED interval
        BY <3>1
      <3>2. CASE interval' = NextInterval(interval, DispatchResponse(reply).interval)
        <4>1. reply \in Responses
          BY <1>9 DEF Dispatched, ReplyInHand
        <4>2. QED
          BY <3>2, <4>1, DispatchSteps, NextIntervalType
      <3>3. QED
        BY <1>9, <3>1, <3>2 DEF Dispatched
    <2>3. QED
      BY <2>1, <2>2 DEF server, history
  <1>10. CASE GiveUp
    BY <1>10 DEF GiveUp, Finish, Verdicts, server, history
  <1>11. CASE Decide
    BY <1>11 DEF Decide, client, history
  <1>12. CASE AnswerSlowDown
    <2>1. reply' \in Dialect["slow_down"]
      BY <1>12 DEF AnswerSlowDown, Meant
    <2>2. reply' \in Responses
      BY <2>1 DEF Responses, Meanings
    <2>3. demand' \in Nat
      BY <1>12, <2>1, <2>2, WireAssumption, NextIntervalType DEF AnswerSlowDown
    <2>4. QED
      BY <1>12, <2>2, <2>3 DEF AnswerSlowDown, Meant, client, history
  <1>13. CASE AnswerToken
    BY <1>13 DEF AnswerToken, Meant, Responses, Meanings, client, history
  <1>14. CASE AnswerRest
    BY <1>14 DEF AnswerRest, Meant, Responses, Meanings, client, server, history
  <1>15. CASE FailTransport
    BY <1>15 DEF FailTransport, client, server
  <1>16. CASE UNCHANGED vars
    BY <1>16 DEF vars, client, server, history
  <1>17. QED
    BY <1>1, <1>2, <1>3, <1>4, <1>5, <1>6, <1>7, <1>8, <1>9, <1>10, <1>11, <1>12,
       <1>13, <1>14, <1>15, <1>16 DEF Next, LoopStep, ServerStep, Ended

\* Every step keeps a response in hand exactly where the loop dispatches on one.
LEMMA ReplyStep == TypeOK /\ ReplyInHand /\ [Next]_vars => ReplyInHand'
  <1> SUFFICES ASSUME TypeOK, ReplyInHand, [Next]_vars
               PROVE  ReplyInHand'
    OBVIOUS
  <1> USE DEF TypeOK, ReplyInHand
  <1>1. CASE Tick \/ RequestFails \/ Authorized \/ EnterPoll \/ GoToSleep \/ WakeUp
    BY <1>1 DEF Tick, RequestFails, Authorized, EnterPoll, GoToSleep, WakeUp, Finish, client
  <1>2. CASE Send \/ Receive \/ Dispatched \/ GiveUp
    <2>1. CASE Send
      BY <2>1 DEF Send
    <2>2. CASE Receive
      BY <2>2 DEF Receive
    <2>3. CASE Dispatched
      <3>1. pc = "dispatching" /\ link' = link /\ reply' = None
        BY <2>3 DEF Dispatched
      <3>2. pc' \in {"top", "done"}
        BY <2>3 DEF Dispatched, Finish
      <3>3. QED
        BY <3>1, <3>2
    <2>4. CASE GiveUp
      BY <2>4 DEF GiveUp, Finish
    <2>5. QED
      BY <1>2, <2>1, <2>2, <2>3, <2>4
  <1>3. CASE AnswerSlowDown \/ AnswerToken \/ AnswerRest
    <2>1. reply' \in Responses
      BY <1>3 DEF AnswerSlowDown, AnswerToken, AnswerRest, Meant, Responses, Meanings
    <2>2. pc' = "waiting" /\ link' = "answered"
      BY <1>3 DEF AnswerSlowDown, AnswerToken, AnswerRest, Answerable, Meant, client
    <2>3. QED
      BY <2>1, <2>2, PollAssumption
  <1>4. CASE Decide \/ FailTransport \/ UNCHANGED vars
    BY <1>4 DEF Decide, FailTransport, client, vars
  <1>5. QED
    BY <1>1, <1>2, <1>3, <1>4 DEF Next, LoopStep, ServerStep, Ended

\* In every reachable state the variables have their types and the response being dispatched
\* is one the server sent.
THEOREM TypeCorrect == Spec => [](TypeOK /\ ReplyInHand)
  <1>1. Init => TypeOK /\ ReplyInHand
    <2> SUFFICES ASSUME Init
                 PROVE  TypeOK /\ ReplyInHand
      OBVIOUS
    <2>1. now \in Nat
      BY PollAssumption DEF Init
    <2>2. missed \in BOOLEAN
      BY DEF Init
    <2>3. QED
      BY <2>1, <2>2 DEF Init, TypeOK, ReplyInHand
  <1>2. TypeOK /\ ReplyInHand /\ [Next]_vars => (TypeOK /\ ReplyInHand)'
    BY TypeStep, ReplyStep
  <1>3. QED
    BY <1>1, <1>2, PTL DEF Spec

-----------------------------------------------------------------------------
(* The clock: spacing of the polls and the countdown shown.                *)

\* Every step keeps the clock readings the loop relies on.
LEMMA TimingStep == TypeOK /\ TimingInv /\ [Next]_vars => TimingInv'
  <1> SUFFICES ASSUME TypeOK, TimingInv, [Next]_vars
               PROVE  TimingInv'
    OBVIOUS
  <1> USE DEF TypeOK, TimingInv
  <1>1. CASE Tick
    BY <1>1 DEF Tick, client, history
  <1>2. CASE RequestFails
    BY <1>2 DEF RequestFails, Finish, server, history
  <1>3. CASE Authorized
    <2>1. start' = now /\ since' = now /\ now' = now /\ pc' \in {"shown", "done"}
      BY <1>3 DEF Authorized, Finish
    <2>2. QED
      BY <2>1
  <1>4. CASE EnterPoll
    BY <1>4 DEF EnterPoll, Finish, server, history
  <1>5. CASE GoToSleep
    <2>1. wake' >= since + interval \/ wake' >= start + deadline
      BY <1>5 DEF GoToSleep, SleepUntil
    <2>2. QED
      BY <1>5, <2>1 DEF GoToSleep, history
  <1>6. CASE WakeUp
    <2>1. now < start + deadline
      BY <1>6 DEF WakeUp, Elapsed
    <2>2. now >= since + interval
      BY <1>6, <2>1 DEF WakeUp
    <2>3. QED
      BY <1>6, <2>2 DEF WakeUp, history
  <1>7. CASE Send
    BY <1>7 DEF Send, history
  <1>8. CASE Receive
    <2>1. start <= now
      BY <1>8 DEF Receive
    <2>2. /\ start' = start /\ since' = now /\ now' = now
          /\ pc' \in {"dispatching", "top"}
      BY <1>8 DEF Receive
    <2>3. QED
      BY <2>1, <2>2
  <1>9. CASE Dispatched
    <2>1. pc' \in {"top", "done"} /\ pc = "dispatching"
      BY <1>9 DEF Dispatched, Finish
    <2>2. start' = start /\ since' = since /\ now' = now
      BY <1>9 DEF Dispatched, history
    <2>3. QED
      BY <2>1, <2>2
  <1>10. CASE GiveUp
    BY <1>10 DEF GiveUp, Finish, history
  <1>11. CASE ServerStep
    <2>1. now' = now /\ UNCHANGED client /\ since' = since
      BY <1>11 DEF ServerStep, Decide, AnswerSlowDown, AnswerToken, AnswerRest,
                   FailTransport, history
    <2>2. QED
      BY <2>1 DEF client
  <1>12. CASE UNCHANGED vars
    BY <1>12 DEF vars, client, history
  <1>13. QED
    BY <1>1, <1>2, <1>3, <1>4, <1>5, <1>6, <1>7, <1>8, <1>9, <1>10, <1>11, <1>12
       DEF Next, LoopStep, Ended

\* Every step of the poll loop keeps the countdown shown and the deadline within a second.
LEMMA CountdownStep == TypeOK /\ CountdownInv /\ [Next]_vars => CountdownInv'
  <1> SUFFICES ASSUME TypeOK, CountdownInv, [Next]_vars
               PROVE  CountdownInv'
    OBVIOUS
  <1> USE DEF TypeOK, CountdownInv
  <1>1. CASE Authorized
    <2>1. PICK r \in DeviceResponses, t \in Timeouts :
            /\ DeviceAuthorization(r) # None
            /\ start' = now
            /\ \/ Finish("panicked")
               \/ /\ deadline' = PollDeadline(DeviceAuthorization(r).expires_in, t)
                  /\ promised' = now + (deadline' \div Second) * Second
      BY <1>1 DEF Authorized
    <2>2. CASE Finish("panicked")
      BY <2>2 DEF Finish
    <2>3. CASE ~Finish("panicked")
      <3>1. deadline' \in Nat
        BY <2>1, <2>3, AuthorizationType, DeadlineType
      <3>2. promised' = now + (deadline' \div Second) * Second
        BY <2>1, <2>3
      <3>3. promised' # None /\ promised' <= now + deadline'
            /\ now + deadline' < promised' + Second
        BY <3>1, <3>2, CountdownArithmetic
      <3>4. QED
        BY <2>1, <3>3
    <2>4. QED
      BY <2>2, <2>3
  <1>2. CASE ~Authorized
    <2>1. UNCHANGED <<start, deadline, promised>>
      BY <1>2 DEF Next, LoopStep, ServerStep, Ended, Tick, RequestFails, EnterPoll, GoToSleep,
                  WakeUp, Send, Receive, Dispatched, GiveUp, Decide, AnswerSlowDown, AnswerToken,
                  AnswerRest, FailTransport, vars, client, history
    <2>2. pc' \notin {"request", "done"} => pc \notin {"request", "done"}
      BY <1>2 DEF Next, LoopStep, ServerStep, Ended, Tick, RequestFails, EnterPoll, GoToSleep,
                  WakeUp, Send, Receive, Dispatched, GiveUp, Decide, AnswerSlowDown, AnswerToken,
                  AnswerRest, FailTransport, vars, client, Finish
    <2>3. QED
      BY <2>1, <2>2
  <1>3. QED
    BY <1>1, <1>2

-----------------------------------------------------------------------------
(* The server's answers: pace, verdicts and tokens, for a provider whose   *)
(* dialect the configuration understands.                                  *)

\* In a dialect that is understood, what the dispatch does with a response names its meaning.
LEMMA StepOfMeaning ==
    ASSUME DialectUnderstood
    PROVE  /\ \A r \in Dialect["pending"] : DispatchResponse(r).step = "continue"
           /\ \A r \in Dialect["slow_down"] : DispatchResponse(r).step = "backoff"
           /\ \A r \in Dialect["denied"] : DispatchResponse(r).step = "denied"
           /\ \A r \in Dialect["code_expired"] : DispatchResponse(r).step = "code_expired"
           /\ \A r \in Dialect["token"] : DispatchResponse(r).step = "success"
           /\ \A r \in Dialect["garbage"] :
                  DispatchResponse(r).step \in {"protocol", "invalid_hook"}
  BY DEF DialectUnderstood, UnderstoodAs, Meanings

\* A backoff carries the interval field of its body.
LEMMA BackoffInterval ==
    ASSUME NEW r, DispatchResponse(r).step = "backoff"
    PROVE  DispatchResponse(r).interval = ReadField(r.body, "interval")
  <1>1. DispatchResponse(r) = DispatchError(r.body)
    BY DEF DispatchResponse, Terminate, Success
  <1>2. DispatchError(r.body) = Backoff(ReadField(r.body, "interval"))
    BY <1>1 DEF DispatchError, Continue, Terminate
  <1>3. QED
    BY <1>1, <1>2 DEF Backoff

\* Outside the answers and the dispatch, the response in hand changes only by being dropped,
\* and the run then ends.
LEMMA PaceStep ==
    ASSUME DialectUnderstood
    PROVE  TypeOK /\ ReplyInHand /\ PaceInv /\ [Next]_vars => PaceInv'
  <1> SUFFICES ASSUME TypeOK, ReplyInHand, PaceInv, [Next]_vars
               PROVE  PaceInv'
    OBVIOUS
  <1>1. CASE RequestFails \/ GiveUp
    BY <1>1 DEF RequestFails, GiveUp, Finish, PaceInv
  <1>2. CASE Authorized
    <2>1. reply = None /\ reply' = reply
      BY <1>2 DEF Authorized, ReplyInHand, TypeOK
    <2>2. pc' # "done" => interval' >= demand'
      <3>1. PICK r \in DeviceResponses :
              /\ DeviceAuthorization(r) # None
              /\ \/ Finish("panicked")
                 \/ /\ interval' = FirstInterval(DeviceAuthorization(r).interval)
                    /\ demand' = IF DeviceAuthorization(r).interval # None
                                 THEN DeviceAuthorization(r).interval * Second ELSE 0
        BY <1>2 DEF Authorized
      <3> DEFINE i == DeviceAuthorization(r).interval
      <3>2. i # None => i \in Nat
        BY <3>1, AuthorizationType
      <3> HIDE DEF i
      <3>3. /\ FirstInterval(i) \in Nat
            /\ i # None => i * Second \in Nat /\ FirstInterval(i) >= i * Second
        BY <3>2, FirstIntervalType
      <3>4. QED
        BY <3>1, <3>3 DEF Finish, i
    <2>3. QED
      BY <2>1, <2>2 DEF PaceInv
  <1>3. CASE Tick \/ EnterPoll \/ GoToSleep \/ WakeUp \/ Send \/ Receive \/ Decide
             \/ UNCHANGED vars
    <2>1. UNCHANGED <<reply, interval, demand, missed>>
      BY <1>3 DEF Tick, EnterPoll, GoToSleep, WakeUp, Send, Receive, Decide, vars, client,
                  server, history
    <2>2. pc' # "done" => pc # "done"
      BY <1>3 DEF Tick, EnterPoll, GoToSleep, WakeUp, Send, Receive, Decide, vars, client
    <2>3. QED
      BY <2>1, <2>2 DEF PaceInv
  <1>4. CASE Dispatched
    <2>1. /\ reply # None /\ reply' = None /\ pc # "done"
          /\ UNCHANGED <<demand, missed>>
      BY <1>4 DEF Dispatched, ReplyInHand, server, history
    <2>2. CASE DispatchResponse(reply).step = "backoff"
      <3>1. interval' = NextInterval(interval, DispatchResponse(reply).interval)
        BY <1>4, <2>2 DEF Dispatched, Verdicts
      <3>2. QED
        BY <2>1, <2>2, <3>1 DEF PaceInv
    <2>3. CASE DispatchResponse(reply).step # "backoff"
      <3>1. interval' = interval
        BY <1>4, <2>3 DEF Dispatched
      <3>2. QED
        BY <2>1, <2>3, <3>1 DEF PaceInv
    <2>4. QED
      BY <2>2, <2>3
  <1>5. CASE AnswerSlowDown
    <2>1. /\ reply = None /\ pc = "waiting" /\ UNCHANGED <<interval, missed>>
          /\ reply' \in Dialect["slow_down"]
          /\ demand' = NextInterval(demand, ReadField(reply'.body, "interval"))
      BY <1>5 DEF AnswerSlowDown, Answerable, Meant, ReplyInHand, client, history
    <2>2. DispatchResponse(reply').step = "backoff"
      BY <2>1, StepOfMeaning
    <2>3. demand' = NextInterval(demand, DispatchResponse(reply').interval)
      BY <2>1, <2>2, BackoffInterval
    <2>4. reply' \in Responses
      BY <2>1 DEF Responses, Meanings
    <2>5. ~missed => NextInterval(interval, DispatchResponse(reply').interval) >= demand'
      <3> SUFFICES ASSUME ~missed
                   PROVE  NextInterval(interval, DispatchResponse(reply').interval) >= demand'
        OBVIOUS
      <3>1. interval >= demand /\ interval \in Nat /\ demand \in Nat
        BY <2>1 DEF PaceInv, TypeOK
      <3>2. DispatchResponse(reply').interval = None \/ DispatchResponse(reply').interval \in Int
        BY <2>4, DispatchSteps
      <3>3. NextInterval(demand, DispatchResponse(reply').interval)
              <= NextInterval(interval, DispatchResponse(reply').interval)
        BY <3>1, <3>2, NextIntervalMonotone
      <3>4. /\ NextInterval(demand, DispatchResponse(reply').interval) \in Nat
            /\ NextInterval(interval, DispatchResponse(reply').interval) \in Nat
        BY <3>1, <3>2, NextIntervalType
      <3>5. QED
        BY <2>3, <3>3, <3>4
    <2>6. reply' # None
      BY <2>4, PollAssumption
    <2>7. QED
      BY <2>1, <2>2, <2>5, <2>6 DEF PaceInv
  <1>6. CASE AnswerToken \/ AnswerRest
    <2>1. /\ reply = None /\ pc = "waiting" /\ UNCHANGED <<interval, missed, demand>>
          /\ \/ reply' \in Dialect["token"] \/ reply' \in Dialect["pending"]
             \/ reply' \in Dialect["denied"] \/ reply' \in Dialect["code_expired"]
             \/ reply' \in Dialect["garbage"]
      BY <1>6 DEF AnswerToken, AnswerRest, Answerable, Meant, ReplyInHand, client, history, server
    <2>2. DispatchResponse(reply').step # "backoff"
      BY <2>1, StepOfMeaning
    <2>3. QED
      BY <2>1, <2>2 DEF PaceInv
  <1>7. CASE FailTransport
    <2>1. /\ pc = "waiting" /\ reply' = None /\ UNCHANGED <<interval, demand>>
          /\ missed' = (missed \/ reply \in Dialect["slow_down"] \cup Dialect["token"])
      BY <1>7 DEF FailTransport, client, server
    <2>2. ~missed' => reply = None \/ DispatchResponse(reply).step # "backoff"
      <3> SUFFICES ASSUME reply # None, reply \notin Dialect["slow_down"],
                          reply \notin Dialect["token"]
                   PROVE  DispatchResponse(reply).step # "backoff"
        BY <2>1
      <3>1. PICK m \in Meanings \ {"slow_down", "token"} : reply \in Dialect[m]
        BY DEF TypeOK, Responses
      <3>2. QED
        BY <3>1, StepOfMeaning DEF Meanings
    <2>3. ~missed' => ~missed
      BY <2>1
    <2>4. QED
      BY <2>1, <2>2, <2>3 DEF PaceInv
  <1>8. QED
    BY <1>1, <1>2, <1>3, <1>4, <1>5, <1>6, <1>7 DEF Next, LoopStep, ServerStep, Ended

\* Every step keeps a verdict in hand the server's own.
LEMMA VerdictStep ==
    ASSUME DialectUnderstood
    PROVE  TypeOK /\ ReplyInHand /\ VerdictInv /\ [Next]_vars => VerdictInv'
  <1> SUFFICES ASSUME TypeOK, ReplyInHand, VerdictInv, [Next]_vars
               PROVE  VerdictInv'
    OBVIOUS
  <1>1. CASE Dispatched \/ GiveUp \/ FailTransport
    BY <1>1 DEF Dispatched, GiveUp, FailTransport, VerdictInv
  <1>2. CASE Tick \/ RequestFails \/ Authorized \/ EnterPoll \/ GoToSleep \/ WakeUp \/ Send
             \/ Receive \/ UNCHANGED vars
    <2>1. UNCHANGED <<reply, decision>>
      BY <1>2 DEF Tick, RequestFails, Authorized, EnterPoll, GoToSleep, WakeUp, Send, Receive,
                  vars, server
    <2>2. QED
      BY <2>1 DEF VerdictInv
  <1>3. CASE Decide
    <2>1. reply' = reply /\ decision \in {"undecided", "approved"}
      BY <1>3 DEF Decide
    <2>2. QED
      BY <2>1 DEF VerdictInv
  <1>4. CASE AnswerSlowDown \/ AnswerToken \/ AnswerRest
    <2>1. \/ reply' \in Dialect["slow_down"] \/ reply' \in Dialect["pending"]
          \/ reply' \in Dialect["garbage"]
          \/ reply' \in Dialect["token"] /\ decision' = "redeemed"
          \/ reply' \in Dialect["denied"] /\ decision' = "refused"
          \/ reply' \in Dialect["code_expired"] /\ decision' = "lapsed"
      BY <1>4 DEF AnswerSlowDown, AnswerToken, AnswerRest, Meant, server
    <2> DEFINE step == DispatchResponse(reply').step
    <2>2. \/ step \in {"backoff", "continue", "protocol", "invalid_hook"}
          \/ step = "success" /\ decision' = "redeemed"
          \/ step = "denied" /\ decision' = "refused"
          \/ step = "code_expired" /\ decision' = "lapsed"
      BY <2>1, StepOfMeaning
    <2>3. QED
      BY <2>2 DEF VerdictInv
  <1>5. QED
    BY <1>1, <1>2, <1>3, <1>4 DEF Next, LoopStep, ServerStep, Ended

\* Every step keeps the outcome honest: the verdict in hand is what the run ends with.
LEMMA HonestStep == TypeOK /\ ReplyInHand /\ VerdictInv /\ OutcomeHonest /\ [Next]_vars
                    => OutcomeHonest'
  <1> SUFFICES ASSUME TypeOK, ReplyInHand, VerdictInv, OutcomeHonest, [Next]_vars
               PROVE  OutcomeHonest'
    OBVIOUS
  <1>1. CASE Dispatched
    <2>1. /\ reply # None /\ decision' = decision
          /\ \/ DispatchResponse(reply).step = "success" /\ outcome' = "token"
             \/ outcome' = outcome
             \/ outcome' = DispatchResponse(reply).step /\ outcome' # "success"
      BY <1>1 DEF Dispatched, Finish, ReplyInHand, server, Verdicts
    <2>2. reply \in Responses
      BY <2>1 DEF TypeOK
    <2>3. DispatchResponse(reply).step # "token"
      BY <2>2, DispatchSteps
    <2>4. QED
      BY <2>1, <2>3 DEF VerdictInv, OutcomeHonest
  <1>2. CASE Decide
    <2>1. outcome' = outcome /\ decision \in {"undecided", "approved"}
      BY <1>2 DEF Decide, client
    <2>2. QED
      BY <2>1 DEF OutcomeHonest
  <1>3. CASE AnswerToken
    <2>1. outcome' = outcome /\ decision = "approved"
      BY <1>3 DEF AnswerToken, client
    <2>2. QED
      BY <2>1 DEF OutcomeHonest
  <1>4. CASE ~(Dispatched \/ Decide \/ AnswerToken)
    <2>1. decision' = decision
      BY <1>4 DEF Next, LoopStep, ServerStep, Ended, Tick, RequestFails, Authorized, EnterPoll,
                  GoToSleep, WakeUp, Send, Receive, GiveUp, AnswerSlowDown, AnswerRest,
                  FailTransport, vars, server
    <2>2. outcome' = outcome
             \/ outcome' \in {"config", "transport", "protocol", "panicked", "deadline"}
      BY <1>4 DEF Next, LoopStep, ServerStep, Ended, Tick, RequestFails, Authorized, EnterPoll,
                  GoToSleep, WakeUp, Send, Receive, GiveUp, AnswerSlowDown, AnswerRest,
                  FailTransport, vars, client, Finish
    <2>3. QED
      BY <2>1, <2>2 DEF OutcomeHonest
  <1>5. QED
    BY <1>1, <1>2, <1>3, <1>4

\* Every step keeps an issued token in hand until the run ends with it or at the deadline.
LEMMA TokenStep ==
    ASSUME DialectUnderstood
    PROVE  TypeOK /\ ReplyInHand /\ EndingInv /\ TokenInv /\ [Next]_vars => TokenInv'
  <1> SUFFICES ASSUME TypeOK, ReplyInHand, EndingInv, TokenInv, [Next]_vars
               PROVE  TokenInv'
    OBVIOUS
  <1>1. CASE Tick \/ Send \/ Receive \/ GoToSleep \/ WakeUp \/ UNCHANGED vars
    <2>1. UNCHANGED <<decision, missed, outcome, reply>>
      BY <1>1 DEF Tick, Send, Receive, GoToSleep, WakeUp, vars, client, server, history
    <2>2. QED
      BY <2>1 DEF TokenInv
  <1>2. CASE Decide
    BY <1>2 DEF Decide, TokenInv
  <1>3. CASE RequestFails \/ Authorized \/ EnterPoll
    <2>1. UNCHANGED <<decision, missed, reply>> /\ pc \in {"request", "shown"}
      BY <1>3 DEF RequestFails, Authorized, EnterPoll, server, history
    <2>2. outcome \notin {"token", "deadline"}
      BY <2>1, PollAssumption DEF EndingInv, Verdicts
    <2>3. QED
      BY <2>1, <2>2 DEF TokenInv
  <1>4. CASE Dispatched
    <2>1. UNCHANGED <<decision, missed>>
      BY <1>4 DEF Dispatched, server, history
    <2>2. DispatchResponse(reply).step = "success" => outcome' = "token"
      BY <1>4 DEF Dispatched, Finish, Verdicts
    <2>3. outcome \notin {"token", "deadline"}
      BY <1>4, PollAssumption DEF Dispatched, EndingInv, Verdicts
    <2>4. QED
      BY <2>1, <2>2, <2>3 DEF TokenInv
  <1>5. CASE GiveUp
    BY <1>5 DEF GiveUp, Finish, TokenInv
  <1>6. CASE AnswerSlowDown \/ AnswerRest
    <2>1. decision' = decision /\ missed' = missed /\ outcome' = outcome /\ reply = None
      BY <1>6 DEF AnswerSlowDown, AnswerRest, Answerable, ReplyInHand, client, server, history
    <2>2. QED
      BY <2>1 DEF TokenInv
  <1>7. CASE AnswerToken
    <2>1. reply' \in Dialect["token"]
      BY <1>7 DEF AnswerToken, Meant
    <2>2. reply' # None
      BY <2>1, PollAssumption DEF Responses, Meanings
    <2>3. QED
      BY <2>1, <2>2, StepOfMeaning DEF TokenInv
  <1>8. CASE FailTransport
    <2>1. /\ pc = "waiting" /\ UNCHANGED <<decision, outcome>>
          /\ missed' = (missed \/ reply \in Dialect["slow_down"] \cup Dialect["token"])
      BY <1>8 DEF FailTransport, client, server
    <2>2. outcome \notin {"token", "deadline"}
      BY <2>1, PollAssumption DEF EndingInv, Verdicts
    <2>3. reply \in Responses /\ DispatchResponse(reply).step = "success"
             => reply \in Dialect["token"]
      BY StepOfMeaning DEF Responses, Meanings
    <2>4. QED
      BY <2>1, <2>2, <2>3 DEF TokenInv, TypeOK
  <1>9. QED
    BY <1>1, <1>2, <1>3, <1>4, <1>5, <1>6, <1>7, <1>8 DEF Next, LoopStep, ServerStep, Ended

\* A run has a verdict exactly when it is over.
LEMMA EndingStep == TypeOK /\ ReplyInHand /\ EndingInv /\ [Next]_vars => EndingInv'
  <1> SUFFICES ASSUME TypeOK, ReplyInHand, EndingInv, [Next]_vars
               PROVE  EndingInv'
    OBVIOUS
  <1> USE PollAssumption DEF EndingInv, TypeOK
  <1>1. CASE Authorized
    BY <1>1 DEF Authorized, Finish, Verdicts
  <1>2. CASE RequestFails \/ EnterPoll \/ GiveUp
    BY <1>2 DEF RequestFails, EnterPoll, GiveUp, Finish, Verdicts, history
  <1>3. CASE Dispatched
    <2>1. pc = "dispatching" /\ outcome = None
      BY <1>3 DEF Dispatched
    <2>2. \/ pc' = "top" /\ outcome' = outcome
          \/ pc' = "done" /\ outcome' \in Verdicts
      BY <1>3 DEF Dispatched, Finish, Verdicts
    <2>3. outcome' # None <=> pc' = "done"
      BY <2>1, <2>2
    <2>4. QED
      BY <2>2, <2>3
  <1>4. CASE Tick \/ ServerStep \/ UNCHANGED vars
    <2>1. UNCHANGED <<pc, outcome, promised>>
      BY <1>4 DEF Tick, ServerStep, Decide, AnswerSlowDown, AnswerToken, AnswerRest,
                  FailTransport, vars, client, history
    <2>2. QED
      BY <2>1
  <1>5. CASE GoToSleep \/ WakeUp \/ Send \/ Receive
    BY <1>5 DEF GoToSleep, WakeUp, Send, Receive
  <1>6. QED
    BY <1>1, <1>2, <1>3, <1>4, <1>5 DEF Next, LoopStep, Ended


-----------------------------------------------------------------------------
(* The theorems.                                                           *)

\* What holds in every reachable state whatever the provider answers.
LoopInv == TypeOK /\ ReplyInHand /\ TimingInv /\ CountdownInv /\ EndingInv

\* The inductive invariant of the loop that no dialect is needed for: clock readings, countdown
\* and ending.
THEOREM LoopInvariant == Spec => []LoopInv
  <1>1. Init => LoopInv
    <2> SUFFICES ASSUME Init
                 PROVE  LoopInv
      OBVIOUS
    <2>1. now \in Nat /\ missed \in BOOLEAN
      <3>1. now \in Nat
        BY PollAssumption DEF Init
      <3>2. missed \in BOOLEAN
        BY DEF Init
      <3>3. QED
        BY <3>1, <3>2
    <2>2. TypeOK /\ ReplyInHand
      BY <2>1 DEF Init, TypeOK, ReplyInHand
    <2>3. TimingInv
      BY <2>1 DEF Init, TimingInv
    <2>4. CountdownInv /\ EndingInv
      BY DEF Init, CountdownInv, EndingInv
    <2>5. QED
      BY <2>2, <2>3, <2>4 DEF LoopInv
  <1>2. LoopInv /\ [Next]_vars => LoopInv'
    BY TypeStep, ReplyStep, TimingStep, CountdownStep, EndingStep DEF LoopInv
  <1>3. QED
    BY <1>1, <1>2, PTL DEF Spec

\* Only the step that sends a token request counts a poll.
LEMMA OnlySendPolls ==
    ASSUME [Next]_vars, polls' # polls
    PROVE  Send
  BY DEF Next, LoopStep, ServerStep, Ended, Tick, RequestFails, Authorized, EnterPoll, GoToSleep,
         WakeUp, Receive, Dispatched, GiveUp, Decide, AnswerSlowDown, AnswerToken, AnswerRest,
         FailTransport, vars, client

\* No poll is sent before a whole interval has passed since the last answer, whatever the
\* interval, the deadline and the delays of callbacks, hooks and responses.
THEOREM PollsAreSpaced == Spec => PollSpacing
  <1>1. LoopInv /\ [Next]_vars => [polls' # polls => now >= since + interval]_vars
    BY OnlySendPolls DEF Send, LoopInv, TimingInv
  <1>2. QED
    BY <1>1, LoopInvariant, PTL DEF Spec, PollSpacing

\* The countdown handed to on_user_code is the one the loop keeps: no poll and no token after
\* its last second, no giving up before it has run out.
THEOREM CountdownIsHonoured == Spec => CountdownHonoured
  <1>1. ASSUME LoopInv, [Next]_vars
        PROVE  /\ polls' # polls \/ (outcome' = "token" /\ outcome # "token")
                     => now < promised + Second
               /\ outcome' = "deadline" /\ outcome # "deadline" => now >= promised
    <2> USE <1>1 DEF LoopInv
    <2>1. CASE Send \/ Dispatched
      <3>1. pc \notin {"request", "done"} /\ Elapsed < deadline
        BY <2>1 DEF Send, Dispatched
      <3>2. promised # None /\ start + deadline < promised + Second /\ now < start + deadline
        BY <3>1 DEF CountdownInv, Elapsed, TypeOK
      <3>3. now < promised + Second
        BY <3>2, ScaleAssumption DEF TypeOK
      <3>4. outcome' = "deadline" => outcome = "deadline"
        <4>1. CASE Send
          BY <4>1 DEF Send
        <4>2. CASE Dispatched
          <5>1. reply \in Responses
            BY <4>2 DEF Dispatched, ReplyInHand, TypeOK
          <5>2. DispatchResponse(reply).step # "deadline"
            BY <5>1, DispatchSteps
          <5>3. QED
            BY <4>2, <5>2 DEF Dispatched, Finish
        <4>3. QED
          BY <2>1, <4>1, <4>2
      <3>5. QED
        BY <3>3, <3>4
    <2>2. CASE GiveUp
      <3>1. pc \notin {"request", "done"} /\ Elapsed >= deadline /\ outcome' = "deadline"
            /\ polls' = polls
        BY <2>2 DEF GiveUp, Finish
      <3>2. promised # None /\ promised <= start + deadline /\ now >= start + deadline
        BY <3>1 DEF CountdownInv, Elapsed, TypeOK
      <3>3. now >= promised
        BY <3>2 DEF TypeOK
      <3>4. QED
        BY <3>1, <3>3
    <2>3. CASE ~(Send \/ Dispatched \/ GiveUp)
      <3>1. polls' = polls
        BY <2>3, OnlySendPolls
      <3>2. outcome' = outcome \/ outcome' \in {"config", "transport", "protocol", "panicked"}
        BY <2>3 DEF Next, LoopStep, ServerStep, Ended, Tick, RequestFails, Authorized, EnterPoll,
                    GoToSleep, WakeUp, Receive, Decide, AnswerSlowDown, AnswerToken, AnswerRest,
                    FailTransport, vars, client, Finish
      <3>3. QED
        BY <3>1, <3>2
    <2>4. QED
      BY <2>1, <2>2, <2>3
  <1>2. QED
    BY <1>1, LoopInvariant, PTL DEF Spec, CountdownHonoured

\* What holds besides when the configuration understands the provider's dialect.
ProviderInv == PaceInv /\ VerdictInv /\ OutcomeHonest /\ TokenInv

\* The inductive invariant against a server whose dialect is understood: pace, verdict, outcome
\* and token.
THEOREM ProviderInvariant ==
    ASSUME DialectUnderstood
    PROVE  Spec => []ProviderInv
  <1>1. Init => ProviderInv
    <2> SUFFICES ASSUME Init
                 PROVE  ProviderInv
      OBVIOUS
    <2>1. PaceInv
      BY DEF Init, PaceInv
    <2>2. VerdictInv /\ TokenInv
      BY DEF Init, VerdictInv, TokenInv
    <2>3. OutcomeHonest
      BY PollAssumption DEF Init, OutcomeHonest, Verdicts
    <2>4. QED
      BY <2>1, <2>2, <2>3 DEF ProviderInv
  <1>2. LoopInv /\ ProviderInv /\ [Next]_vars => ProviderInv'
    BY PaceStep, VerdictStep, HonestStep, TokenStep DEF LoopInv, ProviderInv
  <1>3. QED
    BY <1>1, <1>2, LoopInvariant, PTL DEF Spec

\* What the caller is told is what the user decided at the server.
THEOREM OutcomeIsHonest ==
    ASSUME DialectUnderstood
    PROVE  Spec => []OutcomeHonest
  <1>1. ProviderInv => OutcomeHonest
    BY DEF ProviderInv
  <1>2. QED
    BY <1>1, ProviderInvariant, PTL

\* A token that was issued is discarded only at the deadline or by the network.
THEOREM TokenIsNotDiscarded ==
    ASSUME DialectUnderstood
    PROVE  Spec => []TokenNotDiscarded
  <1>1. LoopInv /\ ProviderInv => TokenNotDiscarded
    BY DEF LoopInv, ReplyInHand, TypeOK, ProviderInv, TokenInv, TokenNotDiscarded
  <1>2. QED
    BY <1>1, LoopInvariant, ProviderInvariant, PTL

\* The loop never polls faster than the server last asked for in an answer that arrived.
THEOREM PaceIsHonoured ==
    ASSUME DialectUnderstood
    PROVE  Spec => PaceHonoured
  <1>1. ASSUME LoopInv, ProviderInv, [Next]_vars, polls' # polls, ~missed
        PROVE  now >= since + demand
    <2>1. Send
      BY <1>1, OnlySendPolls
    <2>2. reply = None /\ pc = "preparing"
      BY <1>1, <2>1 DEF Send, LoopInv, ReplyInHand
    <2>3. interval >= demand /\ now >= since + interval
      BY <1>1, <2>2 DEF ProviderInv, PaceInv, LoopInv, TimingInv
    <2>4. QED
      BY <1>1, <2>3 DEF LoopInv, TypeOK
  <1>2. LoopInv /\ ProviderInv /\ [Next]_vars
          => [polls' # polls /\ ~missed => now >= since + demand]_vars
    BY <1>1
  <1>3. QED
    BY <1>2, LoopInvariant, ProviderInvariant, PTL DEF Spec, PaceHonoured

-----------------------------------------------------------------------------
(* The grant implements the abstract login.                                *)

\* Every behaviour of the grant is a behaviour of DeviceLogin, the limit being start + deadline
\* once it is announced.
THEOREM GrantImplementsLogin ==
    ASSUME DialectUnderstood
    PROVE  Spec => ImplementsLogin
  <1> USE DEF Login!Init, Login!Next, Login!vars
  <1>1. Init => Login!Init
    BY PollAssumption DEF Init
  <1>2. LoopInv /\ ProviderInv /\ OutcomeHonest' /\ LoopInv' /\ [Next]_vars
          => [Login!Next]_Login!vars
    <2> SUFFICES ASSUME LoopInv, LoopInv', ProviderInv, OutcomeHonest', Next
                 PROVE  [Login!Next]_Login!vars
      BY DEF vars, client, server, history
    <2>0. pc # "done" <=> outcome = None
      BY DEF LoopInv, EndingInv
    <2>1. CASE Tick
      <3>1. Login!Elapse
        BY <2>1, <2>0 DEF Tick, client, server, history, Login!Elapse
      <3>2. QED
        BY <3>1
    <2>2. CASE RequestFails
      <3>1. Login!Conclude
        BY <2>2, <2>0 DEF RequestFails, Finish, server, history, Login!Conclude, Login!Failures
      <3>2. QED
        BY <3>1
    <2>3. CASE Authorized
      <3>1. promised = None /\ outcome = None /\ pc = "request"
        BY <2>3, <2>0 DEF Authorized, LoopInv, EndingInv
      <3>2. UNCHANGED <<now, decision>> /\ start' = now
        BY <2>3 DEF Authorized
      <3>3. CASE Finish("panicked") /\ promised' = promised
        <4>1. Login!Conclude
          BY <3>1, <3>2, <3>3 DEF Finish, Login!Conclude, Login!Failures
        <4>2. QED
          BY <4>1
      <3>4. CASE ~(Finish("panicked") /\ promised' = promised)
        <4>1. pc' = "shown" /\ outcome' = outcome
          BY <2>3, <3>4 DEF Authorized
        <4>2. promised' # None
          BY <4>1 DEF LoopInv, CountdownInv
        <4>3. start' + deadline' \in Nat /\ start' + deadline' >= now
          <5>1. now \in Nat /\ start' \in Nat /\ deadline' \in Nat
            BY DEF LoopInv, TypeOK
          <5>2. QED
            BY <3>2, <5>1, LimitNotBefore
        <4>4. Login!Announce
          BY <3>1, <3>2, <4>1, <4>2, <4>3 DEF Login!Announce
        <4>5. QED
          BY <4>4
      <3>5. QED
        BY <3>3, <3>4
    <2>4. CASE EnterPoll
      <3>1. UNCHANGED <<now, start, deadline, promised, decision>> /\ outcome = None
        BY <2>4, <2>0 DEF EnterPoll, server, history
      <3>2. CASE outcome' = outcome
        BY <3>1, <3>2
      <3>3. CASE outcome' = "config"
        <4>1. Login!Conclude
          BY <3>1, <3>3 DEF Login!Conclude, Login!Failures
        <4>2. QED
          BY <4>1
      <3>4. QED
        BY <2>4, <3>2, <3>3 DEF EnterPoll, Finish
    <2>5. CASE GoToSleep \/ WakeUp \/ Send \/ Receive \/ AnswerSlowDown \/ AnswerRest
               \/ FailTransport \/ Ended
      BY <2>5 DEF GoToSleep, WakeUp, Send, Receive, AnswerSlowDown, AnswerRest, FailTransport,
                  Ended, vars, client, server, history
    <2>6. CASE Dispatched
      <3>1. /\ UNCHANGED <<now, start, deadline, promised, decision>>
            /\ pc = "dispatching" /\ Elapsed < deadline /\ reply # None
        BY <2>6 DEF Dispatched, server, history, LoopInv, ReplyInHand
      <3>2. outcome = None /\ promised # None /\ now < start + deadline
        BY <3>1, <2>0 DEF LoopInv, CountdownInv, Elapsed, TypeOK
      <3>3. reply \in Responses
        BY <3>1 DEF LoopInv, TypeOK
      <3>4. outcome' = outcome
               \/ outcome' \in {"token", "denied", "code_expired", "protocol", "invalid_hook"}
        BY <2>6, <3>3, DispatchSteps DEF Dispatched, Finish, Verdicts
      <3>5. start + deadline # None
        BY ScaleAssumption DEF LoopInv, TypeOK
      <3>6. outcome' \in {"token", "denied", "code_expired"} => Login!Conclude
        BY <3>1, <3>2, <3>5 DEF OutcomeHonest, Login!Conclude
      <3>7. outcome' \in {"protocol", "invalid_hook"} => Login!Conclude
        BY <3>1, <3>2 DEF Login!Conclude, Login!Failures
      <3>8. QED
        BY <3>1, <3>4, <3>6, <3>7
    <2>7. CASE GiveUp
      <3>1. /\ UNCHANGED <<now, start, deadline, promised, decision>>
            /\ pc \notin {"request", "done"} /\ Elapsed >= deadline /\ outcome' = "deadline"
        BY <2>7 DEF GiveUp, Finish, server, history
      <3>2. outcome = None /\ promised # None /\ now >= start + deadline
        BY <3>1, <2>0 DEF LoopInv, CountdownInv, Elapsed, TypeOK
      <3>3. start + deadline # None
        BY ScaleAssumption DEF LoopInv, TypeOK
      <3>4. Login!Conclude
        BY <3>1, <3>2, <3>3 DEF Login!Conclude
      <3>5. QED
        BY <3>4
    <2>8. CASE Decide \/ AnswerToken
      <3>1. /\ UNCHANGED <<now, start, deadline, promised, outcome>>
            /\ pc \notin {"request", "done"}
            /\ \/ decision = "undecided" /\ decision' \in {"approved", "refused", "lapsed"}
               \/ decision = "approved" /\ decision' \in {"lapsed", "redeemed"}
        BY <2>8 DEF Decide, AnswerToken, Answerable, client, history
      <3>2. outcome = None /\ promised # None
        BY <3>1, <2>0 DEF LoopInv, CountdownInv
      <3>3. start + deadline # None
        BY ScaleAssumption DEF LoopInv, TypeOK
      <3>4. Login!Decide
        BY <3>1, <3>2, <3>3 DEF Login!Decide
      <3>5. QED
        BY <3>4
    <2>9. QED
      BY <2>1, <2>2, <2>3, <2>4, <2>5, <2>6, <2>7, <2>8 DEF Next, LoopStep, ServerStep
  <1>3. QED
    BY <1>1, <1>2, LoopInvariant, OutcomeIsHonest, ProviderInvariant, PTL
       DEF Spec, ImplementsLogin, Login!Spec

===============================================================================
