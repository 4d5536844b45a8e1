--------------------------- MODULE HttpProxyProofs ---------------------------
(***************************************************************************)
(* What holds of one proxy call whatever the module, the inputs, the       *)
(* timeout and the period of the polling timer.                            *)
(***************************************************************************)
EXTENDS HttpProxy, TLAPS

------------------------------------------------------------------------------
(* Types *)

\* What a request is assembled from are names, so its parts are.
LEMMA AssembledType ==
    ASSUME NEW c \in Calls
    PROVE  Assembled(c) \in [path : SUBSET Names, query : SUBSET Names, json : SUBSET Names]
BY DEF Assembled, Entries, Calls

\* Ending keeps the types, for any result a call may have.
LEMMA EndKeepsTypes ==
    ASSUME TypeOK, NEW result \in Results \cup {"dropped"}, EndWith(result)
    PROVE  TypeOK'
BY NoneAssumption DEF TypeOK, EndWith, Stages, Results

\* Moving on keeps the types, to any place but the end and the last check.
LEMMA GotoKeepsTypes ==
    ASSUME TypeOK,
           NEW label \in {"check", "inner", "factory", "vet", "send", "tick", "parked"},
           pc # "ended", Goto(label)
    PROVE  TypeOK'
BY DEF TypeOK, Goto

\* Holding a result, or ending with it, keeps the types.
LEMMA ResolveKeepsTypes ==
    ASSUME TypeOK, NEW result \in Results, pc # "ended", Resolve(result)
    PROVE  TypeOK'
<1>1. CASE EndWith(result)
  BY <1>1, EndKeepsTypes
<1>2. CASE call.token /\ ~EndWith(result)
  BY <1>2, NoneAssumption DEF TypeOK, Resolve, Results
<1>3. QED BY <1>1, <1>2 DEF Resolve

\* What the network does to the request future keeps the types.
LEMMA NetworkKeepsTypes ==
    ASSUME TypeOK, NEW stage \in Stages, NEW status \in Statuses \cup {None},
           Network(stage, status)
    PROVE  TypeOK'
BY DEF TypeOK, Network

\* Every step keeps the types.
LEMMA TypeStep == TypeOK /\ [Next]_vars => TypeOK'
<1> SUFFICES ASSUME TypeOK, [Next]_vars PROVE TypeOK' OBVIOUS
<1>1. CASE Start \/ CheckFirst
  <2>1. pc # "ended" BY <1>1 DEF Start, CheckFirst
  <2>2. QED BY <1>1, <2>1, EndKeepsTypes, GotoKeepsTypes DEF Start, CheckFirst, Results
<1>2. CASE Prepare
  BY <1>2, ResolveKeepsTypes, GotoKeepsTypes DEF Prepare, Results
<1>3. CASE FactoryReturns \/ Vet
  BY <1>3, ResolveKeepsTypes, GotoKeepsTypes DEF FactoryReturns, Vet, Results
<1>4. CASE Send
  BY <1>4, AssembledType DEF Send, TypeOK, Stages
<1>5. CASE PollRequest
  BY <1>5, ResolveKeepsTypes, GotoKeepsTypes
     DEF PollRequest, Pend, Results, TypeOK, Stages
<1>6. CASE Recheck
  <2>1. ready \in Results BY <1>6 DEF Recheck, TypeOK
  <2>2. QED BY <1>6, <2>1, EndKeepsTypes DEF Recheck, Results
<1>7. CASE PollTick
  <2>1. PICK t \in 0 .. (now + TickPeriod) : tick' = [at |-> t, armed |-> TRUE]
    <3>1. CASE tick.at <= now
      <4>1. now + TickPeriod \in 0 .. (now + TickPeriod)
        BY ProxyAssumption DEF TypeOK
      <4>2. tick' = [at |-> now + TickPeriod, armed |-> TRUE]
        BY <1>7, <3>1 DEF PollTick, ResetTick
      <4>3. QED BY <4>1, <4>2
    <3>2. CASE ~(tick.at <= now)
      BY <1>7, <3>2 DEF PollTick, TypeOK
    <3>3. QED BY <3>1, <3>2
  <2>2. tick' \in [at : 0 .. (now + TickPeriod), armed : BOOLEAN]
    BY <2>1
  <2>3. QED BY <1>7, <2>2 DEF PollTick, TypeOK
<1>8. CASE Polled
  BY <1>8 DEF Polled, TypeOK
<1>9. CASE TickFires
  BY <1>9 DEF TickFires, TypeOK
<1>10. CASE TimeoutFires \/ HeadersArrive \/ BodyArrives \/ ConnectionFails
  <2>1. http.status \in Statuses \cup {None} BY DEF TypeOK
  <2>2. QED BY <1>10, <2>1, NetworkKeepsTypes
         DEF TimeoutFires, HeadersArrive, BodyArrives, ConnectionFails, Stages
<1>11. CASE Cancel
  BY <1>11 DEF Cancel, TypeOK
<1>12. CASE Drop
  BY <1>12, EndKeepsTypes DEF Drop
<1>13. CASE Advance
  BY <1>13, ProxyAssumption DEF Advance, TypeOK
<1>14. CASE Ended \/ UNCHANGED vars
  BY <1>14 DEF Ended, vars, TypeOK
<1>15. QED
  BY <1>1, <1>2, <1>3, <1>4, <1>5, <1>6, <1>7, <1>8, <1>9, <1>10, <1>11, <1>12,
     <1>13, <1>14 DEF Next, TaskStep

\* The types are right in every behaviour of a proxy call.
THEOREM TypeCorrect == Spec => []TypeOK
<1>1. Init => TypeOK
  <2> SUFFICES ASSUME Init PROVE TypeOK OBVIOUS
  <2>1. now \in 0 .. (MaxFactory + Timeout) BY ProxyAssumption DEF Init
  <2>2. http \in [stage : Stages, status : Statuses \cup {None}, sentAt : 0 .. now]
    BY DEF Init, Stages
  <2>3. tick \in [at : 0 .. (now + TickPeriod), armed : BOOLEAN]
    BY ProxyAssumption DEF Init
  <2>4. QED BY <2>1, <2>2, <2>3, NoneAssumption DEF Init, TypeOK
<1>2. QED BY <1>1, TypeStep, PTL DEF Spec

------------------------------------------------------------------------------
(* The token *)

\* Only a call with a token is ever cancelled, and between the first check of a
\* poll and its parking no time passes that the second check does not see.
FreshCancel ==
    /\ ~call.token => cancelled = None
    /\ cancelled # None /\ pc \in {"inner", "send", "tick"} => cancelled.at = now

\* Every step keeps FreshCancel.
LEMMA FreshStep == TypeOK /\ FreshCancel /\ [Next]_vars => FreshCancel'
<1> SUFFICES ASSUME TypeOK, FreshCancel, [Next]_vars PROVE FreshCancel' OBVIOUS
<1> USE DEF FreshCancel
<1>1. CASE Start \/ CheckFirst
  BY <1>1 DEF Start, CheckFirst, EndWith, Goto
<1>2. CASE Prepare
  BY <1>2 DEF Prepare, Resolve, EndWith, Goto
<1>3. CASE FactoryReturns \/ Vet
  BY <1>3 DEF FactoryReturns, Vet, Resolve, EndWith, Goto
<1>4. CASE Send
  BY <1>4 DEF Send
<1>5. CASE PollRequest
  BY <1>5 DEF PollRequest, Pend, Resolve, EndWith, Goto
<1>6. CASE Recheck \/ Drop
  BY <1>6 DEF Recheck, Drop, EndWith
<1>7. CASE PollTick \/ Polled
  BY <1>7 DEF PollTick, Polled
<1>8. CASE TickFires \/ TimeoutFires \/ HeadersArrive \/ BodyArrives \/ ConnectionFails
  BY <1>8 DEF TickFires, TimeoutFires, HeadersArrive, BodyArrives, ConnectionFails, Network
<1>9. CASE Cancel
  BY <1>9 DEF Cancel
<1>10. CASE Advance
  BY <1>10 DEF Advance
<1>11. CASE Ended \/ UNCHANGED vars
  BY <1>11 DEF Ended, vars
<1>12. QED
  BY <1>1, <1>2, <1>3, <1>4, <1>5, <1>6, <1>7, <1>8, <1>9, <1>10, <1>11 DEF Next, TaskStep

\* A parked call with a token has its timer armed, or is about to be polled, and
\* the timer lies no further than a period after the cancellation.
ArmedInv ==
    /\ pc = "parked" /\ call.token => tick.armed \/ woken
    /\ pc = "parked" /\ cancelled # None =>
         now <= cancelled.at + TickPeriod /\ tick.at <= cancelled.at + TickPeriod

\* A step that neither parks the call nor touches the clock, the token, the
\* timer or the parked call keeps ArmedInv.
LEMMA ElsewhereKeepsArmed == pc' # "parked" => ArmedInv'
BY DEF ArmedInv

\* Every step keeps ArmedInv.
LEMMA ArmedStep == TypeOK /\ FreshCancel /\ ArmedInv /\ [Next]_vars => ArmedInv'
<1> SUFFICES ASSUME TypeOK, FreshCancel, ArmedInv, [Next]_vars, pc' = "parked"
             PROVE  ArmedInv'
  BY ElsewhereKeepsArmed
<1>1. CASE Send \/ PollRequest
  BY <1>1 DEF Send, PollRequest, Pend, Resolve, EndWith, Goto, ArmedInv, FreshCancel
<1>2. CASE PollTick
  <2>1. tick'.armed BY <1>2 DEF PollTick, ResetTick, TypeOK
  <2>2. cancelled # None => now' = cancelled'.at BY <1>2 DEF PollTick, FreshCancel
  <2>3. tick'.at <= now' + TickPeriod
    BY <1>2, ProxyAssumption DEF PollTick, ResetTick, TypeOK
  <2>4. cancelled' # None => cancelled'.at \in Nat BY <1>2 DEF PollTick, TypeOK
  <2>5. cancelled' = cancelled BY <1>2 DEF PollTick
  <2>6. QED BY <2>1, <2>2, <2>3, <2>4, <2>5, ProxyAssumption DEF ArmedInv
<1>3. CASE TickFires
  BY <1>3 DEF TickFires, ArmedInv, TypeOK
<1>4. CASE TimeoutFires \/ HeadersArrive \/ BodyArrives \/ ConnectionFails
  BY <1>4 DEF TimeoutFires, HeadersArrive, BodyArrives, ConnectionFails, Network, ArmedInv
<1>5. CASE Cancel
  BY <1>5, ProxyAssumption DEF Cancel, ArmedInv, TypeOK
<1>6. CASE Advance
  <2>1. pc = "parked" /\ ~woken /\ ~TickDue BY <1>6 DEF Advance
  <2>2. CASE cancelled = None BY <1>6, <2>1, <2>2 DEF Advance, ArmedInv
  <2>3. CASE cancelled # None
    <3>1. call.token BY <2>3 DEF FreshCancel, TypeOK, Calls
    <3>2. now < tick.at BY <2>1, <3>1 DEF ArmedInv, TickDue, TypeOK
    <3>3. cancelled.at \in Nat BY <2>3 DEF TypeOK
    <3>4. now + 1 <= cancelled.at + TickPeriod
      BY <2>1, <2>3, <3>2, <3>3, ProxyAssumption DEF ArmedInv, TypeOK
    <3>5. QED BY <1>6, <2>1, <3>4 DEF Advance, ArmedInv
  <2>4. QED BY <2>2, <2>3
<1>7. CASE Ended \/ UNCHANGED vars
  BY <1>7 DEF Ended, vars, ArmedInv
<1>8. CASE Start \/ CheckFirst \/ Prepare \/ FactoryReturns \/ Vet \/ Recheck
           \/ Polled \/ Drop
  BY <1>8 DEF Start, CheckFirst, Prepare, FactoryReturns, Vet, Recheck, Polled, Drop,
              Resolve, EndWith, Goto
<1>9. QED BY <1>1, <1>2, <1>3, <1>4, <1>5, <1>6, <1>7, <1>8 DEF Next, TaskStep

\* A cancelled call never lies idle for more than one period of its timer.
THEOREM CancelIsPrompt == Spec => []CancelPrompt
<1>1. Init => FreshCancel /\ ArmedInv
  BY DEF Init, FreshCancel, ArmedInv
<1>2. ArmedInv => CancelPrompt
  BY DEF ArmedInv, CancelPrompt
<1>3. QED BY <1>1, <1>2, TypeCorrect, FreshStep, ArmedStep, PTL DEF Spec

\* A result other than the cancellation is returned by a step only if the token
\* was not cancelled.
LEMMA WinsStep ==
    TypeOK /\ FreshCancel /\ [Next]_vars =>
        [outcome = None /\ outcome' \in Results \ {"cancelled"} => cancelled = None]_vars
<1> SUFFICES ASSUME TypeOK, FreshCancel, Next, outcome' \in Results \ {"cancelled"},
                    outcome = None
             PROVE  cancelled = None
  OBVIOUS
<1>0. outcome' # outcome BY NoneAssumption
<1>1. CASE Start \/ CheckFirst
  BY <1>0, <1>1 DEF Start, CheckFirst, EndWith, Goto
<1>2. CASE Prepare
  BY <1>0, <1>2 DEF Prepare, Resolve, EndWith, Goto, FreshCancel
<1>3. CASE FactoryReturns \/ Vet
  BY <1>0, <1>3 DEF FactoryReturns, Vet, Resolve, EndWith, Goto, FreshCancel
<1>4. CASE PollRequest
  BY <1>0, <1>4 DEF PollRequest, Pend, Resolve, EndWith, Goto, FreshCancel
<1>5. CASE Recheck
  BY <1>0, <1>5 DEF Recheck, EndWith
<1>6. CASE Drop
  BY <1>0, <1>6 DEF Drop, EndWith, Results
<1>7. CASE TimeoutFires \/ HeadersArrive \/ BodyArrives \/ ConnectionFails
  BY <1>0, <1>7 DEF TimeoutFires, HeadersArrive, BodyArrives, ConnectionFails, Network
<1>8. CASE Send \/ PollTick \/ Polled \/ TickFires \/ Cancel \/ Advance \/ Ended
  BY <1>0, <1>8 DEF Send, PollTick, Polled, TickFires, Cancel, Advance, Ended, vars
<1>9. QED BY <1>1, <1>2, <1>3, <1>4, <1>5, <1>6, <1>7, <1>8 DEF Next, TaskStep

\* Cancellation wins over every result.
THEOREM CancellationWins == Spec => CancelWins
<1>1. Init => FreshCancel
  BY DEF Init, FreshCancel
<1>2. QED BY <1>1, TypeCorrect, FreshStep, WinsStep, PTL DEF Spec, CancelWins

------------------------------------------------------------------------------
(* The request *)

\* A token cancelled in time is seen before the request goes out, and what goes
\* out is what was assembled for a path with no placeholder open.
SendInv ==
    /\ cancelled # None /\ cancelled.unsent => request = None /\ pc # "send"
    /\ pc \in {"factory", "vet", "send"} => Unfilled(call) = {}
    /\ request # None => request = Assembled(call) /\ Unfilled(call) = {}

\* Every step keeps SendInv.
LEMMA SendStep == TypeOK /\ FreshCancel /\ SendInv /\ [Next]_vars => SendInv'
<1> SUFFICES ASSUME TypeOK, FreshCancel, SendInv, [Next]_vars PROVE SendInv' OBVIOUS
<1> USE DEF SendInv, Unfilled, Assembled, Entries
<1>1. CASE Start \/ CheckFirst
  BY <1>1 DEF Start, CheckFirst, EndWith, Goto
<1>2. CASE Prepare
  BY <1>2 DEF Prepare, Resolve, EndWith, Goto
<1>3. CASE FactoryReturns \/ Vet
  BY <1>3 DEF FactoryReturns, Vet, Resolve, EndWith, Goto, FreshCancel
<1>4. CASE Send
  BY <1>4 DEF Send
<1>5. CASE PollRequest
  BY <1>5 DEF PollRequest, Pend, Resolve, EndWith, Goto
<1>6. CASE Recheck \/ Drop
  BY <1>6 DEF Recheck, Drop, EndWith
<1>7. CASE PollTick \/ Polled
  BY <1>7 DEF PollTick, Polled
<1>8. CASE TickFires \/ TimeoutFires \/ HeadersArrive \/ BodyArrives \/ ConnectionFails
  BY <1>8 DEF TickFires, TimeoutFires, HeadersArrive, BodyArrives, ConnectionFails, Network
<1>9. CASE Cancel
  BY <1>9 DEF Cancel
<1>10. CASE Advance
  BY <1>10 DEF Advance
<1>11. CASE Ended \/ UNCHANGED vars
  BY <1>11 DEF Ended, vars
<1>12. QED
  BY <1>1, <1>2, <1>3, <1>4, <1>5, <1>6, <1>7, <1>8, <1>9, <1>10, <1>11 DEF Next, TaskStep

\* The parts of an assembled request divide the inputs among them.
LEMMA AssembledDivides ==
    ASSUME NEW c \in Calls, Unfilled(c) = {}
    PROVE  /\ Assembled(c).path = c.params
           /\ Assembled(c).path \cup Assembled(c).query \cup Assembled(c).json
                = Entries(c.inputs)
           /\ Assembled(c).query \cap Assembled(c).json = {}
           /\ (Assembled(c).query \cup Assembled(c).json) \cap Assembled(c).path = {}
<1> DEFINE all == Entries(c.inputs)
           rest == all \ c.params
<1>1. c.params \subseteq all BY DEF Unfilled
<1>2. Assembled(c).path = all \cap c.params BY DEF Assembled
<1>3. CASE c.method \in BodyMethods
  <2>1. Assembled(c).query = {} /\ Assembled(c).json = rest
    BY <1>3 DEF Assembled, JsonMethods, BodyMethods
  <2>2. QED BY <1>1, <1>2, <2>1
<1>4. CASE c.method \notin BodyMethods
  <2>1. Assembled(c).query = rest /\ Assembled(c).json = {} BY <1>4 DEF Assembled
  <2>2. QED BY <1>1, <1>2, <2>1
<1>5. QED BY <1>3, <1>4

\* A token cancelled before the request was handed to the client keeps it unsent.
THEOREM CancelledIsNotSent == Spec => []NothingSentOnceCancelled
<1>1. Init => FreshCancel /\ SendInv
  BY DEF Init, FreshCancel, SendInv
<1>2. SendInv => NothingSentOnceCancelled
  BY DEF SendInv, NothingSentOnceCancelled
<1>3. QED BY <1>1, <1>2, TypeCorrect, FreshStep, SendStep, PTL DEF Spec

\* Every input is sent exactly once, and no placeholder is left open.
THEOREM InputsAreForwarded == Spec => []InputsForwarded
<1>1. Init => FreshCancel /\ SendInv
  BY DEF Init, FreshCancel, SendInv
<1>2. TypeOK /\ SendInv => InputsForwarded
  <2> SUFFICES ASSUME TypeOK, SendInv, request # None PROVE InputsForwarded
    BY DEF InputsForwarded
  <2>1. request = Assembled(call) /\ Unfilled(call) = {} /\ call \in Calls
    BY DEF SendInv, TypeOK
  <2>2. QED BY <2>1, AssembledDivides DEF InputsForwarded
<1>3. QED BY <1>1, <1>2, TypeCorrect, FreshStep, SendStep, PTL DEF Spec
==============================================================================
