--------------------------- MODULE TokenClientProofs ---------------------------
(***************************************************************************)
(* What holds of the credential's life whatever the calls, the clients,    *)
(* the lifetimes and the bounds.                                           *)
(***************************************************************************)
EXTENDS TokenClient, TLAPS

------------------------------------------------------------------------------
(* Types                                                                   *)

\* Records stay records as more responses are issued.
LEMMA RecordsGrow ==
    ASSUME issued \in Nat, issued' \in Nat, issued <= issued'
    PROVE  /\ Records \subseteq Records'
           /\ 1 .. issued \subseteq 1 .. issued'
<1>1. 1 .. issued \subseteq 1 .. issued' OBVIOUS
<1>2. QED BY <1>1 DEF Records

\* A response that carries a token makes a record.
LEMMA NewRecord ==
    ASSUME issued \in Nat, issued' = issued + 1, NEW r \in {issued + 1, None},
           NEW e \in Int \cup {None}
    PROVE  /\ [access |-> issued + 1, refresh |-> r, expires |-> e] \in Records'
           /\ [access |-> issued + 1, refresh |-> r, expires |-> e] # None
<1>1. issued + 1 \in 1 .. issued' OBVIOUS
<1>2. QED BY <1>1, ClientAssumption DEF Records

\* A record is never taken for none.
LEMMA RecordsAreThere ==
    ASSUME issued \in Nat, NEW record \in Records
    PROVE  record # None
<1>1. 1 .. issued \subseteq Int OBVIOUS
<1>2. record \in [access : Int, refresh : Int \cup {None}, expires : Int \cup {None}]
  BY <1>1 DEF Records
<1>3. QED BY <1>2, ClientAssumption

\* An expiry is a time or none.
LEMMA ExpiryTyped ==
    ASSUME now \in Nat, NEW l \in Int \cup {None}
    PROVE  ExpiresAt(l) \in Int \cup {None}
BY DEF ExpiresAt

LEMMA LifetimesTyped == Lifetimes \subseteq Int \cup {None}
BY ClientAssumption

\* What a call presents is None or the refresh token of a response.
LEMMA PresentedTyped ==
    ASSUME TypeOK, NEW c \in Calls
    PROVE  Presented(c) \in (1 .. issued) \cup {None}
BY DEF TypeOK, Presented, Refresh, Records

\* A call that returns leaves no trace among the locals.
LEMMA ReturnTyped ==
    ASSUME TypeOK, NEW c \in Calls, Return(c)
    PROVE  /\ pc' \in [Calls -> Places] /\ op' \in [Calls -> Operations \cup {None}]
           /\ stored' \in [Calls -> Records \cup {None}]
           /\ tokens' \in [Calls -> Records \cup {None}]
           /\ \A d \in Calls \ {c} : /\ pc'[d] = pc[d] /\ op'[d] = op[d]
                                     /\ stored'[d] = stored[d] /\ tokens'[d] = tokens[d]
           /\ pc'[c] = "idle" /\ op'[c] = None /\ stored'[c] = None /\ tokens'[c] = None
BY DEF TypeOK, Return, Goto, Places

\* What a death takes from the calls of a client.
LEMMA CrashTyped ==
    ASSUME TypeOK, NEW cl \in Clients, Crash(cl)
    PROVE  \A d \in Calls :
             \/ /\ pc'[d] = pc[d] /\ op'[d] = op[d]
                /\ stored'[d] = stored[d] /\ tokens'[d] = tokens[d]
             \/ pc'[d] = "idle" /\ op'[d] = None /\ stored'[d] = None /\ tokens'[d] = None
BY DEF TypeOK, Crash

\* What a call carries is known to the server.
LEMMA AbandonTyped ==
    ASSUME TypeOK, NEW S \in SUBSET Calls
    PROVE  {Presented(c) : c \in {d \in S : Carrying(d)}} \subseteq 1 .. issued
BY PresentedTyped DEF Carrying

\* The lists of locals and of what a call may need of them, from one step to the next.
LEMMA TypeStep == TypeOK /\ [Next]_vars => TypeOK'
<1> SUFFICES ASSUME TypeOK, [Next]_vars PROVE TypeOK' OBVIOUS
<1> USE ClientAssumption
<1>1. CASE Tick
  <2>1. now' \in Nat /\ UNCHANGED <<store, cached, pc, locals, server, history>>
    BY <1>1 DEF Tick, TypeOK
  <2>2. QED BY <2>1 DEF TypeOK, Records, locals, server, history, Presented, Refresh
<1>2. CASE Withdraw
  BY <1>2 DEF Withdraw, TypeOK, Records, locals, Presented, Refresh
<1>3. ASSUME NEW c \in Calls, Start(c) PROVE TypeOK'
  <2>1. pc' \in [Calls -> Places] /\ op' \in [Calls -> Operations \cup {None}]
    BY <1>3 DEF Start, Goto, TypeOK, Places
  <2>2. pc'[c] \in {"acquire", "clear", "load"} /\ \A d \in Calls \ {c} : pc'[d] = pc[d]
    BY <1>3 DEF Start, Goto, TypeOK
  <2>3. QED BY <1>3, <2>1, <2>2 DEF Start, TypeOK, Records, server, history, Presented, Refresh
<1>4. ASSUME NEW c \in Calls, Acquire(c) PROVE TypeOK'
  <2>1. CASE Return(c) /\ UNCHANGED server
    <3>1. UNCHANGED <<now, store, cached, history, server>> BY <1>4, <2>1 DEF Acquire
    <3>2. QED BY <2>1, <3>1, ReturnTyped DEF TypeOK, Records, server, history, Presented, Refresh
  <2>2. CASE issued' = issued + 1
    <3>1. PICK l \in Lifetimes, r \in {issued + 1, None} :
            /\ tokens' = [tokens EXCEPT ![c] = [access |-> issued + 1, refresh |-> r,
                                                expires |-> ExpiresAt(l)]]
            /\ live' = live \cup ({r} \ {None})
      BY <1>4, <2>2 DEF Acquire, server, TypeOK
    <3>2. issued \in Nat /\ issued' \in Nat BY <2>2 DEF TypeOK
    <3>3. Records \subseteq Records' /\ 1 .. issued \subseteq 1 .. issued'
      BY <2>2, <3>2, RecordsGrow
    <3>4. /\ [access |-> issued + 1, refresh |-> r, expires |-> ExpiresAt(l)] \in Records'
          /\ [access |-> issued + 1, refresh |-> r, expires |-> ExpiresAt(l)] # None
      BY <2>2, <3>2, NewRecord, ExpiryTyped, LifetimesTyped DEF TypeOK
    <3>5. /\ pc' = [pc EXCEPT ![c] = "save"]
          /\ UNCHANGED <<now, store, cached, op, stored, abandoned, persisted>>
      BY <1>4, <2>2, <3>2 DEF Acquire, Goto, server, history
    <3>6. tokens' \in [Calls -> Records' \cup {None}] /\ tokens'[c] # None
             /\ \A d \in Calls \ {c} : tokens'[d] = tokens[d]
      BY <3>1, <3>3, <3>4 DEF TypeOK
    <3>7. live' \subseteq 1 .. issued'
      <4>1. issued + 1 \in 1 .. issued' BY <2>2, <3>2
      <4>2. live \subseteq 1 .. issued BY DEF TypeOK
      <4>3. QED BY <3>1, <3>3, <4>1, <4>2
    <3>8. pc' \in [Calls -> Places] BY <3>5 DEF TypeOK, Places
    <3>9. \A d \in Calls : /\ pc'[d] \in {"request", "granted"} => Presented(d)' # None
                           /\ pc'[d] \in {"granted", "save", "cache"} => tokens'[d] # None
      BY <3>5, <3>6 DEF TypeOK, Presented, Refresh
    <3>10. QED BY <3>2, <3>3, <3>5, <3>6, <3>7, <3>8, <3>9 DEF TypeOK
  <2>3. QED BY <1>4, <2>1, <2>2 DEF Acquire
<1>5. ASSUME NEW c \in Calls, Load(c) PROVE TypeOK'
  <2>1. CASE Return(c)
    BY <1>5, <2>1, ReturnTyped DEF Load, TypeOK, Records, server, history, Presented, Refresh
  <2>2. CASE stored' = [stored EXCEPT ![c] = store] /\ Goto(c, "loaded") /\ UNCHANGED <<op, tokens>>
    BY <1>5, <2>2 DEF Load, Goto, Places, TypeOK, Records, server, history, Presented, Refresh
  <2>3. QED BY <1>5, <2>1, <2>2 DEF Load
<1>6. ASSUME NEW c \in Calls, ReturnStored(c) PROVE TypeOK'
  <2>1. stored[c] # None BY <1>6 DEF ReturnStored, Usable
  <2>2. QED BY <1>6, <2>1
             DEF ReturnStored, Goto, Places, TypeOK, Records, server, history, Presented, Refresh
<1>7. ASSUME NEW c \in Calls, Exchange(c) PROVE TypeOK'
  <2>1. CASE Return(c)
    BY <1>7, <2>1, ReturnTyped DEF Exchange, TypeOK, Records, server, history, Presented, Refresh
  <2>2. CASE Presented(c) # None /\ Goto(c, "request") /\ UNCHANGED locals
    BY <1>7, <2>2
    DEF Exchange, Goto, Places, TypeOK, Records, locals, server, history, Presented, Refresh
  <2>3. QED BY <1>7, <2>1, <2>2 DEF Exchange
<1>8. ASSUME NEW c \in Calls, Logout(c) PROVE TypeOK'
  BY <1>8 DEF Logout, Goto, Places, TypeOK, Records, locals, server, history, Presented, Refresh
<1>9. ASSUME NEW c \in Calls, Revoke(c) PROVE TypeOK'
  <2>1. live' \subseteq 1 .. issued /\ abandoned' \subseteq 1 .. issued
    BY <1>9, PresentedTyped DEF Revoke, TypeOK
  <2>2. QED BY <1>9, <2>1
             DEF Revoke, Goto, Places, TypeOK, Records, locals, Presented, Refresh
<1>10. ASSUME NEW c \in Calls, Receive(c) PROVE TypeOK'
  <2>1. tokens[c] \in Records BY <1>10 DEF Receive, TypeOK
  <2>2. [tokens[c] EXCEPT !.expires = ExpiresAt(tokens[c].expires)] \in Records
    <3>1. ExpiresAt(tokens[c].expires) \in Int \cup {None}
      BY <2>1, ExpiryTyped DEF TypeOK, Records
    <3>2. QED BY <2>1, <3>1 DEF Records
  <2>3. tokens' = [tokens EXCEPT ![c] = [tokens[c] EXCEPT !.expires = ExpiresAt(tokens[c].expires)]]
    BY <1>10, <2>1 DEF Receive, TypeOK
  <2>4. /\ tokens' \in [Calls -> Records \cup {None}] /\ tokens'[c] # None
        /\ \A d \in Calls \ {c} : tokens'[d] = tokens[d]
    <3>1. [tokens[c] EXCEPT !.expires = ExpiresAt(tokens[c].expires)] # None
      BY <2>2, RecordsAreThere DEF TypeOK
    <3>2. QED BY <2>2, <2>3, <3>1 DEF TypeOK
  <2>5. QED BY <1>10, <2>4
             DEF Receive, Goto, Places, TypeOK, Records, server, history, Presented, Refresh
<1>11. ASSUME NEW c \in Calls, Save(c) PROVE TypeOK'
  <2>1. tokens[c] \in Records BY <1>11 DEF Save, TypeOK
  <2>2. tokens[c].access \in 1 .. issued BY <2>1 DEF Records
  <2>3. CASE store' = tokens[c]
    <3>1. CASE Return(c)
      <4>1. abandoned' \subseteq 1 .. issued /\ persisted' \subseteq 1 .. issued
        BY <1>11, <2>2, AbandonTyped DEF Save, Abandon, TypeOK, locals
      <4>2. QED
        BY <1>11, <2>1, <2>3, <3>1, <4>1, ReturnTyped
        DEF Save, TypeOK, Records, server, Presented, Refresh
    <3>2. CASE Goto(c, "cache") /\ UNCHANGED <<locals, abandoned>>
      BY <1>11, <3>2, <2>1, <2>2, <2>3
      DEF Save, Goto, Places, TypeOK, Records, server, locals, Presented, Refresh
    <3>3. QED BY <1>11, <3>1, <3>2 DEF Save
  <2>4. CASE Return(c) /\ Abandon({c}) /\ UNCHANGED <<store, persisted>>
    <3>1. abandoned' \subseteq 1 .. issued
      BY <2>4, AbandonTyped DEF Abandon, TypeOK
    <3>2. QED
      BY <1>11, <2>4, <3>1, ReturnTyped DEF Save, TypeOK, Records, server, Presented, Refresh
  <2>5. QED BY <1>11, <2>3, <2>4 DEF Save
<1>12. ASSUME NEW c \in Calls, Cache(c) \/ Uncache(c) PROVE TypeOK'
  <2>1. /\ Return(c) /\ UNCHANGED <<now, store, server, history>>
        /\ cached' \in [Clients -> Records \cup {None}]
    BY <1>12 DEF Cache, Uncache, SetCached, TypeOK
  <2>2. QED BY <2>1, ReturnTyped DEF TypeOK, Records, server, history, Presented, Refresh
<1>13. ASSUME NEW c \in Calls, Clear(c) PROVE TypeOK'
  <2>1. CASE Return(c)
    BY <1>13, <2>1, ReturnTyped DEF Clear, TypeOK, Records, server, history, Presented, Refresh
  <2>2. CASE Goto(c, "uncache") /\ UNCHANGED locals
    BY <1>13, <2>2 DEF Clear, Goto, Places, TypeOK, Records, locals, server, history, Presented, Refresh
  <2>3. QED BY <1>13, <2>1, <2>2 DEF Clear
<1>14. ASSUME NEW c \in Calls, Grant(c) PROVE TypeOK'
  <2>1. PICK l \in Lifetimes, r \in {issued + 1, None} :
          /\ tokens' = [tokens EXCEPT ![c] = [access |-> issued + 1, refresh |-> r, expires |-> l]]
          /\ live' = IF r = None THEN live ELSE (live \ {Presented(c)}) \cup {r}
    BY <1>14 DEF Grant
  <2>2. issued \in Nat /\ issued' = issued + 1 /\ issued' \in Nat BY <1>14 DEF Grant, TypeOK
  <2>3. Records \subseteq Records' /\ 1 .. issued \subseteq 1 .. issued' BY <2>2, RecordsGrow
  <2>4. /\ [access |-> issued + 1, refresh |-> r, expires |-> l] \in Records'
        /\ [access |-> issued + 1, refresh |-> r, expires |-> l] # None
    BY <2>2, NewRecord, LifetimesTyped
  <2>5. pc' = [pc EXCEPT ![c] = "granted"] /\ UNCHANGED <<now, store, cached, op, stored, abandoned, persisted>>
    BY <1>14 DEF Grant, Goto, history
  <2>6. tokens' \in [Calls -> Records' \cup {None}] /\ tokens'[c] # None
           /\ \A d \in Calls \ {c} : tokens'[d] = tokens[d]
    BY <2>1, <2>3, <2>4 DEF TypeOK
  <2>7. live' \subseteq 1 .. issued'
    <3>1. issued + 1 \in 1 .. issued' BY <2>2
    <3>2. live \subseteq 1 .. issued BY DEF TypeOK
    <3>3. QED BY <2>1, <2>3, <3>1, <3>2
  <2>8. \A d \in Calls : /\ pc'[d] \in {"request", "granted"} => Presented(d)' # None
                         /\ pc'[d] \in {"granted", "save", "cache"} => tokens'[d] # None
    BY <1>14, <2>5, <2>6 DEF Grant, TypeOK, Presented, Refresh
  <2>9. pc' \in [Calls -> Places] BY <2>5 DEF TypeOK, Places
  <2>10. QED BY <2>2, <2>3, <2>5, <2>6, <2>7, <2>8, <2>9 DEF TypeOK
<1>15. ASSUME NEW c \in Calls, Refuse(c) PROVE TypeOK'
  <2>1. CASE Return(c)
    BY <1>15, <2>1, ReturnTyped DEF Refuse, TypeOK, Records, server, history, Presented, Refresh
  <2>2. CASE Goto(c, "clear") /\ UNCHANGED locals
    BY <1>15, <2>2 DEF Refuse, Goto, Places, TypeOK, Records, locals, server, history, Presented, Refresh
  <2>3. QED BY <1>15, <2>1, <2>2 DEF Refuse
<1>16. ASSUME NEW c \in Calls, Lose(c) PROVE TypeOK'
  <2>1. abandoned' \subseteq 1 .. issued
    BY <1>16, AbandonTyped DEF Lose, Abandon, TypeOK
  <2>2. QED BY <1>16, <2>1, ReturnTyped DEF Lose, TypeOK, Records, server, Presented, Refresh
<1>17. ASSUME NEW cl \in Clients, Crash(cl) PROVE TypeOK'
  <2>1. abandoned' \subseteq 1 .. issued
    BY <1>17, AbandonTyped DEF Crash, Abandon, TypeOK
  <2>2. /\ pc' \in [Calls -> Places] /\ op' \in [Calls -> Operations \cup {None}]
        /\ stored' \in [Calls -> Records \cup {None}]
        /\ tokens' \in [Calls -> Records \cup {None}]
        /\ cached' \in [Clients -> Records \cup {None}]
    BY <1>17 DEF Crash, TypeOK, Places
  <2>3. \A d \in Calls : /\ pc'[d] \in {"request", "granted"} => Presented(d)' # None
                         /\ pc'[d] \in {"granted", "save", "cache"} => tokens'[d] # None
    BY <1>17, CrashTyped DEF TypeOK, Presented, Refresh
  <2>4. QED BY <1>17, <2>1, <2>2, <2>3 DEF Crash, TypeOK, Records, server
<1>18. CASE UNCHANGED vars
  BY <1>18 DEF vars, locals, server, history, TypeOK, Records, Presented, Refresh
<1>19. QED
  BY <1>1, <1>2, <1>3, <1>4, <1>5, <1>6, <1>7, <1>8, <1>9, <1>10, <1>11, <1>12, <1>13, <1>14,
     <1>15, <1>16, <1>17, <1>18 DEF Next, CallStep

\* Every record in the store, in a cache or in a call is one of the responses the server has
\* issued, and a call has in hand what its place needs.
THEOREM TypeCorrect == Spec => []TypeOK
<1>1. Init => TypeOK
  BY DEF Init, TypeOK, Places, Operations
<1>2. QED BY <1>1, TypeStep, PTL DEF Spec

------------------------------------------------------------------------------
(* The refresh token in the store                                          *)
(*                                                                         *)
(* That the store is not stranded is not inductive: a call saves its       *)
(* answer, and nothing says yet that the answer's refresh token is good.   *)
(* It is, because until it is saved no one else has seen it.               *)

\* The calls whose answer is still on its way to the store.
InHand(c) == pc[c] \in {"granted", "save"}

\* The refresh token of the answer.
Answer(c) == Refresh(tokens[c])

Unseen(c) ==
    /\ Answer(c) \in live \cup abandoned
    /\ Answer(c) # Refresh(store)
    /\ \A d \in Calls : Answer(c) # Presented(d)
    /\ \A d \in Calls \ {c} : InHand(d) => Answer(d) # Answer(c)

AnswersUnseen == \A c \in Calls : InHand(c) /\ Answer(c) # None => Unseen(c)

StrandInv == TypeOK /\ AnswersUnseen /\ StoreNotStranded

\* A step that stores no answer and receives none.
Quiet ==
    /\ store' \in {store, None}
    /\ live \cup abandoned \subseteq live' \cup abandoned'
    /\ \A c \in Calls :
         /\ InHand(c)' => InHand(c) /\ Answer(c)' = Answer(c)
         /\ Presented(c)' \in {Presented(c), Refresh(store), None}
         /\ Carrying(c) => \/ Carrying(c)' /\ Presented(c)' = Presented(c)
                          \/ Presented(c) \in abandoned'

\* Such a step keeps the answers unseen and strands nothing.
LEMMA QuietStep == StrandInv /\ Quiet => AnswersUnseen' /\ StoreNotStranded'
<1> SUFFICES ASSUME StrandInv, Quiet PROVE AnswersUnseen' /\ StoreNotStranded' OBVIOUS
<1>1. Refresh(store)' \in {Refresh(store), None} BY DEF Quiet, Refresh
<1>2. AnswersUnseen'
  <2> SUFFICES ASSUME NEW c \in Calls, InHand(c)', Answer(c)' # None PROVE Unseen(c)'
    BY DEF AnswersUnseen
  <2>1. InHand(c) /\ Answer(c)' = Answer(c) /\ Unseen(c)
    BY DEF Quiet, StrandInv, AnswersUnseen
  <2>2. \A d \in Calls : Answer(c) # Presented(d)' BY <2>1 DEF Quiet, Unseen
  <2>3. \A d \in Calls \ {c} : InHand(d)' => Answer(d)' # Answer(c) BY <2>1 DEF Quiet, Unseen
  <2>4. QED BY <1>1, <2>1, <2>2, <2>3 DEF Quiet, Unseen
<1>3. StoreNotStranded'
  <2>1. CASE Refresh(store) \in live \cup abandoned \cup {None}
    BY <1>1, <2>1 DEF StoreNotStranded, Quiet
  <2>2. CASE \E c \in Calls : Carrying(c) /\ Presented(c) = Refresh(store)
    <3>1. PICK c \in Calls : Carrying(c) /\ Presented(c) = Refresh(store) BY <2>2
    <3>2. QED BY <1>1, <3>1 DEF StoreNotStranded, Quiet
  <2>3. QED BY <2>1, <2>2 DEF StrandInv, StoreNotStranded
<1>4. QED BY <1>2, <1>3

\* A call that ends with nothing in hand, or that gives up what it carries, is quiet.
LEMMA EndIsQuiet ==
    ASSUME TypeOK, NEW c \in Calls, Return(c), store' \in {store, None}, live' = live,
           \/ ~Carrying(c) /\ abandoned' = abandoned
           \/ Abandon({c})
    PROVE  Quiet
<1>1. abandoned \subseteq abandoned' /\ (Carrying(c) => Presented(c) \in abandoned')
  BY DEF Abandon
<1>2. \A d \in Calls : d = c \/ /\ pc'[d] = pc[d] /\ stored'[d] = stored[d]
                                 /\ tokens'[d] = tokens[d]
  BY ReturnTyped
<1>3. pc'[c] = "idle" /\ stored'[c] = None BY ReturnTyped
<1>4. QED BY <1>1, <1>2, <1>3 DEF Quiet, InHand, Answer, Presented, Carrying, Refresh

\* A call that moves on with what it has, short of an answer, is quiet.
LEMMA MoveIsQuiet ==
    ASSUME TypeOK, NEW c \in Calls, NEW place, Goto(c, place), ~InHand(c),
           place \notin {"granted", "save"},
           stored' \in {stored, [stored EXCEPT ![c] = store]},
           tokens' = [tokens EXCEPT ![c] = tokens'[c]],
           store' \in {store, None}, live \cup abandoned \subseteq live' \cup abandoned'
    PROVE  Quiet
<1>1. \A d \in Calls : d = c \/ /\ pc'[d] = pc[d] /\ stored'[d] = stored[d]
                                 /\ tokens'[d] = tokens[d]
  BY DEF Goto, TypeOK
<1>2. pc'[c] = place /\ stored'[c] \in {stored[c], store} BY DEF Goto, TypeOK
<1>3. QED BY <1>1, <1>2 DEF Quiet, InHand, Answer, Presented, Carrying, Refresh

\* Only an answer, and its arrival in the store, are not quiet.
LEMMA MostStepsAreQuiet ==
    ASSUME TypeOK, TypeOK',
           \/ Tick \/ Withdraw \/ UNCHANGED vars
           \/ \E cl \in Clients : Crash(cl)
           \/ \E c \in Calls :
                \/ Start(c) \/ Load(c) \/ ReturnStored(c) \/ Exchange(c) \/ Logout(c) \/ Revoke(c)
                \/ Receive(c) \/ Cache(c) \/ Clear(c) \/ Uncache(c) \/ Refuse(c) \/ Lose(c)
    PROVE  Quiet
<1>1. CASE Tick \/ Withdraw \/ UNCHANGED vars
  BY <1>1 DEF Tick, Withdraw, vars, locals, server, history,
              Quiet, InHand, Answer, Presented, Carrying, Refresh
<1>2. ASSUME NEW cl \in Clients, Crash(cl) PROVE Quiet
  <2>1. store' = store /\ live' = live BY <1>2 DEF Crash, server
  <2>2. \A d \in Calls : Owner[d] = cl /\ Carrying(d) => Presented(d) \in abandoned'
    BY <1>2 DEF Crash, Abandon
  <2>3. abandoned \subseteq abandoned' BY <1>2 DEF Crash, Abandon
  <2>4. \A d \in Calls :
          IF Owner[d] = cl THEN pc'[d] = "idle" /\ stored'[d] = None
          ELSE pc'[d] = pc[d] /\ stored'[d] = stored[d] /\ tokens'[d] = tokens[d]
    BY <1>2 DEF Crash
  <2>5. QED BY <2>1, <2>2, <2>3, <2>4 DEF Quiet, InHand, Answer, Presented, Carrying, Refresh
<1>3. ASSUME NEW c \in Calls, Start(c) PROVE Quiet
  <2>1. PICK place \in {"acquire", "clear", "load"} : Goto(c, place) BY <1>3 DEF Start
  <2>2. QED BY <1>3, <2>1, MoveIsQuiet DEF Start, InHand, server, history, TypeOK
<1>4. ASSUME NEW c \in Calls, Load(c) PROVE Quiet
  <2>1. CASE Return(c)
    BY <1>4, <2>1, EndIsQuiet DEF Load, Carrying, server, history
  <2>2. CASE stored' = [stored EXCEPT ![c] = store] /\ Goto(c, "loaded") /\ UNCHANGED <<op, tokens>>
    BY <1>4, <2>2, MoveIsQuiet DEF Load, InHand, server, history, TypeOK
  <2>3. QED BY <1>4, <2>1, <2>2 DEF Load
<1>5. ASSUME NEW c \in Calls, ReturnStored(c) PROVE Quiet
  <2>1. tokens' = [tokens EXCEPT ![c] = tokens'[c]] BY <1>5 DEF ReturnStored, TypeOK
  <2>2. QED BY <1>5, <2>1, MoveIsQuiet DEF ReturnStored, InHand, server, history
<1>6. ASSUME NEW c \in Calls, Exchange(c) PROVE Quiet
  <2>1. CASE Return(c)
    BY <1>6, <2>1, EndIsQuiet DEF Exchange, Carrying, server, history
  <2>2. CASE Goto(c, "request") /\ UNCHANGED locals
    BY <1>6, <2>2, MoveIsQuiet DEF Exchange, InHand, locals, server, history, TypeOK
  <2>3. QED BY <1>6, <2>1, <2>2 DEF Exchange
<1>7. ASSUME NEW c \in Calls, Logout(c) PROVE Quiet
  <2>1. PICK place \in {"revoke", "clear"} : Goto(c, place) BY <1>7 DEF Logout
  <2>2. QED BY <1>7, <2>1, MoveIsQuiet DEF Logout, InHand, locals, server, history, TypeOK
<1>8. ASSUME NEW c \in Calls, Revoke(c) PROVE Quiet
  <2>1. live \cup abandoned \subseteq live' \cup abandoned'
    <3>1. None \notin live BY ClientAssumption DEF TypeOK
    <3>2. QED BY <1>8, <3>1 DEF Revoke
  <2>2. QED BY <1>8, <2>1, MoveIsQuiet DEF Revoke, InHand, locals, TypeOK
<1>9. ASSUME NEW c \in Calls, Receive(c) PROVE Quiet
  <2>1. tokens[c] # None /\ tokens[c] \in Records /\ tokens'[c] # None
    BY <1>9 DEF Receive, Goto, TypeOK
  <2>2. tokens'[c] = [tokens[c] EXCEPT !.expires = ExpiresAt(tokens[c].expires)]
    BY <1>9 DEF Receive, TypeOK
  <2>3. tokens'[c].refresh = tokens[c].refresh BY <2>1, <2>2 DEF Records
  <2>4. pc'[c] = "save" /\ \A d \in Calls \ {c} : pc'[d] = pc[d] /\ tokens'[d] = tokens[d]
    BY <1>9 DEF Receive, Goto, TypeOK
  <2>5. QED
    BY <1>9, <2>1, <2>3, <2>4
    DEF Receive, Quiet, InHand, Answer, Presented, Carrying, Refresh, server, history
<1>10. ASSUME NEW c \in Calls, Cache(c) \/ Uncache(c) PROVE Quiet
  <2>1. ~Carrying(c) /\ Return(c) /\ UNCHANGED <<store, server, history>>
    BY <1>10 DEF Cache, Uncache, SetCached, Carrying
  <2>2. QED BY <2>1, EndIsQuiet DEF server, history
<1>11. ASSUME NEW c \in Calls, Clear(c) PROVE Quiet
  <2>1. CASE Return(c)
    BY <1>11, <2>1, EndIsQuiet DEF Clear, Carrying, server, history
  <2>2. CASE Goto(c, "uncache") /\ UNCHANGED locals
    BY <1>11, <2>2, MoveIsQuiet DEF Clear, InHand, locals, server, history, TypeOK
  <2>3. QED BY <1>11, <2>1, <2>2 DEF Clear
<1>12. ASSUME NEW c \in Calls, Refuse(c) PROVE Quiet
  <2>1. CASE Return(c)
    BY <1>12, <2>1, EndIsQuiet DEF Refuse, Carrying, server, history
  <2>2. CASE Goto(c, "clear") /\ UNCHANGED locals
    BY <1>12, <2>2, MoveIsQuiet DEF Refuse, InHand, locals, server, history, TypeOK
  <2>3. QED BY <1>12, <2>1, <2>2 DEF Refuse
<1>13. ASSUME NEW c \in Calls, Lose(c) PROVE Quiet
  BY <1>13, EndIsQuiet DEF Lose, server
<1>14. QED
  BY <1>1, <1>2, <1>3, <1>4, <1>5, <1>6, <1>7, <1>8, <1>9, <1>10, <1>11, <1>12, <1>13

\* The number of the next response is no one's yet.
LEMMA NextIsNew ==
    ASSUME TypeOK
    PROVE  /\ issued + 1 \notin live \cup abandoned
           /\ issued + 1 # Refresh(store)
           /\ \A d \in Calls : issued + 1 # Presented(d) /\ issued + 1 # Answer(d)
           /\ issued + 1 # None
BY ClientAssumption DEF TypeOK, Records, Refresh, Presented, Answer

\* A new response: its refresh token, if it has one, is live and unseen.
LEMMA ResponseStep ==
    ASSUME StrandInv, TypeOK', NEW c \in Calls, ~InHand(c),
           pc' = [pc EXCEPT ![c] = pc'[c]], pc'[c] \in {"granted", "save"},
           tokens' = [tokens EXCEPT ![c] = tokens'[c]],
           tokens'[c].refresh \in {issued + 1, None},
           UNCHANGED <<store, stored, abandoned>>,
           \/ live' = live \cup ({tokens'[c].refresh} \ {None})
           \/ /\ live' = IF tokens'[c].refresh = None THEN live
                         ELSE (live \ {Presented(c)}) \cup {tokens'[c].refresh}
              /\ Presented(c) \in live
    PROVE  AnswersUnseen' /\ StoreNotStranded'
<1>1. tokens'[c] # None BY DEF TypeOK
<1>2. Answer(c)' \in {issued + 1, None} /\ (Answer(c)' # None => Answer(c)' \in live')
  BY <1>1 DEF Answer, Refresh
<1>3. \A d \in Calls : Presented(d)' = Presented(d) BY DEF Presented, Refresh
<1>4. Refresh(store)' = Refresh(store) BY DEF Refresh
<1>5. \A d \in Calls \ {c} : /\ InHand(d)' <=> InHand(d)
                             /\ Answer(d)' = Answer(d)
                             /\ Carrying(d)' <=> Carrying(d)
  BY <1>3 DEF InHand, Answer, Refresh, Carrying, StrandInv, TypeOK
<1>6. live \ {Presented(c)} \subseteq live' OBVIOUS
<1>7. AnswersUnseen'
  <2> SUFFICES ASSUME NEW d \in Calls, InHand(d)', Answer(d)' # None PROVE Unseen(d)'
    BY DEF AnswersUnseen
  <2>1. CASE d = c
    <3>1. Answer(c)' = issued + 1 /\ Answer(c)' \in live' BY <1>2, <2>1
    <3>2. QED
      BY <1>3, <1>4, <1>5, <2>1, <3>1, NextIsNew DEF Unseen, StrandInv
  <2>2. CASE d # c
    <3>1. InHand(d) /\ Answer(d)' = Answer(d) /\ Unseen(d)
      BY <1>5, <2>2 DEF StrandInv, AnswersUnseen
    <3>2. Answer(d) \in live' \cup abandoned' BY <1>6, <3>1 DEF Unseen
    <3>3. Answer(c)' # Answer(d)' BY <1>2, <3>1, NextIsNew DEF StrandInv
    <3>4. QED BY <1>3, <1>4, <1>5, <3>1, <3>2, <3>3 DEF Unseen
  <2>3. QED BY <2>1, <2>2
<1>8. StoreNotStranded'
  <2>1. CASE Refresh(store) \in live' \cup abandoned' \cup {None}
    BY <1>4, <2>1 DEF StoreNotStranded
  <2>2. CASE Refresh(store) = Presented(c) /\ Presented(c) # None
    BY <1>3, <1>4, <2>2 DEF StoreNotStranded, Carrying
  <2>3. CASE \E d \in Calls : Carrying(d) /\ Presented(d) = Refresh(store)
    <3>1. PICK d \in Calls : Carrying(d) /\ Presented(d) = Refresh(store) BY <2>3
    <3>2. d # c BY <3>1 DEF Carrying, InHand
    <3>3. QED BY <1>3, <1>4, <1>5, <3>1, <3>2 DEF StoreNotStranded
  <2>4. QED BY <1>6, <2>1, <2>2, <2>3 DEF StrandInv, StoreNotStranded
<1>9. QED BY <1>7, <1>8

\* An answer arrives in the store: what was unseen becomes the stored token.
LEMMA SavedStep ==
    ASSUME StrandInv, NEW c \in Calls, pc[c] = "save", Goto(c, "cache"), store' = tokens[c],
           UNCHANGED <<stored, tokens, live, abandoned>>
    PROVE  AnswersUnseen' /\ StoreNotStranded'
<1>1. Refresh(store)' = Answer(c) BY DEF Refresh, Answer
<1>2. InHand(c) /\ ~InHand(c)' BY DEF InHand, Goto, StrandInv, TypeOK
<1>3. \A d \in Calls \ {c} : InHand(d)' <=> InHand(d) BY DEF InHand, Goto, StrandInv, TypeOK
<1>4. \A d \in Calls : Presented(d)' = Presented(d) /\ Answer(d)' = Answer(d)
  BY DEF Presented, Answer, Refresh
<1>5. AnswersUnseen'
  <2> SUFFICES ASSUME NEW d \in Calls, InHand(d)', Answer(d)' # None PROVE Unseen(d)'
    BY DEF AnswersUnseen
  <2>1. d # c /\ InHand(d) /\ Unseen(d)
    BY <1>2, <1>3, <1>4 DEF StrandInv, AnswersUnseen
  <2>2. Answer(d) # Answer(c) BY <1>2, <2>1 DEF Unseen
  <2>3. QED BY <1>1, <1>2, <1>3, <1>4, <2>1, <2>2 DEF Unseen
<1>6. Answer(c) \in live \cup abandoned \cup {None}
  BY <1>2 DEF StrandInv, AnswersUnseen, Unseen
<1>7. QED BY <1>1, <1>5, <1>6 DEF StoreNotStranded

LEMMA StrandStep == StrandInv /\ [Next]_vars => StrandInv'
<1> SUFFICES ASSUME StrandInv, [Next]_vars PROVE StrandInv' OBVIOUS
<1>1. TypeOK /\ TypeOK' BY TypeStep DEF StrandInv
<1>2. ASSUME NEW c \in Calls, Acquire(c) PROVE AnswersUnseen' /\ StoreNotStranded'
  <2>1. CASE Return(c) /\ UNCHANGED server
    BY <1>1, <1>2, <2>1, EndIsQuiet, QuietStep DEF Acquire, Carrying, server, history
  <2>2. CASE issued' = issued + 1
    <3>1. PICK r \in {issued + 1, None}, e \in {ExpiresAt(l) : l \in Lifetimes} :
            /\ tokens' = [tokens EXCEPT ![c] = [access |-> issued + 1, refresh |-> r, expires |-> e]]
            /\ live' = live \cup ({r} \ {None})
      BY <1>1, <1>2, <2>2 DEF Acquire, server, TypeOK
    <3>2. pc' = [pc EXCEPT ![c] = "save"] /\ UNCHANGED <<store, stored, abandoned>>
      BY <1>1, <1>2, <2>2 DEF Acquire, Goto, server, history, TypeOK
    <3>3. ~InHand(c) BY <1>2 DEF Acquire, InHand
    <3>4. /\ tokens' = [tokens EXCEPT ![c] = tokens'[c]] /\ tokens'[c].refresh = r
          /\ pc' = [pc EXCEPT ![c] = pc'[c]] /\ pc'[c] = "save"
      BY <1>1, <3>1, <3>2 DEF TypeOK
    <3>5. QED BY <1>1, <3>1, <3>2, <3>3, <3>4, ResponseStep
  <2>3. QED BY <1>2, <2>1, <2>2 DEF Acquire
<1>3. ASSUME NEW c \in Calls, Grant(c) PROVE AnswersUnseen' /\ StoreNotStranded'
  <2>1. PICK r \in {issued + 1, None}, l \in Lifetimes :
          /\ tokens' = [tokens EXCEPT ![c] = [access |-> issued + 1, refresh |-> r, expires |-> l]]
          /\ live' = IF r = None THEN live ELSE (live \ {Presented(c)}) \cup {r}
    BY <1>3 DEF Grant
  <2>2. /\ pc' = [pc EXCEPT ![c] = "granted"] /\ UNCHANGED <<store, stored, abandoned>>
        /\ ~InHand(c) /\ Presented(c) \in live
    BY <1>3 DEF Grant, Goto, InHand, history
  <2>3. /\ tokens' = [tokens EXCEPT ![c] = tokens'[c]] /\ tokens'[c].refresh = r
        /\ pc' = [pc EXCEPT ![c] = pc'[c]] /\ pc'[c] = "granted"
    BY <1>1, <2>1, <2>2 DEF TypeOK
  <2>4. Presented(c) # None BY <1>3, <1>1 DEF Grant, TypeOK
  <2>5. QED BY <1>1, <2>1, <2>2, <2>3, ResponseStep
<1>4. ASSUME NEW c \in Calls, Save(c) PROVE AnswersUnseen' /\ StoreNotStranded'
  <2>1. CASE store' = tokens[c] /\ Goto(c, "cache") /\ UNCHANGED <<locals, abandoned>>
    BY <1>4, <2>1, SavedStep DEF Save, locals, server
  <2>2. CASE Return(c) /\ Abandon({c}) /\ UNCHANGED <<store, persisted>>
    BY <1>1, <1>4, <2>2, EndIsQuiet, QuietStep DEF Save, server
  <2>3. QED BY <1>4, <2>1, <2>2 DEF Save
<1>5. ASSUME NEW c \in Calls,
             \/ Start(c) \/ Load(c) \/ ReturnStored(c) \/ Exchange(c) \/ Logout(c) \/ Revoke(c)
             \/ Receive(c) \/ Cache(c) \/ Clear(c) \/ Uncache(c) \/ Refuse(c) \/ Lose(c)
      PROVE  AnswersUnseen' /\ StoreNotStranded'
  <2>1. Quiet BY <1>1, <1>5, MostStepsAreQuiet
  <2>2. QED BY <2>1, QuietStep
<1>6. ASSUME Tick \/ Withdraw \/ UNCHANGED vars \/ \E cl \in Clients : Crash(cl)
      PROVE  AnswersUnseen' /\ StoreNotStranded'
  <2>1. Quiet BY <1>1, <1>6, MostStepsAreQuiet
  <2>2. QED BY <2>1, QuietStep
<1>7. AnswersUnseen' /\ StoreNotStranded'
  <2>1. CASE \E c \in Calls : Start(c) \/ CallStep(c)
    BY <1>2, <1>3, <1>4, <1>5, <2>1 DEF CallStep
  <2>2. QED BY <1>6, <2>1 DEF Next
<1>8. QED BY <1>1, <1>7 DEF StrandInv

\* Whatever calls and clients race, are lost or die, the store never keeps a refresh token
\* the server has replaced and whose successor is not on its way.
THEOREM StoreIsNotStranded == Spec => []StoreNotStranded
<1>1. Init => StrandInv
  BY TypeStep DEF Init, StrandInv, TypeOK, AnswersUnseen, InHand, StoreNotStranded, Refresh,
                  Places, Operations
<1>2. StrandInv => StoreNotStranded BY DEF StrandInv
<1>3. QED BY <1>1, <1>2, StrandStep, PTL DEF Spec

------------------------------------------------------------------------------
(* What is cached was in the store                                         *)

\* A record that was in the store, or none.
Kept(record) == AuthHeaders(record) \in persisted \cup {None}

RecordsKept ==
    /\ Kept(store)
    /\ \A cl \in Clients : Kept(cached[cl])
    /\ \A c \in Calls : Kept(stored[c]) /\ (pc[c] = "cache" => Kept(tokens[c]))

KeptInv == TypeOK /\ RecordsKept

\* A call that returns, or a death, only forgets.
LEMMA KeptByReturn ==
    ASSUME KeptInv, NEW c \in Calls, Return(c), store' = store, cached' = cached,
           persisted' = persisted
    PROVE  RecordsKept'
BY ReturnTyped DEF KeptInv, RecordsKept, Kept, AuthHeaders

LEMMA KeptStep == KeptInv /\ [Next]_vars => KeptInv'
<1> SUFFICES ASSUME KeptInv, [Next]_vars PROVE KeptInv' OBVIOUS
<1>1. TypeOK /\ TypeOK' /\ RecordsKept BY TypeStep DEF KeptInv
<1>2. ASSUME Tick \/ Withdraw \/ UNCHANGED vars PROVE RecordsKept'
  <2>1. UNCHANGED <<store, cached, pc, stored, tokens, persisted>>
    BY <1>2 DEF Tick, Withdraw, vars, locals, history
  <2>2. QED BY <1>1, <2>1 DEF RecordsKept, Kept, AuthHeaders
<1>3. ASSUME NEW cl \in Clients, Crash(cl) PROVE RecordsKept'
  <2>1. /\ store' = store /\ persisted' = persisted
        /\ \A k \in Clients : cached'[k] \in {cached[k], None}
    BY <1>1, <1>3 DEF Crash, TypeOK
  <2>2. QED BY <1>1, <1>3, <2>1, CrashTyped DEF RecordsKept, Kept, AuthHeaders
<1>4. ASSUME NEW c \in Calls,
             Start(c) \/ Exchange(c) \/ Logout(c) \/ Revoke(c) \/ Refuse(c) \/ Lose(c)
      PROVE  RecordsKept'
  <2>1. UNCHANGED <<store, cached, persisted>>
    BY <1>4 DEF Start, Exchange, Logout, Revoke, Refuse, Lose, history
  <2>2. CASE Return(c) BY <2>1, <2>2, KeptByReturn
  <2>3. CASE /\ UNCHANGED <<stored, tokens>>
             /\ pc'[c] # "cache" /\ \A d \in Calls \ {c} : pc'[d] = pc[d]
    BY <1>1, <2>1, <2>3 DEF RecordsKept, Kept, AuthHeaders
  <2>4. QED
    BY <1>1, <1>4, <2>2, <2>3
    DEF Start, Exchange, Logout, Revoke, Refuse, Lose, Goto, locals, TypeOK
<1>5. ASSUME NEW c \in Calls, Load(c) PROVE RecordsKept'
  <2>1. CASE Return(c) BY <1>5, <2>1, KeptByReturn DEF Load, history
  <2>2. CASE stored' = [stored EXCEPT ![c] = store] /\ Goto(c, "loaded") /\ UNCHANGED <<op, tokens>>
    BY <1>1, <1>5, <2>2 DEF Load, Goto, history, RecordsKept, Kept, AuthHeaders, TypeOK
  <2>3. QED BY <1>5, <2>1, <2>2 DEF Load
<1>6. ASSUME NEW c \in Calls, ReturnStored(c) PROVE RecordsKept'
  BY <1>1, <1>6 DEF ReturnStored, Goto, history, RecordsKept, Kept, AuthHeaders, TypeOK
<1>7. ASSUME NEW c \in Calls, Acquire(c) \/ Grant(c) \/ Receive(c) PROVE RecordsKept'
  <2>1. UNCHANGED <<store, cached, persisted>> BY <1>7 DEF Acquire, Grant, Receive, history
  <2>2. CASE Return(c) BY <2>1, <2>2, KeptByReturn
  <2>3. CASE /\ UNCHANGED stored /\ pc'[c] # "cache"
             /\ \A d \in Calls \ {c} : pc'[d] = pc[d] /\ tokens'[d] = tokens[d]
    BY <1>1, <2>1, <2>3 DEF RecordsKept, Kept, AuthHeaders
  <2>4. QED BY <1>1, <1>7, <2>2, <2>3 DEF Acquire, Grant, Receive, Goto, TypeOK
<1>8. ASSUME NEW c \in Calls, Save(c) PROVE RecordsKept'
  <2>1. CASE Return(c) /\ Abandon({c}) /\ UNCHANGED <<store, persisted>>
    BY <1>8, <2>1, KeptByReturn DEF Save
  <2>2. CASE /\ store' = tokens[c] /\ persisted' = persisted \cup {tokens[c].access}
             /\ Goto(c, "cache") /\ UNCHANGED <<locals, abandoned>>
    BY <1>1, <1>8, <2>2 DEF Save, Goto, locals, RecordsKept, Kept, AuthHeaders, TypeOK
  <2>3. QED BY <1>8, <2>1, <2>2 DEF Save
<1>9. ASSUME NEW c \in Calls, Cache(c) \/ Uncache(c) PROVE RecordsKept'
  <2>1. PICK record \in {tokens[c], None} :
          /\ Kept(record) /\ cached' = [cached EXCEPT ![Owner[c]] = record]
          /\ Return(c) /\ UNCHANGED <<store, history>>
    BY <1>1, <1>9 DEF Cache, Uncache, SetCached, RecordsKept, Kept, AuthHeaders
  <2>2. \A cl \in Clients : cached'[cl] \in {cached[cl], record} BY <1>1, <2>1 DEF TypeOK
  <2>3. QED BY <1>1, <2>1, <2>2, ReturnTyped DEF history, RecordsKept, Kept, AuthHeaders
<1>10. ASSUME NEW c \in Calls, Clear(c) PROVE RecordsKept'
  <2>1. CASE Return(c) /\ UNCHANGED store
    BY <1>10, <2>1, KeptByReturn DEF Clear, history
  <2>2. CASE store' = None /\ Goto(c, "uncache") /\ UNCHANGED locals
    BY <1>1, <1>10, <2>2 DEF Clear, Goto, locals, history, RecordsKept, Kept, AuthHeaders, TypeOK
  <2>3. QED BY <1>10, <2>1, <2>2 DEF Clear
<1>11. QED
  BY <1>1, <1>2, <1>3, <1>4, <1>5, <1>6, <1>7, <1>8, <1>9, <1>10 DEF Next, CallStep, KeptInv

\* What the header factory hands out was in the store before it was in memory.
THEOREM CachedIsPersisted == Spec => []CachedWasPersisted
<1>1. Init => KeptInv
  BY DEF Init, KeptInv, TypeOK, RecordsKept, Kept, AuthHeaders, Refresh, Places, Operations
<1>2. KeptInv => CachedWasPersisted
  BY DEF KeptInv, RecordsKept, Kept, CachedWasPersisted, AuthHeaderFactory
<1>3. QED BY <1>1, <1>2, KeptStep, PTL DEF Spec

------------------------------------------------------------------------------
(* A call that is alone                                                    *)
(*                                                                         *)
(* Beside another call of the same store both properties below fail, as a  *)
(* run shows for the second; they are what the code promises one task.     *)

\* What a call read is what the store holds, at every place that relies on it.
InStep(c) ==
    /\ \A cl \in Clients \ {Owner[c]} : cached[cl] = None
    /\ pc[c] \in {"loaded", "request"} => stored[c] = store
    /\ pc[c] = "cache" => tokens[c] = store
    /\ pc[c] = "uncache" => store = None
    /\ pc[c] = "revoke" => op[c] = "logout"
    /\ pc[c] \notin {"cache", "uncache"} =>
           AuthHeaders(cached[Owner[c]]) \in {None, AuthHeaders(store)}
    /\ pc[c] = "clear" /\ op[c] \in {"ensure_valid", "refresh"} => Refresh(store) \notin live

\* A call that gives up between two places leaves the cache as true as it was.
LEMMA ReturnInStep ==
    ASSUME TypeOK, NEW c \in Calls, InStep(c), Return(c), pc[c] \notin {"cache", "uncache"},
           UNCHANGED <<store, cached>>
    PROVE  InStep(c)'
BY ReturnTyped DEF InStep, AuthHeaders

LEMMA AloneStep ==
    ASSUME NEW c, Calls = {c}, TypeOK, InStep(c), [Next]_vars
    PROVE  InStep(c)'
<1> USE DEF InStep
<1>1. c \in Calls /\ Owner[c] \in Clients BY ClientAssumption
<1>2. ASSUME Tick \/ Withdraw \/ UNCHANGED vars PROVE InStep(c)'
  <2>1. UNCHANGED <<store, cached, pc, op, stored, tokens>> /\ live' \subseteq live
    BY <1>2 DEF Tick, Withdraw, vars, locals, server, history
  <2>2. QED BY <2>1 DEF AuthHeaders, Refresh
<1>3. ASSUME NEW cl \in Clients, Crash(cl) PROVE InStep(c)'
  <2>1. /\ store' = store /\ live' = live
        /\ \A k \in Clients : cached'[k] = IF k = cl THEN None ELSE cached[k]
    BY <1>3 DEF Crash, TypeOK, server
  <2>2. CASE Owner[c] = cl
    <3>1. pc'[c] = "idle" BY <1>1, <1>3, <2>2 DEF Crash
    <3>2. QED BY <1>1, <2>1, <2>2, <3>1 DEF AuthHeaders
  <2>3. CASE Owner[c] # cl
    <3>1. pc'[c] = pc[c] /\ op'[c] = op[c] /\ stored'[c] = stored[c] /\ tokens'[c] = tokens[c]
      BY <1>1, <1>3, <2>3 DEF Crash
    <3>2. QED BY <1>1, <2>1, <2>3, <3>1 DEF AuthHeaders, Refresh
  <2>4. QED BY <2>2, <2>3
<1>4. ASSUME Start(c) PROVE InStep(c)'
  <2>1. /\ UNCHANGED <<store, cached, live>> /\ pc[c] = "idle"
        /\ pc'[c] \in {"acquire", "load", "clear"}
        /\ pc'[c] = "clear" => op'[c] = "forget"
    BY <1>1, <1>4 DEF Start, Goto, TypeOK, Operations, server
  <2>2. QED BY <2>1 DEF AuthHeaders
<1>5. ASSUME Load(c) PROVE InStep(c)'
  <2>1. CASE Return(c) BY <1>1, <1>5, <2>1, ReturnInStep DEF Load
  <2>2. CASE stored' = [stored EXCEPT ![c] = store] /\ Goto(c, "loaded") /\ UNCHANGED <<op, tokens>>
    BY <1>1, <1>5, <2>2 DEF Load, Goto, AuthHeaders, TypeOK
  <2>3. QED BY <1>5, <2>1, <2>2 DEF Load
<1>6. ASSUME ReturnStored(c) PROVE InStep(c)'
  BY <1>1, <1>6 DEF ReturnStored, Goto, AuthHeaders, TypeOK
<1>7. ASSUME Exchange(c) PROVE InStep(c)'
  <2>1. CASE Return(c) BY <1>1, <1>7, <2>1, ReturnInStep DEF Exchange
  <2>2. CASE Goto(c, "request") /\ UNCHANGED locals
    BY <1>1, <1>7, <2>2 DEF Exchange, Goto, locals, AuthHeaders, TypeOK
  <2>3. QED BY <1>7, <2>1, <2>2 DEF Exchange
<1>8. ASSUME Logout(c) \/ Revoke(c) PROVE InStep(c)'
  <2>1. op[c] = "logout" BY <1>8 DEF Logout, Revoke
  <2>2. QED BY <1>1, <1>8, <2>1 DEF Logout, Revoke, Goto, locals, server, AuthHeaders, TypeOK
<1>9. ASSUME Acquire(c) \/ Receive(c) \/ Grant(c) PROVE InStep(c)'
  <2>1. UNCHANGED <<store, cached>> /\ pc[c] \in {"acquire", "granted", "request"}
    BY <1>9 DEF Acquire, Receive, Grant
  <2>2. CASE Return(c) BY <1>1, <2>1, <2>2, ReturnInStep
  <2>3. CASE pc'[c] \in {"granted", "save"} BY <2>1, <2>3 DEF AuthHeaders
  <2>4. QED BY <1>1, <1>9, <2>2, <2>3 DEF Acquire, Receive, Grant, Goto, TypeOK
<1>10. ASSUME Save(c) PROVE InStep(c)'
  <2>1. CASE Return(c) /\ Abandon({c}) /\ UNCHANGED <<store, persisted>>
    BY <1>1, <1>10, <2>1, ReturnInStep DEF Save
  <2>2. CASE store' = tokens[c] /\ Goto(c, "cache") /\ UNCHANGED <<locals, abandoned>>
    BY <1>1, <1>10, <2>2 DEF Save, Goto, locals, TypeOK
  <2>3. QED BY <1>10, <2>1, <2>2 DEF Save
<1>11. ASSUME Cache(c) \/ Uncache(c) PROVE InStep(c)'
  <2>1. Return(c) /\ UNCHANGED store /\ cached' = [cached EXCEPT ![Owner[c]] = store]
    BY <1>11 DEF Cache, Uncache, SetCached
  <2>2. cached'[Owner[c]] = store /\ \A cl \in Clients \ {Owner[c]} : cached'[cl] = None
    BY <1>1, <2>1 DEF TypeOK
  <2>3. QED BY <1>1, <2>1, <2>2, ReturnTyped DEF AuthHeaders
<1>12. ASSUME Clear(c) PROVE InStep(c)'
  <2>1. CASE Return(c) /\ UNCHANGED store BY <1>1, <1>12, <2>1, ReturnInStep DEF Clear
  <2>2. CASE store' = None /\ Goto(c, "uncache") /\ UNCHANGED locals
    BY <1>1, <1>12, <2>2 DEF Clear, Goto, TypeOK
  <2>3. QED BY <1>12, <2>1, <2>2 DEF Clear
<1>13. ASSUME Refuse(c) PROVE InStep(c)'
  <2>1. CASE Return(c) BY <1>1, <1>13, <2>1, ReturnInStep DEF Refuse
  <2>2. CASE Presented(c) \notin live /\ Goto(c, "clear") /\ UNCHANGED locals
    BY <1>1, <1>13, <2>2 DEF Refuse, Goto, Presented, Refresh, locals, server, AuthHeaders, TypeOK
  <2>3. QED BY <1>13, <2>1, <2>2 DEF Refuse
<1>14. ASSUME Lose(c) PROVE InStep(c)'
  BY <1>1, <1>14, ReturnInStep DEF Lose
<1>15. QED
  <2>1. CASE \E d \in Calls : Start(d) \/ CallStep(d)
    BY <1>4, <1>5, <1>6, <1>7, <1>8, <1>9, <1>10, <1>11, <1>12, <1>13, <1>14, <2>1 DEF CallStep
  <2>2. QED BY <1>2, <1>3, <2>1 DEF Next

\* One task calls, on one client.
Alone == \E c : Calls = {c}

AloneInv == TypeOK /\ \A c \in Calls : InStep(c)

LEMMA AloneInvariant == Alone /\ Spec => []AloneInv
<1> SUFFICES ASSUME Alone PROVE Spec => []AloneInv OBVIOUS
<1>1. Init => AloneInv
  <2>1. \A c \in Calls : Owner[c] \in Clients BY ClientAssumption
  <2>2. QED BY <2>1 DEF Init, AloneInv, TypeOK, InStep, AuthHeaders, Refresh, Places, Operations
<1>2. AloneInv /\ [Next]_vars => AloneInv'
  <2> SUFFICES ASSUME NEW c, Calls = {c}, AloneInv, [Next]_vars PROVE AloneInv' BY DEF Alone
  <2>1. TypeOK /\ InStep(c) BY DEF AloneInv
  <2>2. TypeOK' BY <2>1, TypeStep
  <2>3. InStep(c)' BY <2>1, AloneStep
  <2>4. QED BY <2>2, <2>3 DEF AloneInv
<1>3. QED BY <1>1, <1>2, PTL DEF Spec

\* A call that is alone discards a stored credential only when that very credential is spent:
\* the answer it acts on was about the record that is still there.
THEOREM AloneDiscardsOnlySpent == Alone /\ Spec => DiscardsOnlySpent
<1>1. AloneInv =>
        [\A c \in Calls :
           pc[c] = "clear" /\ op[c] \in {"ensure_valid", "refresh"} /\ store' # store
               => Refresh(store) \notin live]_vars
  BY DEF AloneInv, InStep
<1>2. QED BY <1>1, AloneInvariant, PTL DEF DiscardsOnlySpent

\* Between its calls, the header factory of a task that has the store to itself hands out
\* what the store holds or nothing, whatever saves and clears failed and whoever died.
THEOREM AloneCacheIsFresh == Alone /\ Spec => []CacheFresh
<1> SUFFICES ASSUME Alone PROVE Spec => []CacheFresh OBVIOUS
<1>1. AloneInv => CacheFresh
  BY DEF Alone, AloneInv, InStep, CacheFresh, AuthHeaderFactory, AuthHeaders
<1>2. QED BY <1>1, AloneInvariant, PTL
================================================================================
