------------------------------ MODULE DeviceLogin ------------------------------
(***************************************************************************)
(* What a device login promises, with no protocol in it: the user decides, *)
(* time passes, and the run ends once, with a verdict that is true of the  *)
(* user's decision and of the limit announced at the beginning.            *)
(***************************************************************************)
EXTENDS Naturals

CONSTANT None

VARIABLES
    clock,     \* the monotonic clock
    limit,     \* when the login gives up, None before it is announced
    decision,  \* what became of the device code
    verdict    \* how the login ended, None while it runs

vars == <<clock, limit, decision, verdict>>

Init == clock \in Nat /\ limit = None /\ decision = "undecided" /\ verdict = None

Elapse ==
    /\ verdict = None
    /\ clock' = clock + 1
    /\ UNCHANGED <<limit, decision, verdict>>

\* The limit is announced once and never moves.
Announce ==
    /\ verdict = None /\ limit = None
    /\ limit' \in Nat /\ limit' >= clock
    /\ UNCHANGED <<clock, decision, verdict>>

Decide ==
    /\ verdict = None /\ limit # None
    /\ \/ decision = "undecided" /\ decision' \in {"approved", "refused", "lapsed"}
       \/ decision = "approved" /\ decision' \in {"lapsed", "redeemed"}
    /\ UNCHANGED <<clock, limit, verdict>>

Failures == {"protocol", "invalid_hook", "transport", "config", "panicked"}

Conclude ==
    /\ verdict = None
    /\ \/ /\ limit # None /\ clock < limit
          /\ \/ decision = "redeemed" /\ verdict' = "token"
             \/ decision = "refused" /\ verdict' = "denied"
             \/ decision = "lapsed" /\ verdict' = "code_expired"
       \/ limit # None /\ clock >= limit /\ verdict' = "deadline"
       \/ verdict' \in Failures
    /\ UNCHANGED <<clock, limit, decision>>

Next == Elapse \/ Announce \/ Decide \/ Conclude

Spec == Init /\ [][Next]_vars

===============================================================================
