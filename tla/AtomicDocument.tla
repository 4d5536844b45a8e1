---------------------------- MODULE AtomicDocument ----------------------------
(***************************************************************************)
(* What the credentials file promises, with no files in it: one document,  *)
(* replaced as a whole by a writer that read it at some earlier moment.    *)
(* A power failure may take back replacements that had not settled.        *)
(* Nothing orders the writers: who read first may well write last.         *)
(***************************************************************************)
CONSTANTS None, Keys, Values, Threads

VARIABLES
    document,  \* what a reader sees
    settled,   \* what a reader may see again after a power failure
    intent     \* thread -> the document it is about to put in place, or None

vars == <<document, settled, intent>>

Documents == [Keys -> Values \cup {None}]

Init == document = [k \in Keys |-> None] /\ settled = document /\ intent = [t \in Threads |-> None]

Prepare(t) ==
    /\ intent[t] = None
    /\ \E k \in Keys, v \in Values \cup {None} :
         intent' = [intent EXCEPT ![t] = [document EXCEPT ![k] = v]]
    /\ UNCHANGED <<document, settled>>

Replace(t) ==
    /\ intent[t] # None
    /\ document' = intent[t]
    /\ intent' = [intent EXCEPT ![t] = None]
    /\ UNCHANGED settled

\* Writers give up alone, or together with their process.
GiveUp(threads) ==
    /\ intent' = [t \in Threads |-> IF t \in threads THEN None ELSE intent[t]]
    /\ UNCHANGED <<document, settled>>

Settle == settled' = document /\ UNCHANGED <<document, intent>>

PowerLoss ==
    /\ document' \in {document, settled}
    /\ settled' = document'
    /\ intent' = [t \in Threads |-> None]

Next ==
    \/ \E t \in Threads : Prepare(t) \/ Replace(t)
    \/ \E threads \in SUBSET Threads : GiveUp(threads)
    \/ Settle \/ PowerLoss

Spec == Init /\ [][Next]_vars

===============================================================================
