------------------------------ MODULE BindingSet ------------------------------
(***************************************************************************)
(* What the YAML writer promises of its directory, with no temporary files *)
(* in it: a directory in which one document at a time appears, whole, each *)
(* batch at a name it has not used.  A power failure may take back what    *)
(* had not settled.  A batch may stop anywhere.                            *)
(***************************************************************************)
CONSTANT Documents

VARIABLES
    directory,  \* file name -> document
    settled,    \* the directory as it survives a power failure
    batch,      \* the documents the current batch is to publish
    used        \* the names it has used at or given up

vars == <<directory, settled, batch, used>>

Init ==
    /\ settled = directory
    /\ batch = {}
    /\ used = {}

Start ==
    /\ batch' \in SUBSET Documents
    /\ used' = {}
    /\ UNCHANGED <<directory, settled>>

Publish ==
    /\ \E name \in DOMAIN directory' \ used, doc \in batch :
         /\ directory' = [n \in DOMAIN directory \cup {name} |-> IF n = name THEN doc ELSE directory[n]]
         /\ used' = used \cup {name}
    /\ UNCHANGED <<settled, batch>>

GiveUp ==
    /\ \E name \in used' \ used : used' = used \cup {name}
    /\ UNCHANGED <<directory, settled, batch>>

Settle == settled' = directory /\ UNCHANGED <<directory, batch, used>>

PowerLoss ==
    /\ settled' = directory'
    /\ DOMAIN settled \subseteq DOMAIN directory'
    /\ DOMAIN directory' \subseteq DOMAIN directory
    /\ \A name \in DOMAIN directory' :
         \/ directory'[name] = directory[name]
         \/ name \in DOMAIN settled /\ directory'[name] = settled[name]
    /\ batch' = {}
    /\ used' = {}

Next == Start \/ Publish \/ GiveUp \/ Settle \/ PowerLoss

Spec == Init /\ [][Next]_vars
==============================================================================
