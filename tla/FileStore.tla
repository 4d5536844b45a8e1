------------------------------- MODULE FileStore -------------------------------
(***************************************************************************)
(* FileTokenStore (auth/store.rs): threads of several processes load, save *)
(* and clear records of one JSON document, which each of them reads whole, *)
(* edits, writes to a temporary file named after its process, and renames  *)
(* over the target.                                                        *)
(*                                                                         *)
(* Files are inodes: a descriptor keeps its inode when the name it was     *)
(* opened by is renamed.  A process may die at any step; at a power loss   *)
(* what was not synced is damaged, and renames that had not settled in the *)
(* directory may be undone.  Making and hardening the directory are steps  *)
(* that may fail before the file is opened; modes are left out otherwise.  *)
(***************************************************************************)
EXTENDS Integers

CONSTANTS
    None,
    Keys,      \* store keys, "<issuer>|<client_id>"
    Values,    \* token sets
    Threads,
    Pids,      \* processes
    Pid,       \* thread -> its process
    Inodes     \* bound on the files that exist at once

Documents == [Keys -> Values \cup {None}]

ASSUME StoreAssumption ==
    /\ Pid \in [Threads -> Pids]
    /\ None \notin Keys /\ None \notin Values /\ None \notin Inodes
    /\ None \notin Documents /\ None \notin Threads

EmptyDocument == [k \in Keys |-> None]

\* The bytes of a file: none, a part of one thread's document, two writers' mixed, or a document.
Blank == [state |-> "blank", doc |-> EmptyDocument]
Part(t) == [state |-> "torn", doc |-> EmptyDocument, by |-> t]
Torn == Part(None)
Whole(d) == [state |-> "whole", doc |-> d]

VARIABLES
    content,  \* inode -> its bytes
    target,   \* the inode credentials.json names, or None
    temp,     \* process -> the inode its temporary name names, or None
    synced,   \* inodes whose bytes survive a power loss
    settled,  \* the target as the directory has it on disk
    pc, op, key,
    records,  \* thread -> the document it read, edited
    fd        \* thread -> the inode it is writing, or None

disk == <<content, target, temp, synced, settled>>
locals == <<pc, op, key, records, fd>>
vars == <<disk, locals>>

Goto(t, place) == pc' = [pc EXCEPT ![t] = place]

\* An operation ends, well or not: what it held is dropped, the descriptor closed.
Ends(threads) ==
    /\ pc' = [t \in Threads |-> IF t \in threads THEN "idle" ELSE pc[t]]
    /\ op' = [t \in Threads |-> IF t \in threads THEN None ELSE op[t]]
    /\ key' = [t \in Threads |-> IF t \in threads THEN None ELSE key[t]]
    /\ records' = [t \in Threads |-> IF t \in threads THEN EmptyDocument ELSE records[t]]
    /\ fd' = [t \in Threads |-> IF t \in threads THEN None ELSE fd[t]]

Return(t) == Ends({t})

\* A missing or blank file reads as the empty document.
Legible == \A i \in {target} \ {None} : content[i].state # "torn"
ReadAll == IF target = None THEN EmptyDocument ELSE content[target].doc

Edited(d, k, v) == [d EXCEPT ![k] = v]

TempName(t) == Pid[t]

Named == {target, settled} \cup {temp[p] : p \in Pids} \cup {fd[t] : t \in Threads}

\* A file with no name and no descriptor left is gone.
Reap ==
    /\ content' = [i \in Inodes |-> IF i \in Named' THEN content[i] ELSE Blank]
    /\ synced' = synced \cap Named'

-----------------------------------------------------------------------------
Init ==
    /\ content = [i \in Inodes |-> Blank]
    /\ target = None /\ settled = None
    /\ temp = [p \in Pids |-> None] /\ synced = {}
    /\ pc = [t \in Threads |-> "idle"] /\ op = [t \in Threads |-> None]
    /\ key = [t \in Threads |-> None]
    /\ records = [t \in Threads |-> EmptyDocument]
    /\ fd = [t \in Threads |-> None]

Start(t) ==
    /\ pc[t] = "idle"
    /\ \E o \in {"load", "save", "clear"}, k \in Keys :
         op' = [op EXCEPT ![t] = o] /\ key' = [key EXCEPT ![t] = k]
    /\ Goto(t, "read")
    /\ UNCHANGED <<disk, records, fd>>

\* read_all fails on a torn document, a broader mode or an I/O error.
ReadFails(t) == pc[t] = "read" /\ Return(t) /\ UNCHANGED disk

\* load ends with the record it finds, clear with none to remove.
ReadIsAll(t) ==
    /\ pc[t] = "read" /\ Legible
    /\ op[t] = "load" \/ (op[t] = "clear" /\ ReadAll[key[t]] = None)
    /\ Return(t) /\ UNCHANGED disk

ReadToEdit(t) ==
    /\ pc[t] = "read" /\ Legible
    /\ \/ op[t] = "save" /\ \E v \in Values :
            records' = [records EXCEPT ![t] = Edited(ReadAll, key[t], v)]
       \/ /\ op[t] = "clear" /\ ReadAll[key[t]] # None
          /\ records' = [records EXCEPT ![t] = Edited(ReadAll, key[t], None)]
    /\ Goto(t, "open")
    /\ UNCHANGED <<disk, op, key, fd>>

\* Create or truncate.
OpenTemp(t) ==
    /\ pc[t] = "open"
    /\ \E inode \in Inodes :
           /\ IF temp[TempName(t)] # None THEN inode = temp[TempName(t)] ELSE inode \notin Named
           /\ temp' = [temp EXCEPT ![TempName(t)] = inode]
           /\ content' = [content EXCEPT ![inode] = Blank]
           /\ synced' = synced \ {inode}
           /\ fd' = [fd EXCEPT ![t] = inode]
    /\ Goto(t, "write")
    /\ UNCHANGED <<target, settled, op, key, records>>

\* write_all may take several writes.
WritePart(t) ==
    /\ pc[t] = "write"
    /\ content' = [content EXCEPT ![fd[t]] = IF content[fd[t]] = Blank THEN Part(t) ELSE Torn]
    /\ synced' = synced \ {fd[t]}
    /\ Goto(t, "rest")
    /\ UNCHANGED <<target, temp, settled, op, key, records, fd>>

\* Bytes another thread wrote to the same inode, or truncated from it, show by their lengths.
WriteRest(t) ==
    /\ pc[t] = "rest"
    /\ \E bytes \in {Whole(records[t])} \cup (IF content[fd[t]] = Part(t) THEN {} ELSE {Torn}) :
         content' = [content EXCEPT ![fd[t]] = bytes]
    /\ synced' = synced \ {fd[t]}
    /\ Goto(t, "sync")
    /\ UNCHANGED <<target, temp, settled, op, key, records, fd>>

\* Mutant of Sync: the file is renamed without being synced.
NoSync(t) ==
    /\ pc[t] = "sync" /\ Goto(t, "rename")
    /\ fd' = [fd EXCEPT ![t] = None]
    /\ UNCHANGED <<disk, op, key, records>>

\* The descriptor is closed once the bytes are on disk.
Sync(t) ==
    /\ pc[t] = "sync"
    /\ synced' = synced \cup {fd[t]}
    /\ fd' = [fd EXCEPT ![t] = None]
    /\ Goto(t, "rename")
    /\ UNCHANGED <<content, target, temp, settled, op, key, records>>

\* Making or hardening the directory, opening, writing or syncing fails: the temporary file, if
\* there is one, stays where it is.
WriteFails(t) ==
    /\ pc[t] \in {"open", "write", "rest", "sync"}
    /\ Return(t)
    /\ UNCHANGED <<target, temp, settled>> /\ Reap

\* rename goes by name: it moves whatever file the name holds, and fails when it holds none.
Rename(t) ==
    /\ pc[t] = "rename" /\ temp[TempName(t)] # None
    /\ target' = temp[TempName(t)]
    /\ temp' = [temp EXCEPT ![TempName(t)] = None]
    /\ Return(t)
    /\ UNCHANGED settled /\ Reap

\* A rename that fails has the temporary file removed.
RenameFails(t) ==
    /\ pc[t] = "rename"
    /\ temp' = [temp EXCEPT ![TempName(t)] = None]
    /\ Return(t)
    /\ UNCHANGED <<target, settled>> /\ Reap

ProcessDies(p) ==
    /\ Ends({t \in Threads : Pid[t] = p})
    /\ UNCHANGED <<target, temp, settled>> /\ Reap

Settle ==
    /\ settled' = target
    /\ UNCHANGED <<target, temp, locals>> /\ Reap

PowerLoss ==
    /\ target' \in {target, settled} /\ settled' = target'
    /\ \E damage \in {Blank, Torn} :
         content' = [i \in Inodes |-> IF i \in synced THEN content[i] ELSE damage]
    /\ Ends(Threads)
    /\ UNCHANGED <<temp, synced>>

-----------------------------------------------------------------------------
Step(t) ==
    \/ Start(t) \/ ReadFails(t) \/ ReadIsAll(t) \/ ReadToEdit(t)
    \/ OpenTemp(t) \/ WritePart(t) \/ WriteRest(t) \/ Sync(t) \/ WriteFails(t)
    \/ Rename(t) \/ RenameFails(t)

Next ==
    \/ \E t \in Threads : Step(t)
    \/ \E p \in Pids : ProcessDies(p)
    \/ Settle \/ PowerLoss

Spec == Init /\ [][Next]_vars

-----------------------------------------------------------------------------
(* Properties                                                              *)

TypeOK ==
    /\ content \in [Inodes -> {Blank, Torn} \cup {Part(t) : t \in Threads} \cup {Whole(d) : d \in Documents}]
    /\ target \in Inodes \cup {None} /\ settled \in Inodes \cup {None}
    /\ temp \in [Pids -> Inodes \cup {None}]
    /\ synced \subseteq Inodes
    /\ pc \in [Threads -> {"idle", "read", "open", "write", "rest", "sync", "rename"}]
    /\ op \in [Threads -> {"load", "save", "clear", None}]
    /\ key \in [Threads -> Keys \cup {None}]
    /\ records \in [Threads -> Documents]
    /\ fd \in [Threads -> Inodes \cup {None}]
    /\ \A t \in Threads : pc[t] \in {"write", "rest", "sync"} => fd[t] # None

\* A reader sees a complete document or no file: never a truncated or a mixed write, through
\* crashes and power losses.
DocumentWhole == target # None => content[target].state = "whole"

\* The files read as the one document they stand for.
Promise == INSTANCE AtomicDocument WITH
    document <- ReadAll,
    settled <- IF settled = None THEN EmptyDocument ELSE content[settled].doc,
    intent <- [t \in Threads |->
        IF pc[t] \in {"open", "write", "rest", "sync", "rename"} THEN records[t] ELSE None]

\* Every step on the files is a step on the one document, or invisible to its readers.
ImplementsPromise == Promise!Spec

===============================================================================
