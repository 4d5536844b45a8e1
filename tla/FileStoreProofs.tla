---------------------------- MODULE FileStoreProofs ----------------------------
(***************************************************************************)
(* The credentials file is one document, for every number of processes,    *)
(* keys, values and files, when no two threads of a process use the store. *)
(* (With two, a run shows a mixed write: they share the temporary name.)   *)
(***************************************************************************)
EXTENDS FileStore, TLAPS

OneThreadPerProcess == \A s, t \in Threads : Pid[s] = Pid[t] => s = t

------------------------------------------------------------------------------
(* The inductive invariant                                                 *)

\* What the name credentials.json has meant, or may mean again, is complete and on disk.
TargetsSafe ==
    \A i \in {target, settled} \ {None} : content[i].state = "whole" /\ i \in synced

\* A temporary name holds a file of its own, which no other name holds.
TempsApart ==
    \A p \in Pids : temp[p] # None =>
        /\ temp[p] \notin {target, settled}
        /\ \A q \in Pids \ {p} : temp[q] # temp[p]

\* A thread that writes holds the file of its process's temporary name, and its bytes are as
\* far as the thread has come.
WriterAlone ==
    \A t \in Threads :
        /\ pc[t] \in {"write", "rest", "sync"} <=> fd[t] # None
        /\ fd[t] # None => fd[t] = temp[TempName(t)]
        /\ pc[t] = "write" => content[fd[t]] = Blank
        /\ pc[t] = "rest" => content[fd[t]] = Part(t)
        /\ pc[t] = "sync" => content[fd[t]] = Whole(records[t])

\* What is about to be renamed is the thread's whole document, on disk.
RenameReady ==
    \A t \in Threads : pc[t] = "rename" =>
        /\ temp[TempName(t)] \in synced
        /\ content[temp[TempName(t)]] = Whole(records[t])

\* An operation has its key until it ends.
OperationKnown == \A t \in Threads : pc[t] # "idle" => key[t] \in Keys

FileInv ==
    TypeOK /\ TargetsSafe /\ TempsApart /\ WriterAlone /\ RenameReady /\ OperationKnown

------------------------------------------------------------------------------
(* Lemmas                                                                  *)

\* The bytes of a file tell what state they are in.
LEMMA BytesDiffer ==
    /\ Blank.state = "blank" /\ Torn.state = "torn"
    /\ \A t : Part(t).state = "torn"
    /\ \A d : Whole(d).state = "whole" /\ Whole(d).doc = d
BY DEF Blank, Torn, Part, Whole

\* Whole bytes carry a document.
LEMMA WholeTyped ==
    ASSUME TypeOK, NEW i \in Inodes, content[i].state = "whole"
    PROVE  content[i].doc \in Documents
BY BytesDiffer DEF TypeOK

\* The document a reader reads, and one with a record changed, are documents.
LEMMA EditTyped ==
    ASSUME NEW d \in Documents, NEW k \in Keys, NEW v \in Values \cup {None}
    PROVE  Edited(d, k, v) \in Documents
BY DEF Edited, Documents

LEMMA ReadTyped ==
    ASSUME FileInv
    PROVE  ReadAll \in Documents
<1>1. EmptyDocument \in Documents BY DEF EmptyDocument, Documents
<1>2. target # None => content[target].doc \in Documents
  BY WholeTyped DEF FileInv, TypeOK, TargetsSafe
<1>3. QED BY <1>1, <1>2 DEF ReadAll

\* An operation that ends leaves nothing with its threads and everything with the others.
LEMMA EndsTyped ==
    ASSUME TypeOK, NEW threads \in SUBSET Threads, Ends(threads)
    PROVE  /\ pc' \in [Threads -> {"idle", "read", "open", "write", "rest", "sync", "rename"}]
           /\ op' \in [Threads -> {"load", "save", "clear", None}]
           /\ key' \in [Threads -> Keys \cup {None}]
           /\ records' \in [Threads -> Documents]
           /\ fd' \in [Threads -> Inodes \cup {None}]
           /\ \A t \in Threads :
                IF t \in threads THEN pc'[t] = "idle" /\ fd'[t] = None
                ELSE /\ pc'[t] = pc[t] /\ op'[t] = op[t] /\ key'[t] = key[t]
                     /\ records'[t] = records[t] /\ fd'[t] = fd[t]
<1>1. EmptyDocument \in Documents BY DEF EmptyDocument, Documents
<1>2. QED BY <1>1 DEF Ends, TypeOK

\* What is reaped had no name.
LEMMA ReapTyped ==
    ASSUME TypeOK, Reap
    PROVE  /\ content' \in [Inodes -> {Blank, Torn} \cup {Part(t) : t \in Threads}
                                       \cup {Whole(d) : d \in Documents}]
           /\ synced' \subseteq Inodes /\ synced' \subseteq synced
           /\ \A i \in Inodes : i \in Named' =>
                content'[i] = content[i] /\ (i \in synced => i \in synced')
BY DEF Reap, TypeOK

LEMMA TypeStep == FileInv /\ [Next]_vars => TypeOK'
<1> SUFFICES ASSUME FileInv, [Next]_vars PROVE TypeOK' OBVIOUS
<1> USE StoreAssumption
<1>0. TypeOK BY DEF FileInv
<1>1. ASSUME NEW t \in Threads, Start(t) PROVE TypeOK'
  BY <1>0, <1>1 DEF Start, Goto, disk, TypeOK
<1>2. ASSUME NEW t \in Threads, ReadFails(t) \/ ReadIsAll(t) PROVE TypeOK'
  <2>1. Ends({t}) /\ UNCHANGED disk BY <1>2 DEF ReadFails, ReadIsAll, Return
  <2>2. QED BY <1>0, <2>1, EndsTyped DEF disk, TypeOK
<1>3. ASSUME NEW t \in Threads, ReadToEdit(t) PROVE TypeOK'
  <2>1. key[t] \in Keys BY <1>3 DEF ReadToEdit, FileInv, OperationKnown
  <2>2. PICK d \in Documents : records' = [records EXCEPT ![t] = d]
    BY <1>3, <2>1, ReadTyped, EditTyped DEF ReadToEdit
  <2>3. QED BY <1>0, <1>3, <2>2 DEF ReadToEdit, Goto, disk, TypeOK
<1>4. ASSUME NEW t \in Threads, OpenTemp(t) PROVE TypeOK'
  BY <1>0, <1>4 DEF OpenTemp, TempName, Goto, TypeOK
<1>5. ASSUME NEW t \in Threads, WritePart(t) \/ WriteRest(t) PROVE TypeOK'
  <2>1. fd[t] \in Inodes BY <1>0, <1>5 DEF WritePart, WriteRest, TypeOK
  <2>2. PICK bytes \in {Part(t), Torn, Whole(records[t])} :
          content' = [content EXCEPT ![fd[t]] = bytes]
    BY <1>5 DEF WritePart, WriteRest
  <2>3. QED BY <1>0, <1>5, <2>1, <2>2 DEF WritePart, WriteRest, Goto, TypeOK
<1>6. ASSUME NEW t \in Threads, Sync(t) PROVE TypeOK'
  BY <1>0, <1>6 DEF Sync, Goto, TypeOK
<1>7. ASSUME NEW threads \in SUBSET Threads, Ends(threads), Reap,
             target' \in Inodes \cup {None}, settled' \in Inodes \cup {None},
             temp' \in [Pids -> Inodes \cup {None}]
      PROVE  TypeOK'
  BY <1>0, <1>7, EndsTyped, ReapTyped DEF TypeOK
<1>8. ASSUME NEW t \in Threads, WriteFails(t) \/ Rename(t) \/ RenameFails(t) PROVE TypeOK'
  <2>1. Ends({t}) /\ Reap BY <1>8 DEF WriteFails, Rename, RenameFails, Return
  <2>2. /\ target' \in Inodes \cup {None} /\ settled' \in Inodes \cup {None}
        /\ temp' \in [Pids -> Inodes \cup {None}]
    BY <1>0, <1>8 DEF WriteFails, Rename, RenameFails, TempName, TypeOK
  <2>3. QED BY <1>7, <2>1, <2>2
<1>9. ASSUME NEW p \in Pids, ProcessDies(p) PROVE TypeOK'
  <2>1. {t \in Threads : Pid[t] = p} \in SUBSET Threads OBVIOUS
  <2>2. QED BY <1>0, <1>7, <1>9, <2>1 DEF ProcessDies, TypeOK
<1>10. CASE Settle
  BY <1>0, <1>10, ReapTyped DEF Settle, locals, TypeOK
<1>11. CASE PowerLoss
  BY <1>0, <1>11, EndsTyped DEF PowerLoss, TypeOK
<1>12. CASE UNCHANGED vars
  BY <1>0, <1>12 DEF vars, disk, locals, TypeOK
<1>13. QED
  BY <1>1, <1>2, <1>3, <1>4, <1>5, <1>6, <1>8, <1>9, <1>10, <1>11, <1>12 DEF Next, Step

\* The parts of the invariant that speak of files and threads.
FilesInv == TargetsSafe /\ TempsApart /\ WriterAlone /\ RenameReady /\ OperationKnown

\* A step that reads: nothing on disk changes, and its thread does not write.
LEMMA ReadingStep ==
    ASSUME FileInv, NEW t \in Threads, UNCHANGED <<disk, fd>>, pc[t] \in {"idle", "read"},
           pc'[t] \in {"idle", "read", "open"},
           \A s \in Threads \ {t} : /\ pc'[s] = pc[s] /\ op'[s] = op[s] /\ key'[s] = key[s]
                                    /\ records'[s] = records[s],
           pc'[t] # "idle" => key'[t] \in Keys
    PROVE  FilesInv'
<1>1. TargetsSafe' /\ TempsApart'
  BY DEF FileInv, TargetsSafe, TempsApart, disk
<1>2. WriterAlone' /\ RenameReady' /\ OperationKnown'
  BY DEF FileInv, WriterAlone, RenameReady, OperationKnown, disk, TempName
<1>3. QED BY <1>1, <1>2 DEF FilesInv

\* The file a thread opens is no one else's and not the target's.
LEMMA OwnFile ==
    ASSUME OneThreadPerProcess, FileInv, NEW t \in Threads, NEW inode \in Inodes,
           IF temp[TempName(t)] # None THEN inode = temp[TempName(t)] ELSE inode \notin Named
    PROVE  /\ inode \notin {target, settled}
           /\ \A p \in Pids \ {TempName(t)} : temp[p] # inode
           /\ \A s \in Threads \ {t} : TempName(s) # TempName(t) /\ fd[s] # inode
<1> USE StoreAssumption
<1>1. inode \notin {target, settled} /\ \A p \in Pids \ {TempName(t)} : temp[p] # inode
  <2>1. CASE temp[TempName(t)] # None BY <2>1 DEF FileInv, TempsApart, TempName
  <2>2. CASE temp[TempName(t)] = None BY <2>2 DEF Named
  <2>3. QED BY <2>1, <2>2
<1>2. ASSUME NEW s \in Threads \ {t} PROVE TempName(s) # TempName(t) /\ fd[s] # inode
  <2>1. TempName(s) # TempName(t) BY DEF OneThreadPerProcess, TempName
  <2>2. fd[s] = None \/ fd[s] = temp[TempName(s)] BY DEF FileInv, WriterAlone
  <2>3. TempName(s) \in Pids BY DEF TempName
  <2>4. QED BY <1>1, <2>1, <2>2, <2>3
<1>3. QED BY <1>1, <1>2

\* The file a thread has open is its own in the same sense.
LEMMA OpenFile ==
    ASSUME OneThreadPerProcess, FileInv, NEW t \in Threads, pc[t] \in {"write", "rest", "sync"}
    PROVE  /\ fd[t] \in Inodes /\ fd[t] = temp[TempName(t)]
           /\ fd[t] \notin {target, settled}
           /\ \A p \in Pids \ {TempName(t)} : temp[p] # fd[t]
           /\ \A s \in Threads \ {t} : TempName(s) # TempName(t) /\ fd[s] # fd[t]
<1>1. fd[t] # None /\ fd[t] = temp[TempName(t)] BY DEF FileInv, WriterAlone
<1>2. fd[t] \in Inodes BY <1>1 DEF FileInv, TypeOK
<1>3. QED BY <1>1, <1>2, OwnFile

LEMMA OpenStep ==
    ASSUME OneThreadPerProcess, FileInv, NEW t \in Threads, OpenTemp(t)
    PROVE  FilesInv'
<1> USE StoreAssumption
<1>1. PICK inode \in Inodes :
        /\ IF temp[TempName(t)] # None THEN inode = temp[TempName(t)] ELSE inode \notin Named
        /\ temp' = [temp EXCEPT ![TempName(t)] = inode]
        /\ content' = [content EXCEPT ![inode] = Blank]
        /\ synced' = synced \ {inode}
        /\ fd' = [fd EXCEPT ![t] = inode]
  BY DEF OpenTemp
<1>2. /\ inode \notin {target, settled} /\ inode # None
      /\ \A p \in Pids \ {TempName(t)} : temp[p] # inode
      /\ \A s \in Threads \ {t} : TempName(s) # TempName(t) /\ fd[s] # inode
  BY <1>1, OwnFile
<1>3. /\ pc[t] = "open" /\ pc'[t] = "write" /\ UNCHANGED <<target, settled, op, key, records>>
      /\ \A s \in Threads \ {t} : pc'[s] = pc[s]
  BY DEF OpenTemp, Goto, FileInv, TypeOK
<1>4. /\ temp'[TempName(t)] = inode /\ \A p \in Pids \ {TempName(t)} : temp'[p] = temp[p]
      /\ content'[inode] = Blank /\ \A i \in Inodes \ {inode} : content'[i] = content[i]
      /\ fd'[t] = inode /\ \A s \in Threads \ {t} : fd'[s] = fd[s]
      /\ \A s \in Threads : TempName(s) \in Pids
  BY <1>1 DEF FileInv, TypeOK, TempName
<1>5. TargetsSafe' BY <1>1, <1>2, <1>3, <1>4 DEF FileInv, TypeOK, TargetsSafe
<1>6. TempsApart' BY <1>2, <1>3, <1>4 DEF FileInv, TempsApart
<1>7. WriterAlone'
  <2> SUFFICES ASSUME NEW s \in Threads
               PROVE  /\ pc'[s] \in {"write", "rest", "sync"} <=> fd'[s] # None
                      /\ fd'[s] # None => fd'[s] = temp'[TempName(s)]
                      /\ pc'[s] = "write" => content'[fd'[s]] = Blank
                      /\ pc'[s] = "rest" => content'[fd'[s]] = Part(s)
                      /\ pc'[s] = "sync" => content'[fd'[s]] = Whole(records'[s])
    BY DEF WriterAlone, TempName
  <2>1. CASE s = t BY <1>2, <1>3, <1>4, <2>1
  <2>2. CASE s # t
    <3>1. /\ pc'[s] = pc[s] /\ fd'[s] = fd[s] /\ fd[s] # inode /\ records'[s] = records[s]
          /\ temp'[TempName(s)] = temp[TempName(s)]
      BY <1>2, <1>3, <1>4, <2>2
    <3>2. fd[s] # None => content'[fd[s]] = content[fd[s]]
      BY <1>4, <3>1 DEF FileInv, TypeOK
    <3>3. QED BY <3>1, <3>2 DEF FileInv, WriterAlone
  <2>3. QED BY <2>1, <2>2
<1>8. RenameReady'
  <2> SUFFICES ASSUME NEW s \in Threads, pc'[s] = "rename"
               PROVE  /\ temp'[TempName(s)] \in synced'
                      /\ content'[temp'[TempName(s)]] = Whole(records'[s])
    BY DEF RenameReady, TempName
  <2>1. s # t /\ pc[s] = "rename" BY <1>3
  <2>2. /\ temp'[TempName(s)] = temp[TempName(s)] /\ temp[TempName(s)] # inode
        /\ temp[TempName(s)] \in synced
        /\ content[temp[TempName(s)]] = Whole(records[s])
    BY <1>2, <1>4, <2>1 DEF FileInv, RenameReady
  <2>3. QED BY <1>1, <1>3, <1>4, <2>2 DEF FileInv, TypeOK
<1>9. OperationKnown' BY <1>3 DEF FileInv, OperationKnown
<1>10. QED BY <1>5, <1>6, <1>7, <1>8, <1>9 DEF FilesInv

\* A write changes the thread's own file alone, and is as far as its place says.
LEMMA WriteStep ==
    ASSUME OneThreadPerProcess, FileInv, NEW t \in Threads, WritePart(t) \/ WriteRest(t)
    PROVE  FilesInv'
<1>1. /\ pc[t] \in {"write", "rest"} /\ pc'[t] \in {"rest", "sync"}
      /\ UNCHANGED <<target, temp, settled, op, key, records, fd>>
      /\ \A s \in Threads \ {t} : pc'[s] = pc[s]
      /\ synced' = synced \ {fd[t]}
  BY DEF WritePart, WriteRest, Goto, FileInv, TypeOK
<1>2. /\ fd[t] \in Inodes /\ fd[t] = temp[TempName(t)]
      /\ fd[t] \notin {target, settled}
      /\ \A p \in Pids \ {TempName(t)} : temp[p] # fd[t]
      /\ \A s \in Threads \ {t} : TempName(s) # TempName(t) /\ fd[s] # fd[t]
  BY <1>1, OpenFile
<1>3. \A i \in Inodes \ {fd[t]} : content'[i] = content[i]
  BY DEF WritePart, WriteRest, FileInv, TypeOK
<1>4. /\ pc'[t] = "rest" => content'[fd[t]] = Part(t)
      /\ pc'[t] = "sync" => content'[fd[t]] = Whole(records[t])
  <2>1. CASE WritePart(t)
    <3>1. content[fd[t]] = Blank BY <2>1 DEF WritePart, FileInv, WriterAlone
    <3>2. QED BY <1>2, <2>1, <3>1 DEF WritePart, Goto, FileInv, TypeOK
  <2>2. CASE WriteRest(t)
    <3>1. content[fd[t]] = Part(t) BY <2>2 DEF WriteRest, FileInv, WriterAlone
    <3>2. QED BY <1>2, <2>2, <3>1 DEF WriteRest, Goto, FileInv, TypeOK
  <2>3. QED BY <2>1, <2>2
<1>5. TargetsSafe' BY <1>1, <1>2, <1>3 DEF FileInv, TypeOK, TargetsSafe
<1>6. TempsApart' BY <1>1 DEF FileInv, TempsApart
<1>7. WriterAlone'
  <2> SUFFICES ASSUME NEW s \in Threads
               PROVE  /\ pc'[s] \in {"write", "rest", "sync"} <=> fd[s] # None
                      /\ fd[s] # None => fd[s] = temp[TempName(s)]
                      /\ pc'[s] = "write" => content'[fd[s]] = Blank
                      /\ pc'[s] = "rest" => content'[fd[s]] = Part(s)
                      /\ pc'[s] = "sync" => content'[fd[s]] = Whole(records[s])
    BY <1>1 DEF WriterAlone, TempName
  <2>1. CASE s = t BY <1>1, <1>4, <2>1 DEF FileInv, WriterAlone
  <2>2. CASE s # t
    <3>1. pc'[s] = pc[s] /\ fd[s] # fd[t] BY <1>1, <1>2, <2>2
    <3>2. fd[s] # None => content'[fd[s]] = content[fd[s]]
      BY <1>3, <3>1 DEF FileInv, TypeOK
    <3>3. QED BY <3>1, <3>2 DEF FileInv, WriterAlone
  <2>3. QED BY <2>1, <2>2
<1>8. RenameReady'
  <2> SUFFICES ASSUME NEW s \in Threads, pc'[s] = "rename"
               PROVE  /\ temp[TempName(s)] \in synced'
                      /\ content'[temp[TempName(s)]] = Whole(records[s])
    BY <1>1 DEF RenameReady, TempName
  <2>1. s # t /\ pc[s] = "rename" /\ TempName(s) \in Pids
    BY <1>1, StoreAssumption DEF TempName
  <2>2. /\ temp[TempName(s)] # fd[t] /\ temp[TempName(s)] \in synced
        /\ content[temp[TempName(s)]] = Whole(records[s])
    BY <1>2, <2>1 DEF FileInv, RenameReady
  <2>3. QED BY <1>1, <1>3, <2>2 DEF FileInv, TypeOK
<1>9. OperationKnown' BY <1>1 DEF FileInv, OperationKnown
<1>10. QED BY <1>5, <1>6, <1>7, <1>8, <1>9 DEF FilesInv

LEMMA SyncStep ==
    ASSUME OneThreadPerProcess, FileInv, NEW t \in Threads, Sync(t)
    PROVE  FilesInv'
<1>1. /\ pc[t] = "sync" /\ pc'[t] = "rename" /\ fd'[t] = None
      /\ UNCHANGED <<content, target, temp, settled, op, key, records>>
      /\ \A s \in Threads \ {t} : pc'[s] = pc[s] /\ fd'[s] = fd[s]
      /\ synced' = synced \cup {fd[t]}
  BY DEF Sync, Goto, FileInv, TypeOK
<1>2. fd[t] = temp[TempName(t)] BY <1>1, OpenFile
<1>3. TargetsSafe' BY <1>1 DEF FileInv, TargetsSafe
<1>4. TempsApart' BY <1>1 DEF FileInv, TempsApart
<1>5. WriterAlone' BY <1>1 DEF FileInv, WriterAlone, TempName
<1>6. RenameReady' BY <1>1, <1>2 DEF FileInv, WriterAlone, RenameReady, TempName
<1>7. OperationKnown' BY <1>1, StoreAssumption DEF FileInv, OperationKnown
<1>8. QED BY <1>3, <1>4, <1>5, <1>6, <1>7 DEF FilesInv

\* Operations end, names move to files that are whole, and what no name holds is reaped: what
\* the other threads need stays.
LEMMA EndStep ==
    ASSUME FileInv, TypeOK', NEW threads \in SUBSET Threads, Ends(threads), Reap,
           \A i \in {target', settled'} \ {None} : content[i].state = "whole" /\ i \in synced,
           TempsApart',
           \A t \in Threads \ threads : temp'[TempName(t)] = temp[TempName(t)]
    PROVE  FilesInv'
<1> USE StoreAssumption
<1>1. \A t \in Threads :
        IF t \in threads THEN pc'[t] = "idle" /\ fd'[t] = None
        ELSE /\ pc'[t] = pc[t] /\ op'[t] = op[t] /\ key'[t] = key[t]
             /\ records'[t] = records[t] /\ fd'[t] = fd[t]
  BY EndsTyped DEF FileInv
<1>2. \A i \in Inodes : i \in Named' =>
        content'[i] = content[i] /\ (i \in synced => i \in synced')
  BY ReapTyped DEF FileInv
<1>3. TargetsSafe'
  <2>1. \A i \in {target', settled'} \ {None} : i \in Named' /\ i \in Inodes
    BY DEF Named, TypeOK
  <2>2. QED BY <1>2, <2>1 DEF TargetsSafe
<1>4. WriterAlone'
  <2> SUFFICES ASSUME NEW t \in Threads
               PROVE  /\ pc'[t] \in {"write", "rest", "sync"} <=> fd'[t] # None
                      /\ fd'[t] # None => fd'[t] = temp'[TempName(t)]
                      /\ pc'[t] = "write" => content'[fd'[t]] = Blank
                      /\ pc'[t] = "rest" => content'[fd'[t]] = Part(t)
                      /\ pc'[t] = "sync" => content'[fd'[t]] = Whole(records'[t])
    BY DEF WriterAlone, TempName
  <2>1. CASE t \in threads BY <1>1, <2>1
  <2>2. CASE t \notin threads
    <3>1. /\ pc'[t] = pc[t] /\ records'[t] = records[t] /\ fd'[t] = fd[t]
          /\ temp'[TempName(t)] = temp[TempName(t)]
      BY <1>1, <2>2
    <3>2. fd'[t] \in Named' BY DEF Named
    <3>3. fd[t] # None => content'[fd[t]] = content[fd[t]]
      BY <1>2, <3>1, <3>2 DEF FileInv, TypeOK
    <3>4. QED BY <3>1, <3>3 DEF FileInv, WriterAlone
  <2>3. QED BY <2>1, <2>2
<1>5. RenameReady'
  <2> SUFFICES ASSUME NEW t \in Threads, pc'[t] = "rename"
               PROVE  /\ temp'[TempName(t)] \in synced'
                      /\ content'[temp'[TempName(t)]] = Whole(records'[t])
    BY DEF RenameReady, TempName
  <2>1. /\ t \notin threads /\ pc[t] = "rename" /\ records'[t] = records[t]
        /\ temp'[TempName(t)] = temp[TempName(t)]
    BY <1>1
  <2>2. temp[TempName(t)] \in synced /\ content[temp[TempName(t)]] = Whole(records[t])
    BY <2>1 DEF FileInv, RenameReady
  <2>3. temp'[TempName(t)] \in Named' BY DEF Named, TempName
  <2>4. temp[TempName(t)] \in Inodes BY <2>2 DEF FileInv, TypeOK
  <2>5. QED BY <1>2, <2>1, <2>2, <2>3, <2>4
<1>6. OperationKnown' BY <1>1 DEF FileInv, OperationKnown
<1>7. QED BY <1>3, <1>4, <1>5, <1>6 DEF FilesInv

LEMMA InvStep == OneThreadPerProcess /\ FileInv /\ [Next]_vars => FileInv'
<1> SUFFICES ASSUME OneThreadPerProcess, FileInv, [Next]_vars PROVE FileInv' OBVIOUS
<1> USE StoreAssumption
<1>0. TypeOK /\ TypeOK' BY TypeStep DEF FileInv
<1>1. ASSUME NEW t \in Threads, Start(t) PROVE FilesInv'
  <2>1. PICK k \in Keys : key' = [key EXCEPT ![t] = k] BY <1>1 DEF Start
  <2>2. PICK o : op' = [op EXCEPT ![t] = o] BY <1>1 DEF Start
  <2>3. QED BY <1>0, <1>1, <2>1, <2>2, ReadingStep DEF Start, Goto, TypeOK
<1>2. ASSUME NEW t \in Threads, ReadFails(t) \/ ReadIsAll(t) PROVE FilesInv'
  <2>1. Ends({t}) /\ UNCHANGED disk /\ pc[t] = "read"
    BY <1>2 DEF ReadFails, ReadIsAll, Return
  <2>2. fd[t] = None BY <2>1 DEF FileInv, WriterAlone
  <2>3. fd' = fd BY <1>0, <2>1, <2>2 DEF Ends, TypeOK
  <2>4. QED BY <1>0, <2>1, <2>3, EndsTyped, ReadingStep
<1>3. ASSUME NEW t \in Threads, ReadToEdit(t) PROVE FilesInv'
  <2>1. /\ pc[t] = "read" /\ pc'[t] = "open" /\ UNCHANGED <<disk, op, key, fd>>
        /\ \A s \in Threads \ {t} : pc'[s] = pc[s] /\ records'[s] = records[s]
    BY <1>0, <1>3 DEF ReadToEdit, Goto, TypeOK
  <2>2. key[t] \in Keys BY <2>1 DEF FileInv, OperationKnown
  <2>3. QED BY <2>1, <2>2, ReadingStep
<1>4. ASSUME NEW t \in Threads, WriteFails(t) PROVE FilesInv'
  <2>1. Ends({t}) /\ Reap /\ UNCHANGED <<target, temp, settled>> BY <1>4 DEF WriteFails, Return
  <2>2. QED BY <1>0, <2>1, EndStep DEF FileInv, TargetsSafe, TempsApart
<1>5. ASSUME NEW t \in Threads, Rename(t) PROVE FilesInv'
  <2>1. /\ Ends({t}) /\ Reap /\ settled' = settled /\ target' = temp[TempName(t)]
        /\ temp[TempName(t)] # None
        /\ temp' = [temp EXCEPT ![TempName(t)] = None] /\ pc[t] = "rename"
    BY <1>5 DEF Rename, Return
  <2>2. /\ temp'[TempName(t)] = None
        /\ \A p \in Pids \ {TempName(t)} : temp'[p] = temp[p]
    BY <1>0, <2>1 DEF TypeOK, TempName
  <2>3. content[target'].state = "whole" /\ target' \in synced
    BY <2>1, BytesDiffer DEF FileInv, RenameReady
  <2>4. TempsApart' BY <2>1, <2>2 DEF FileInv, TempsApart, TempName
  <2>5. \A s \in Threads \ {t} : temp'[TempName(s)] = temp[TempName(s)]
    BY <2>2 DEF OneThreadPerProcess, TempName
  <2>6. \A i \in {target', settled'} \ {None} : content[i].state = "whole" /\ i \in synced
    BY <2>1, <2>3 DEF FileInv, TargetsSafe
  <2>7. QED BY <1>0, <2>1, <2>4, <2>5, <2>6, EndStep
<1>6. ASSUME NEW t \in Threads, RenameFails(t) PROVE FilesInv'
  <2>1. /\ Ends({t}) /\ Reap /\ UNCHANGED <<target, settled>>
        /\ temp' = [temp EXCEPT ![TempName(t)] = None]
    BY <1>6 DEF RenameFails, Return
  <2>2. /\ temp'[TempName(t)] = None
        /\ \A p \in Pids \ {TempName(t)} : temp'[p] = temp[p]
    BY <1>0, <2>1 DEF TypeOK, TempName
  <2>3. TempsApart' BY <2>1, <2>2 DEF FileInv, TempsApart
  <2>4. \A s \in Threads \ {t} : temp'[TempName(s)] = temp[TempName(s)]
    BY <2>2 DEF OneThreadPerProcess, TempName
  <2>5. QED BY <1>0, <2>1, <2>3, <2>4, EndStep DEF FileInv, TargetsSafe
<1>7. ASSUME NEW p \in Pids, ProcessDies(p) PROVE FilesInv'
  <2>1. {t \in Threads : Pid[t] = p} \in SUBSET Threads OBVIOUS
  <2>2. QED BY <1>0, <1>7, <2>1, EndStep DEF ProcessDies, FileInv, TargetsSafe, TempsApart
<1>8. CASE Settle
  <2>1. Ends({}) BY <1>0, <1>8 DEF Settle, locals, Ends, TypeOK
  <2>2. settled' = target /\ UNCHANGED <<target, temp>> /\ Reap BY <1>8 DEF Settle
  <2>3. TempsApart' BY <2>2 DEF FileInv, TempsApart
  <2>4. \A i \in {target', settled'} \ {None} : content[i].state = "whole" /\ i \in synced
    BY <2>2 DEF FileInv, TargetsSafe
  <2>5. FilesInv' BY <1>0, <2>1, <2>2, <2>3, <2>4, EndStep
  <2>6. QED BY <1>0, <2>5 DEF FileInv, FilesInv
<1>9. CASE PowerLoss
  <2>1. /\ target' \in {target, settled} /\ settled' = target'
        /\ temp' = temp /\ synced' = synced
        /\ \A i \in synced : content'[i] = content[i]
    BY <1>0, <1>9 DEF PowerLoss, TypeOK
  <2>2. \A t \in Threads : pc'[t] = "idle" /\ fd'[t] = None
    BY <1>0, <1>9, EndsTyped DEF PowerLoss
  <2>3. TargetsSafe' BY <2>1 DEF FileInv, TargetsSafe
  <2>4. TempsApart' BY <2>1 DEF FileInv, TempsApart
  <2>5. WriterAlone' /\ RenameReady' /\ OperationKnown'
    BY <2>2 DEF WriterAlone, RenameReady, OperationKnown
  <2>6. QED BY <1>0, <2>3, <2>4, <2>5 DEF FileInv
<1>10. CASE UNCHANGED vars
  BY <1>0, <1>10
  DEF vars, disk, locals, FileInv, TargetsSafe, TempsApart, WriterAlone, RenameReady,
      OperationKnown, TempName
<1>11. ASSUME NEW t \in Threads, Step(t) PROVE FilesInv'
  BY <1>1, <1>2, <1>3, <1>4, <1>5, <1>6, <1>11, OpenStep, WriteStep, SyncStep DEF Step
<1>12. QED BY <1>0, <1>7, <1>8, <1>9, <1>10, <1>11 DEF Next, FileInv, FilesInv

LEMMA FileInvariant == OneThreadPerProcess /\ Spec => []FileInv
<1> SUFFICES ASSUME OneThreadPerProcess PROVE Spec => []FileInv OBVIOUS
<1>1. Init => FileInv
  <2>1. EmptyDocument \in Documents BY DEF EmptyDocument, Documents
  <2>2. QED
    BY <2>1 DEF Init, FileInv, TypeOK, TargetsSafe, TempsApart, WriterAlone, RenameReady,
                OperationKnown
<1>2. FileInv /\ [Next]_vars => FileInv' BY InvStep
<1>3. QED BY <1>1, <1>2, PTL DEF Spec

\* A reader sees a complete document or no file, through failed writes, deaths and power
\* losses, when no two threads of a process use the store.
THEOREM DocumentIsWhole == OneThreadPerProcess /\ Spec => []DocumentWhole
<1> SUFFICES ASSUME OneThreadPerProcess PROVE Spec => []DocumentWhole OBVIOUS
<1>1. FileInv => DocumentWhole BY DEF FileInv, TargetsSafe, DocumentWhole
<1>2. QED BY <1>1, FileInvariant, PTL

------------------------------------------------------------------------------
(* The files implement the one document                                    *)

SettledDoc == IF settled = None THEN EmptyDocument ELSE content[settled].doc

\* The document a thread is about to put in place.
Intent(t) == IF pc[t] \in {"open", "write", "rest", "sync", "rename"} THEN records[t] ELSE None

Intents == [t \in Threads |-> Intent(t)]

\* A file that keeps a name keeps the document in it.
LEMMA DocumentsKept ==
    ASSUME FileInv, NEW i \in {target, settled} \ {None}, i \in {target', settled'},
           \/ Reap
           \/ content' = content
           \/ \A j \in synced : content'[j] = content[j]
    PROVE  content'[i] = content[i]
<1>1. i \in Inodes /\ i \in synced BY DEF FileInv, TypeOK, TargetsSafe
<1>2. i \in Named' BY DEF Named
<1>3. QED BY <1>1, <1>2 DEF Reap

\* Threads that give up put nothing in place.
LEMMA EndIntents ==
    ASSUME TypeOK, NEW threads \in SUBSET Threads, Ends(threads)
    PROVE  Intents' = [t \in Threads |-> IF t \in threads THEN None ELSE Intents[t]]
BY EndsTyped DEF Intents, Intent

LEMMA PromiseStep ==
    ASSUME OneThreadPerProcess, FileInv, FileInv', [Next]_vars
    PROVE  [Promise!Next]_(Promise!vars)
<1> USE StoreAssumption
<1>0. TypeOK /\ ReadAll \in Documents BY ReadTyped DEF FileInv
<1> DEFINE Stutter == ReadAll' = ReadAll /\ SettledDoc' = SettledDoc /\ Intents' = Intents
<1>a. ASSUME Stutter PROVE [Promise!Next]_(Promise!vars)
  BY <1>a DEF Promise!vars, SettledDoc, Intents, Intent
<1>b. ASSUME NEW threads \in SUBSET Threads, ReadAll' = ReadAll, SettledDoc' = SettledDoc,
             Intents' = [t \in Threads |-> IF t \in threads THEN None ELSE Intents[t]]
      PROVE  [Promise!Next]_(Promise!vars)
  <2>1. Promise!GiveUp(threads)
    BY <1>b DEF Promise!GiveUp, SettledDoc, Intents, Intent
  <2>2. QED BY <2>1 DEF Promise!Next
<1>1. ASSUME UNCHANGED <<target, settled>>,
             \/ Reap \/ content' = content \/ \A j \in synced : content'[j] = content[j]
      PROVE  ReadAll' = ReadAll /\ SettledDoc' = SettledDoc
  BY <1>1, DocumentsKept DEF ReadAll, SettledDoc
<1>2. ASSUME NEW t \in Threads, Start(t) PROVE Stutter
  <2>1. Intents' = Intents BY <1>0, <1>2 DEF Start, Goto, Intents, Intent, TypeOK
  <2>2. QED BY <1>1, <1>2, <2>1 DEF Start, disk
<1>3. ASSUME NEW t \in Threads, ReadFails(t) \/ ReadIsAll(t) PROVE [Promise!Next]_(Promise!vars)
  <2>1. Ends({t}) /\ UNCHANGED disk BY <1>3 DEF ReadFails, ReadIsAll, Return
  <2>2. QED BY <1>0, <1>1, <1>b, <2>1, EndIntents DEF disk
<1>4. ASSUME NEW t \in Threads, ReadToEdit(t) PROVE [Promise!Next]_(Promise!vars)
  <2>1. pc[t] = "read" /\ key[t] \in Keys
    BY <1>4 DEF ReadToEdit, FileInv, OperationKnown
  <2>2. PICK v \in Values \cup {None} :
          records' = [records EXCEPT ![t] = Edited(ReadAll, key[t], v)]
    BY <1>4 DEF ReadToEdit
  <2>3. ReadAll' = ReadAll /\ SettledDoc' = SettledDoc BY <1>1, <1>4 DEF ReadToEdit, disk
  <2>4. Intents[t] = None BY <2>1 DEF Intents, Intent
  <2>5. Intents' = [Intents EXCEPT ![t] = [ReadAll EXCEPT ![key[t]] = v]]
    BY <1>0, <1>4, <2>2 DEF ReadToEdit, Goto, Intents, Intent, Edited, TypeOK
  <2>6. Promise!Prepare(t)
    BY <2>1, <2>3, <2>4, <2>5 DEF Promise!Prepare, SettledDoc, Intents, Intent
  <2>7. QED BY <2>6 DEF Promise!Next
<1>5. ASSUME NEW t \in Threads, OpenTemp(t) \/ WritePart(t) \/ WriteRest(t) \/ Sync(t) PROVE Stutter
  <2>1. UNCHANGED <<target, settled>> /\ Intents' = Intents
    BY <1>0, <1>5 DEF OpenTemp, WritePart, WriteRest, Sync, Goto, Intents, Intent, TypeOK
  <2>2. ASSUME NEW i \in {target, settled} \ {None} PROVE content'[i] = content[i]
    <3>1. i \in Inodes BY <1>0 DEF TypeOK
    <3>2. CASE OpenTemp(t)
      <4>1. PICK inode \in Inodes :
              /\ IF temp[TempName(t)] # None THEN inode = temp[TempName(t)] ELSE inode \notin Named
              /\ content' = [content EXCEPT ![inode] = Blank]
        BY <3>2 DEF OpenTemp
      <4>2. inode \notin {target, settled} BY <4>1, OwnFile
      <4>3. QED BY <1>0, <3>1, <4>1, <4>2 DEF TypeOK
    <3>3. CASE WritePart(t) \/ WriteRest(t)
      <4>1. fd[t] \notin {target, settled} BY <3>3, OpenFile DEF WritePart, WriteRest
      <4>2. QED BY <1>0, <3>1, <3>3, <4>1 DEF WritePart, WriteRest, TypeOK
    <3>4. CASE Sync(t) BY <3>4 DEF Sync
    <3>5. QED BY <1>5, <3>2, <3>3, <3>4
  <2>3. QED BY <2>1, <2>2 DEF ReadAll, SettledDoc
<1>6. ASSUME NEW t \in Threads, WriteFails(t) PROVE [Promise!Next]_(Promise!vars)
  <2>1. Ends({t}) /\ Reap /\ UNCHANGED <<target, settled>> BY <1>6 DEF WriteFails, Return
  <2>2. QED BY <1>0, <1>1, <1>b, <2>1, EndIntents
<1>7. ASSUME NEW t \in Threads, RenameFails(t) PROVE [Promise!Next]_(Promise!vars)
  <2>1. Ends({t}) /\ Reap /\ UNCHANGED <<target, settled>> BY <1>7 DEF RenameFails, Return
  <2>2. QED BY <1>0, <1>1, <1>b, <2>1, EndIntents
<1>8. ASSUME NEW t \in Threads, Rename(t) PROVE [Promise!Next]_(Promise!vars)
  <2>1. /\ Ends({t}) /\ Reap /\ settled' = settled /\ target' = temp[TempName(t)]
        /\ target' # None /\ pc[t] = "rename"
    BY <1>8 DEF Rename, Return
  <2>2. target' \in Inodes /\ content[target'] = Whole(records[t])
    BY <2>1 DEF FileInv, RenameReady, TypeOK
  <2>3. content'[target'] = content[target']
    <3>1. target' \in Named' BY DEF Named
    <3>2. QED BY <2>1, <2>2, <3>1 DEF Reap
  <2>4. ReadAll' = records[t] BY <2>1, <2>2, <2>3, BytesDiffer DEF ReadAll
  <2>5. SettledDoc' = SettledDoc BY <2>1, DocumentsKept DEF SettledDoc
  <2>6. Intents[t] = records[t] /\ records[t] # None
    BY <1>0, <2>1 DEF Intents, Intent, TypeOK
  <2>7. Intents' = [Intents EXCEPT ![t] = None]
    <3>1. Intents' = [s \in Threads |-> IF s \in {t} THEN None ELSE Intents[s]]
      BY <1>0, <2>1, EndIntents
    <3>2. Intents = [s \in Threads |-> Intents[s]] BY DEF Intents
    <3>3. QED BY <3>1, <3>2
  <2>8. Promise!Replace(t)
    BY <2>4, <2>5, <2>6, <2>7 DEF Promise!Replace, SettledDoc, Intents, Intent
  <2>9. QED BY <2>8 DEF Promise!Next
<1>9. ASSUME NEW p \in Pids, ProcessDies(p) PROVE [Promise!Next]_(Promise!vars)
  <2>1. {t \in Threads : Pid[t] = p} \in SUBSET Threads OBVIOUS
  <2>2. Ends({t \in Threads : Pid[t] = p}) /\ Reap /\ UNCHANGED <<target, settled>>
    BY <1>9 DEF ProcessDies
  <2>3. QED BY <1>0, <1>1, <1>b, <2>1, <2>2, EndIntents
<1>10. ASSUME Settle PROVE [Promise!Next]_(Promise!vars)
  <2>1. /\ settled' = target /\ target' = target /\ Reap /\ Intents' = Intents
    BY <1>10 DEF Settle, locals, Intents, Intent
  <2>2. ReadAll' = ReadAll BY <2>1, DocumentsKept DEF ReadAll
  <2>3. SettledDoc' = ReadAll' BY <2>1 DEF SettledDoc, ReadAll
  <2>4. Promise!Settle
    BY <2>1, <2>2, <2>3 DEF Promise!Settle, SettledDoc, Intents, Intent
  <2>5. QED BY <2>4 DEF Promise!Next
<1>11. ASSUME PowerLoss PROVE [Promise!Next]_(Promise!vars)
  <2>1. /\ target' \in {target, settled} /\ settled' = target'
        /\ \A i \in synced : content'[i] = content[i]
    BY <1>0, <1>11 DEF PowerLoss, TypeOK
  <2>2. ReadAll' \in {ReadAll, SettledDoc} /\ SettledDoc' = ReadAll'
    BY <2>1, DocumentsKept DEF ReadAll, SettledDoc
  <2>3. Intents' = [t \in Threads |-> None]
    BY <1>0, <1>11, EndIntents DEF PowerLoss
  <2>4. Promise!PowerLoss
    BY <2>2, <2>3 DEF Promise!PowerLoss, SettledDoc, Intents, Intent
  <2>5. QED BY <2>4 DEF Promise!Next
<1>12. CASE UNCHANGED vars
  BY <1>12 DEF vars, disk, locals, Promise!vars, ReadAll
<1>13. QED
  <2>1. ASSUME NEW t \in Threads, Step(t) PROVE [Promise!Next]_(Promise!vars)
    BY <1>a, <1>2, <1>3, <1>4, <1>5, <1>6, <1>7, <1>8, <2>1 DEF Step
  <2>2. QED BY <1>9, <1>10, <1>11, <1>12, <2>1 DEF Next

\* Every step of the processes on their files is a step on one document, replaced as a whole by
\* a writer that read it earlier, or invisible to its readers: lost updates and all.
THEOREM FilesImplementPromise == OneThreadPerProcess /\ Spec => ImplementsPromise
<1> SUFFICES ASSUME OneThreadPerProcess PROVE Spec => ImplementsPromise OBVIOUS
<1>1. Init => Promise!Init
  BY DEF Init, Promise!Init, ReadAll, EmptyDocument
<1>2. FileInv /\ FileInv' /\ [Next]_vars => [Promise!Next]_(Promise!vars) BY PromiseStep
<1>3. QED BY <1>1, <1>2, FileInvariant, PTL DEF Spec, ImplementsPromise, Promise!Spec
================================================================================
