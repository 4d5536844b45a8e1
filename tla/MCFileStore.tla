------------------------------ MODULE MCFileStore ------------------------------
(* Two threads: of two processes, or of one. *)
EXTENDS FileStore, TLC

CONSTANTS t1, t2, p1, p2

MCOwnProcess == [t \in Threads |-> IF t = t1 THEN p1 ELSE p2]

MCOneProcess == [t \in Threads |-> p1]

\* Inodes are interchangeable: no step prefers one, and nothing is checked of their names.
MCInodeSymmetry == Permutations(Inodes)

===============================================================================
