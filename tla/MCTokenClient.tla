----------------------------- MODULE MCTokenClient -----------------------------
(* Two calls of two clients, or of one; one call of one client. *)
EXTENDS TokenClient

CONSTANTS alice, bob, a1, b1

MCOwner == [c \in Calls |-> IF c = a1 THEN alice ELSE bob]

\* One lifetime inside the skew, one outside it, and none stated.
MCLifetimes == {1, 2, None}

\* While no time passes: ensure_valid returns what it loads, refresh exchanges it.
MCRaceLifetimes == {None}

===============================================================================
