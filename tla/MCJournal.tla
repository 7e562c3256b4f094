----------------------------- MODULE MCJournal -----------------------------
(* Small instances of Journal for TLC. *)
EXTENDS Journal, TLC

CONSTANTS c1, c2

\* two objects share block 0, a third has block 1
Objects == { [Blkno |-> 0, Off |-> 0], [Blkno |-> 0, Off |-> 1], [Blkno |-> 1, Off |-> 0] }

Clients == Permutations({c1, c2})
=============================================================================
