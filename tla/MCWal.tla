------------------------------- MODULE MCWal -------------------------------
(* Small instances of Wal for TLC. *)
EXTENDS WalInv, TLC

CONSTANTS a1, a2, c1, c2

\* transactions of one block, or of one or two
OneWrite    == { <<a1>> }
SmallWrites == { <<a1>>, <<a1, a2>> }

Clients == Permutations({c1, c2})
=============================================================================
