------------------------------ MODULE MCPaxos -------------------------------
(* Three servers.                                                            *)
EXTENDS Paxos, TLC

CONSTANTS s1, s2, s3, a, b
MCServer == {s1, s2, s3}
MCOp     == {a, b}
Symmetry == Permutations(MCServer) \cup Permutations(MCOp)
=============================================================================
