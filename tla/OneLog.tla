------------------------------- MODULE OneLog -------------------------------
(* What the replicated state promises its callers: there is one log, what    *)
(* was acknowledged is in it for good, and it only grows.                    *)
EXTENDS Sequences, Naturals

VARIABLE log

Init == log = <<>>

Extends(t, s) == Len(s) <= Len(t) /\ SubSeq(t, 1, Len(s)) = s

Next == Extends(log', log)

Spec == Init /\ [][Next]_log
=============================================================================
