------------------------------- MODULE Locks -------------------------------
(* What a lock map promises (the comment over LockMap in go_journal/         *)
(* lockmap.v): "as if LockMap consisted of a lock for every possible uint64  *)
(* ...; LockMap.Acquire(a) acquires the lock associated with a and           *)
(* LockMap.Release(a) release it."                                           *)
CONSTANTS Thread, Addr

VARIABLE owned        \* the addresses whose lock each thread holds

IsFree(a) == \A t \in Thread : a \notin owned[t]

Acquire(t, a) ==
  /\ IsFree(a)
  /\ owned' = [owned EXCEPT ![t] = @ \cup {a}]

Release(t, a) ==
  /\ a \in owned[t]
  /\ owned' = [owned EXCEPT ![t] = @ \ {a}]

Init == owned = [t \in Thread |-> {}]

Next == \E t \in Thread, a \in Addr : Acquire(t, a) \/ Release(t, a)

Spec == Init /\ [][Next]_owned

(* No two threads hold the lock of the same address. *)
Exclusive == \A t, u \in Thread : t # u => owned[t] \cap owned[u] = {}
=============================================================================
