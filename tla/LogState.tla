----------------------------- MODULE LogState -----------------------------
(* What the write-ahead log promises: the transition system log_state of     *)
(* program_proof/wal/abstraction.v and transitions.v.  The state is the      *)
(* sequence of transactions ever appended, with the position each was given, *)
(* and two lower bounds into it: every transaction up to durable_lb survives *)
(* a crash, and the data region holds at least the transactions up to        *)
(* installed_lb.  Transaction 1 is the initial, empty one.                   *)
EXTENDS Integers, Sequences, FiniteSetsExt

CONSTANTS Addr, InitBlock

VARIABLES txns, durable_lb, installed_lb
lsvars == <<txns, durable_lb, installed_lb>>

(* The last update the transactions ts make to a, in order (apply_upds).     *)
Writers(ts, a) ==
  { i \in DOMAIN ts : \E j \in DOMAIN ts[i].upds : ts[i].upds[j].Addr = a }

LastWrite(upds, a) == upds[Max({ j \in DOMAIN upds : upds[j].Addr = a })].Block

Value(ts, a) ==
  IF Writers(ts, a) = {} THEN InitBlock
                         ELSE LastWrite(ts[Max(Writers(ts, a))].upds, a)

(* disk_at_txn_id *)
DiskAt(n) == [a \in Addr |-> Value(SubSeq(txns, 1, n), a)]

LSInit ==
  /\ Len(txns) = 1
  /\ txns[1].pos \in Nat /\ txns[1].upds = <<>>
  /\ durable_lb = 1
  /\ installed_lb = 1

(* log_mem_append: any position at least as high as those given out. *)
LogMemAppend ==
  /\ Len(txns') = Len(txns) + 1
  /\ SubSeq(txns', 1, Len(txns)) = txns
  /\ \A i \in DOMAIN txns : txns[i].pos <= txns'[Len(txns')].pos
  /\ UNCHANGED <<durable_lb, installed_lb>>

(* update_durable *)
UpdateDurable ==
  /\ \E n \in durable_lb..Len(txns) : durable_lb' = n
  /\ UNCHANGED <<txns, installed_lb>>

(* update_installed *)
UpdateInstalled ==
  /\ \E n \in installed_lb..durable_lb : installed_lb' = n
  /\ UNCHANGED <<txns, durable_lb>>

(* log_crash keeps the transactions up to some crash_txn that includes every *)
(* durable one.  After it, update_installed may run before anyone looks, so  *)
(* the two are one step.                                                     *)
LogCrash ==
  \E n \in durable_lb..Len(txns) :
    /\ txns' = SubSeq(txns, 1, n)
    /\ durable_lb' = n
    /\ \E m \in installed_lb..n : installed_lb' = m

LSNext == LogMemAppend \/ UpdateDurable \/ UpdateInstalled \/ LogCrash

LSSpec == LSInit /\ [][LSNext]_lsvars
=============================================================================
