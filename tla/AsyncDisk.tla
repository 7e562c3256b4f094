----------------------------- MODULE AsyncDisk -----------------------------
(* A disk with a volatile write cache, one block at a time: the record       *)
(* `async` of algebra/log_heap.v and the operations goose_lang/ffi/          *)
(* async_disk.v gives it.  A block has a latest value, which reads return,   *)
(* and the values it may still fall back to, which a crash may expose.  The  *)
(* code keeps the earlier values in a list; only membership is ever asked    *)
(* of it, so a set stands for the list.                                      *)
EXTENDS Integers

AsyncOf(V) == [latest : V, pending : SUBSET V]

Sync(v) == [latest |-> v, pending |-> {}]

(* The values the block can have after a crash. *)
Possible(ab) == ab.pending \cup {ab.latest}

AsyncPut(v, ab) == [latest |-> v, pending |-> Possible(ab)]

FlushBlock(ab) == Sync(ab.latest)

(* BarrierOp on an array of blocks: flush <$> d. *)
FlushDisk(d) == [a \in DOMAIN d |-> FlushBlock(d[a])]

(* Every block of d chooses its fate independently (ffi_crash_step). *)
CrashDisks(d) ==
  { e \in [DOMAIN d -> UNION {Possible(d[a]) : a \in DOMAIN d}] :
      \A a \in DOMAIN d : e[a] \in Possible(d[a]) }

SyncDisk(e) == [a \in DOMAIN e |-> Sync(e[a])]
=============================================================================
