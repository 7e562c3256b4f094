----------------------------- MODULE JournalInv -----------------------------
(* The inductive invariant of Journal, and what its parts are about.         *)
EXTENDS Journal, FiniteSets

-----------------------------------------------------------------------------
(* Types                                                                     *)

Value    == [Off -> Nat]                       \* what a block holds
Partial(D, R) == UNION {[E -> R] : E \in SUBSET D}
Update   == [Addr : Block, Block : Value]
Txn      == [pos : Nat, upds : Seq(Update)]
Buf      == [st : {"none", "clean", "dirty"}, data : Nat]
Local    == [arg : Obj, ops : Nat, n : 0 .. MaxTxns, wait : BOOLEAN, todo : SUBSET Obj,
             blks : Partial(Block, Value), pos : Nat, target : Nat, ok : BOOLEAN]
Place    == {"idle", "run", "read", "write", "commit", "install", "wait", "release",
             "flush", "flushWait"}
LockAddr == { Flatid(o) : o \in Obj }

TypeOK ==
  /\ txns \in Seq(Txn) /\ durable \in 1 .. Len(txns)
  /\ owned \in [Client -> SUBSET LockAddr]
  /\ mu \in Client \cup {Free} /\ pos \in Nat
  /\ pc \in [Client -> Place]
  /\ bufs \in [Client -> [Obj -> Buf]]
  /\ op \in [Client -> Local]
  /\ begun \in 0 .. MaxTxns /\ crashes \in Nat
  /\ saw \in [Client -> Partial(Obj, Nat)]
  /\ commits \in Seq(Partial(Obj, Nat)) /\ Len(commits) = Len(txns)
  /\ failed \in BOOLEAN
  /\ promised \in [wait : Nat, flush : Nat, flushAfterFail : Nat]

-----------------------------------------------------------------------------
(* Locks: an object in a transaction's hands is one it has locked, until it  *)
(* begins to release.                                                        *)

LocksHeld ==
  /\ LK!Exclusive
  /\ \A c \in Client :
       /\ pc[c] \in {"read", "write"} => Flatid(op[c].arg) \in owned[c]
       /\ pc[c] \in BeforeCommit =>
            \A o \in Obj : bufs[c][o].st # "none" => Flatid(o) \in owned[c]

-----------------------------------------------------------------------------
(* Reads: what was read of the log is in a buffer, so it is read no more, and *)
(* it is locked.                                                             *)

ReadsBuffered ==
  \A c \in Client : pc[c] \in BeforeCommit =>
    \A o \in DOMAIN saw[c] : bufs[c][o].st # "none"

-----------------------------------------------------------------------------
(* A commit: the blocks so far are those of the log with the buffers so far  *)
(* in them, and stay so because nobody else appends.                         *)

Installed(c) == Dirty(c) \ op[c].todo

BlocksPatched(c) ==
  LET blks == op[c].blks IN
  /\ op[c].todo \subseteq Dirty(c)
  /\ IsFiniteSet(DOMAIN blks)
  /\ DOMAIN blks = { o.Blkno : o \in Installed(c) }
  /\ \A o \in Installed(c) : blks[o.Blkno][o.Off] = bufs[c][o].data
  /\ \A o \in Obj \ Installed(c) :
       o.Blkno \in DOMAIN blks => blks[o.Blkno][o.Off] = Current(o)

Committing ==
  \A c \in Client :
    /\ pc[c] = "commit" => op[c].todo = Dirty(c) /\ op[c].blks = NoBlk
    /\ pc[c] = "install" => mu = c /\ BlocksPatched(c)

-----------------------------------------------------------------------------
(* Promises: what the position a caller waits for covers.                    *)

\* when the log is on disk up to position p, so are the first n transactions
Covered(n, p) == \A i \in DOMAIN txns : i <= n => i <= durable \/ txns[i].pos <= p

CallCovered(c) ==
  /\ pc[c] = "wait" => op[c].target <= Len(txns) /\ Covered(op[c].target, op[c].pos)
  /\ pc[c] = "flush" => op[c].target <= Len(txns)
  /\ pc[c] = "flushWait" =>
       /\ op[c].target <= Len(txns)
       /\ op[c].ok => Covered(op[c].target, op[c].pos)

PromisesCovered ==
  /\ promised.wait <= durable /\ promised.flush <= durable
  /\ ~failed => Covered(Len(txns), pos)
  /\ \A c \in Client : CallCovered(c)

IInv ==
  /\ TypeOK
  /\ LocksHeld /\ ReadsBuffered /\ ReadsStable
  /\ Committing /\ ObjectsExact
  /\ PromisesCovered
=============================================================================
