------------------------------ MODULE Journal ------------------------------
(* Transactions on objects smaller than a block: two-phase locking           *)
(* (go_journal/txn.v) over journal operations (jrnl.v, buf.v) over the       *)
(* object log (obj.v), which turns the objects an operation wrote into whole *)
(* blocks and appends those to the write-ahead log.                          *)
(*                                                                           *)
(* The write-ahead log is what LogState promises, and the lock map is what   *)
(* Locks promises: Wal and LockMap implement them.  A read of the log takes  *)
(* effect at one moment of the call (ReadIsLinearizable of Wal).             *)
(*                                                                           *)
(* A client runs one transaction after the other; the n-th to begin writes   *)
(* the data n.  Definitions named Bad... are wrong variants nobody uses.     *)
EXTENDS Integers, Sequences, SequencesExt

CONSTANTS
  Client,
  Obj,            \* addresses of objects: a block and an offset in it
  BlockBits,      \* bits of a block, 8 * 4096 in the code
  LOGSZ,          \* blocks a transaction may have
  MaxTxns,        \* bound: transactions begun
  MaxOps,         \* bound: reads and writes in a transaction
  MaxCrashes      \* bound: crashes

Free == "free"

ASSUME ClientAssumption == Free \notin Client
ASSUME ObjAssumption ==
  /\ Obj \subseteq [Blkno : Nat, Off : 0 .. BlockBits - 1]
  /\ Obj # {}
ASSUME BoundsAssumption ==
  /\ LOGSZ \in Nat /\ BlockBits \in Nat
  /\ MaxTxns \in Nat /\ MaxOps \in Nat /\ MaxCrashes \in Nat

Flatid(o) == o.Blkno * BlockBits + o.Off

Block == { o.Blkno : o \in Obj }
Off   == { o.Off : o \in Obj }
ZeroBlock == [f \in Off |-> 0]

VARIABLES
  txns, durable,     \* the write-ahead log, as LogState has it
  owned,             \* the lock map, as Locks has it
  mu, pos,           \* obj.Log: the commit mutex, the position of the last commit
  pc, bufs, op,      \* clients: where they are, their buffers, their locals
  begun, crashes,
  \* history
  saw,               \* what each transaction read of the log, as objects
  commits,           \* what each transaction of the log wrote, as objects
  failed,            \* whether the last commit failed
  promised           \* number of transactions the calls that returned promised

memvars == <<owned, mu, pos, pc, bufs, op>>
vars == <<txns, durable, memvars, begun, crashes, saw, commits, failed, promised>>

LS == INSTANCE LogState WITH
        Addr <- Block, InitBlock <- ZeroBlock, durable_lb <- durable, installed_lb <- 1
LK == INSTANCE Locks WITH Thread <- Client, Addr <- { Flatid(o) : o \in Obj }

Read(b) == LS!Value(txns, b)              \* Walog__Read

(* The value of an object after the first n transactions, as the blocks say. *)
ObjAt(n, o) == LS!DiskAt(n)[o.Blkno][o.Off]
Current(o) == Read(o.Blkno)[o.Off]

NoBuf  == [st |-> "none", data |-> 0]
NoBufs == [o \in Obj |-> NoBuf]
NoBlk  == [b \in {} |-> ZeroBlock]
NoObjs == [o \in {} |-> 0]
NoOp   == [arg |-> CHOOSE o \in Obj : TRUE, ops |-> 0, n |-> 0, wait |-> FALSE,
           todo |-> {}, blks |-> NoBlk, pos |-> 0, target |-> 0, ok |-> TRUE]

Dirty(c) == { o \in Obj : bufs[c][o].st = "dirty" }

Init ==
  /\ txns = <<[pos |-> 0, upds |-> <<>>]>> /\ durable = 1
  /\ LK!Init
  /\ mu = Free /\ pos = 0
  /\ pc = [c \in Client |-> "idle"]
  /\ bufs = [c \in Client |-> NoBufs]
  /\ op = [c \in Client |-> NoOp]
  /\ begun = 0 /\ crashes = 0
  /\ saw = [c \in Client |-> NoObjs]
  /\ commits = <<NoObjs>>
  /\ failed = FALSE
  /\ promised = [wait |-> 1, flush |-> 1, flushAfterFail |-> 1]

Goto(c, l) == pc' = [pc EXCEPT ![c] = l]

logvars  == <<txns, durable>>
histvars == <<saw, commits, failed, promised>>

-----------------------------------------------------------------------------
(* Begin, and a transaction's reads and writes.                              *)

Begin(c) ==
  /\ pc[c] = "idle" /\ begun < MaxTxns
  /\ begun' = begun + 1
  /\ bufs' = [bufs EXCEPT ![c] = NoBufs]
  /\ op' = [op EXCEPT ![c] = [NoOp EXCEPT !.n = begun + 1]]
  /\ saw' = [saw EXCEPT ![c] = NoObjs]
  /\ Goto(c, "run")
  /\ UNCHANGED <<logvars, owned, mu, pos, crashes, commits, failed, promised>>

(* Txn__Acquire: Txn.acquired is the set of the locks the client owns.       *)
BadTxnAcquire(c, o) == UNCHANGED owned
TxnAcquire(c, o) ==
  IF Flatid(o) \in owned[c] THEN UNCHANGED owned ELSE LK!Acquire(c, Flatid(o))

(* ReadBuf and OverWrite of txn.v, first part. *)
Touch(c, o, what) ==
  /\ pc[c] = "run" /\ op[c].ops < MaxOps
  /\ TxnAcquire(c, o)
  /\ op' = [op EXCEPT ![c].arg = o, ![c].ops = @ + 1]
  /\ Goto(c, what)
  /\ UNCHANGED <<logvars, mu, pos, bufs, begun, crashes, histvars>>

(* Op__ReadBuf: what is buffered is not loaded again. *)
ReadBuf(c) ==
  LET o == op[c].arg IN
  /\ pc[c] = "read"
  /\ IF bufs[c][o].st # "none" THEN UNCHANGED <<bufs, saw>>
     ELSE /\ bufs' = [bufs EXCEPT ![c][o] = [st |-> "clean", data |-> Current(o)]]
          /\ saw' = [saw EXCEPT ![c] = [x \in DOMAIN @ \cup {o} |-> IF x = o THEN Current(o) ELSE @[x]]]
  /\ Goto(c, "run")
  /\ UNCHANGED <<logvars, owned, mu, pos, op, begun, crashes, commits, failed, promised>>

(* Op__OverWrite *)
OverWrite(c) ==
  /\ pc[c] = "write"
  /\ bufs' = [bufs EXCEPT ![c][op[c].arg] = [st |-> "dirty", data |-> op[c].n]]
  /\ Goto(c, "run")
  /\ UNCHANGED <<logvars, owned, mu, pos, op, begun, crashes, histvars>>

-----------------------------------------------------------------------------
(* Commit: Txn__Commit, Op__CommitWait, Log__CommitWait, Log__doCommit.      *)

(* Nothing dirty: a read-only transaction commits without the log.           *)
CommitReadOnly(c) ==
  /\ pc[c] = "run" /\ Dirty(c) = {}
  /\ Goto(c, "release")
  /\ UNCHANGED <<logvars, owned, mu, pos, bufs, op, begun, crashes, histvars>>

CallCommit(c, wait) ==
  /\ pc[c] = "run" /\ Dirty(c) # {}
  /\ op' = [op EXCEPT ![c].wait = wait, ![c].todo = Dirty(c), ![c].blks = NoBlk]
  /\ Goto(c, "commit")
  /\ UNCHANGED <<logvars, owned, mu, pos, bufs, begun, crashes, histvars>>

BadLock(c) == UNCHANGED mu
Lock(c) == mu = Free /\ mu' = c

CommitLock(c) ==
  /\ pc[c] = "commit"
  /\ Lock(c)
  /\ Goto(c, "install")
  /\ UNCHANGED <<logvars, owned, pos, bufs, op, begun, crashes, histvars>>

(* One iteration of installBufsMap: the first buffer of a block reads it.    *)
Blk(c, b) == IF b \in DOMAIN op[c].blks THEN op[c].blks[b] ELSE Read(b)

InstallBuf(c) ==
  /\ pc[c] = "install"
  /\ \E o \in op[c].todo :
       LET b == o.Blkno
           blk == [Blk(c, b) EXCEPT ![o.Off] = bufs[c][o].data]
       IN  op' = [op EXCEPT ![c].todo = @ \ {o},
                            ![c].blks = [d \in DOMAIN @ \cup {b} |-> IF d = b THEN blk ELSE @[d]]]
  /\ UNCHANGED <<logvars, owned, mu, pos, pc, bufs, begun, crashes, histvars>>

TooBig(c) == Cardinality(DOMAIN op[c].blks) > LOGSZ

(* MemAppend refuses, with position 0, and doCommit stores that. *)
CommitFail(c) ==
  /\ pc[c] = "install" /\ op[c].todo = {}
  /\ TooBig(c)
  /\ pos' = 0
  /\ mu' = Free
  /\ failed' = TRUE
  /\ Goto(c, "release")
  /\ UNCHANGED <<logvars, owned, bufs, op, begun, crashes, saw, commits, promised>>

(* A transaction may be absorbed, in whole or in part, into blocks of others *)
(* that are not yet on disk, and moves the end of the log by that much less. *)
Grow(n) == IF durable = Len(txns) THEN {n} ELSE 0 .. n

BadPos(p) == pos
NewPos(p) == p

CommitAppend(c) ==
  LET blks == op[c].blks
      upds == SetToSeq({ [Addr |-> b, Block |-> blks[b]] : b \in DOMAIN blks })
  IN
  /\ pc[c] = "install" /\ op[c].todo = {}
  /\ ~TooBig(c)
  /\ \E k \in Grow(Len(upds)) :
       LET p == txns[Len(txns)].pos + k IN
       /\ txns' = Append(txns, [pos |-> p, upds |-> upds])
       /\ pos' = NewPos(p)
       /\ op' = [op EXCEPT ![c].pos = p, ![c].target = Len(txns) + 1]
  /\ LS!LogMemAppend
  /\ commits' = Append(commits, [o \in Dirty(c) |-> bufs[c][o].data])
  /\ failed' = FALSE
  /\ mu' = Free
  /\ Goto(c, IF op[c].wait THEN "wait" ELSE "release")
  /\ UNCHANGED <<owned, bufs, begun, crashes, saw, promised>>

(* Walog__Flush returns when the transactions up to its position are durable. *)
BadFlushed(p) == TRUE
Flushed(p) == \A n \in DOMAIN txns : txns[n].pos <= p => n <= durable

CommitWaited(c) ==
  /\ pc[c] = "wait" /\ Flushed(op[c].pos)
  /\ promised' = [promised EXCEPT !.wait = Max({@, op[c].target})]
  /\ Goto(c, "release")
  /\ UNCHANGED <<logvars, owned, mu, pos, bufs, op, begun, crashes, saw, commits, failed>>

(* One iteration of ReleaseAll, which runs over the map acquired, and its end. *)
Release(c) ==
  /\ pc[c] = "release"
  /\ \E a \in owned[c] : LK!Release(c, a)
  /\ UNCHANGED <<logvars, mu, pos, pc, bufs, op, begun, crashes, histvars>>

ReleaseDone(c) ==
  /\ pc[c] = "release" /\ owned[c] = {}
  /\ Goto(c, "idle")
  /\ bufs' = [bufs EXCEPT ![c] = NoBufs]
  /\ op' = [op EXCEPT ![c] = NoOp]
  /\ saw' = [saw EXCEPT ![c] = NoObjs]
  /\ UNCHANGED <<logvars, owned, mu, pos, begun, crashes, commits, failed, promised>>

(* A transaction that gives up before Commit: ReleaseAll without a commit.   *)
Abort(c) ==
  /\ pc[c] = "run"
  /\ Goto(c, "release")
  /\ UNCHANGED <<logvars, owned, mu, pos, bufs, op, begun, crashes, histvars>>

-----------------------------------------------------------------------------
(* Log__Flush, by a client that has no transaction.                          *)

CallFlush(c) ==
  /\ pc[c] = "idle"
  /\ op' = [op EXCEPT ![c].target = Len(txns)]
  /\ Goto(c, "flush")
  /\ UNCHANGED <<logvars, owned, mu, pos, bufs, begun, crashes, histvars>>

FlushRead(c) ==
  /\ pc[c] = "flush" /\ mu = Free
  /\ op' = [op EXCEPT ![c].pos = pos, ![c].ok = ~failed]
  /\ Goto(c, "flushWait")
  /\ UNCHANGED <<logvars, owned, mu, pos, bufs, begun, crashes, histvars>>

FlushReturn(c) ==
  /\ pc[c] = "flushWait" /\ Flushed(op[c].pos)
  /\ promised' = IF op[c].ok
                   THEN [promised EXCEPT !.flush = Max({@, op[c].target})]
                   ELSE [promised EXCEPT !.flushAfterFail = Max({@, op[c].target})]
  /\ Goto(c, "idle")
  /\ op' = [op EXCEPT ![c] = NoOp]
  /\ UNCHANGED <<logvars, owned, mu, pos, bufs, begun, crashes, saw, commits, failed>>

-----------------------------------------------------------------------------
(* The write-ahead log logs on its own; a crash keeps a prefix of it, and    *)
(* Init of txn.v makes locks, mutex and position anew.                       *)

BecomesDurable ==
  /\ LS!UpdateDurable /\ durable' # durable
  /\ UNCHANGED <<memvars, begun, crashes, histvars>>

Crash ==
  /\ crashes < MaxCrashes
  /\ crashes' = crashes + 1
  /\ LS!LogCrash
  /\ commits' = SubSeq(commits, 1, Len(txns'))
  /\ owned' = [c \in Client |-> {}]
  /\ mu' = Free /\ pos' = 0
  /\ pc' = [c \in Client |-> "idle"]
  /\ bufs' = [c \in Client |-> NoBufs]
  /\ op' = [c \in Client |-> NoOp]
  /\ saw' = [c \in Client |-> NoObjs]
  /\ failed' = FALSE
  /\ UNCHANGED <<begun, promised>>

ClientNext(c) ==
  \/ Begin(c)
  \/ \E o \in Obj : Touch(c, o, "read") \/ Touch(c, o, "write")
  \/ ReadBuf(c) \/ OverWrite(c) \/ Abort(c)
  \/ CommitReadOnly(c)
  \/ \E w \in BOOLEAN : CallCommit(c, w)
  \/ CommitLock(c) \/ InstallBuf(c) \/ CommitFail(c) \/ CommitAppend(c) \/ CommitWaited(c)
  \/ Release(c) \/ ReleaseDone(c)
  \/ CallFlush(c) \/ FlushRead(c) \/ FlushReturn(c)

Next == (\E c \in Client : ClientNext(c)) \/ BecomesDurable \/ Crash

Spec == Init /\ [][Next]_vars

-----------------------------------------------------------------------------
(* Correctness. *)

(* Two-phase locking: what a transaction has read, and may have overwritten  *)
(* since, is still the object's value, up to the moment its own writes are   *)
(* in the log.  So the transactions take effect one after the other, in the  *)
(* order of the log.                                                         *)
BeforeCommit == {"run", "read", "write", "commit", "install"}

ReadsStable ==
  \A c \in Client : pc[c] \in BeforeCommit =>
    /\ \A o \in Obj : bufs[c][o].st = "clean" => bufs[c][o].data = Current(o)
    /\ \A o \in DOMAIN saw[c] : saw[c][o] = Current(o)

(* Whole blocks are logged, objects are what counts: after any prefix of the *)
(* log, and so after any crash, an object has the value the last transaction *)
(* of the prefix that wrote it gave it.  No commit undoes another's write to *)
(* the same block, and none is there in part.                                *)
Wrote(n, o) == { i \in 1 .. n : o \in DOMAIN commits[i] }
LastWritten(n, o) == IF Wrote(n, o) = {} THEN 0 ELSE commits[Max(Wrote(n, o))][o]

ObjectsExact == \A n \in DOMAIN txns, o \in Obj : ObjAt(n, o) = LastWritten(n, o)

(* What a CommitWait with wait, or a Flush, promised survives every crash;   *)
(* for a Flush, if the last commit before it did not fail.                   *)
PromisesKept == promised.wait <= Len(txns) /\ promised.flush <= Len(txns)

(* "call Flush on the underlying *obj.Log (which flushes all transactions)": *)
(* whatever happened before.                                                 *)
FlushCoversAll == promised.flush <= Len(txns) /\ promised.flushAfterFail <= Len(txns)

(* "A full transaction interface on top of GoJournal": transactions are      *)
(* atomic steps of a store whose states are what the commits of the log left, *)
(* and what a CommitWait that waits has returned for is durable.  A commit   *)
(* takes effect when doCommit appends, a read-only one when it begins to     *)
(* release.                                                                  *)
States == [n \in DOMAIN commits |-> [o \in Obj |-> LastWritten(n, o)]]
Pending(c) == [o \in Dirty(c) |-> bufs[c][o].data]
Doing(c) ==
  CASE pc[c] \in BeforeCommit -> [at |-> "running", reads |-> saw[c], writes |-> Pending(c)]
    [] pc[c] = "wait"         -> [at |-> "waiting", target |-> op[c].target]
    [] OTHER                  -> [at |-> "idle"]

TX == INSTANCE Transactions WITH
        Value <- 0 .. MaxTxns, states <- States, doing <- [c \in Client |-> Doing(c)]
ImplementsTransactions == TX!Spec
=============================================================================
