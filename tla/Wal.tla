-------------------------------- MODULE Wal --------------------------------
(* The write-ahead log of GoJournal (go_journal/wal.v): a circular log on    *)
(* disk, its in-memory image, the logger and installer threads, the calls    *)
(* clients make, shutdown, and a crash followed by recovery at any step.     *)
(*                                                                           *)
(* Steps.  Everything between taking and releasing memLock touches only      *)
(* memory that memLock protects, so a critical section without a loop is one *)
(* step; where it has a loop (memWrite) or is shared by two handlers, the    *)
(* steps in between keep memLock.  Each disk operation, all done without the *)
(* lock, is a step of its own.  A condition variable is the set of threads   *)
(* asleep on it.                                                             *)
(*                                                                           *)
(* A definition named Bad... is a deliberately wrong variant of the one after *)
(* it and is used by nothing here: it serves to test that a property notices. *)
EXTENDS AsyncDisk, Sliding

CONSTANTS
  Client,         \* threads that call MemAppend, Flush and Read
  LOGSZ,          \* log slots on disk (511 in the code)
  U64,            \* number of values of a position (2^64 in the code)
  WriteSets,      \* the address sequences a client may pass to MemAppend
  MaxAppends,     \* bound: MemAppend calls
  MaxCrashes,     \* bound: crashes
  MayShutdown     \* whether Shutdown is called

Logger    == "logger"
Installer == "installer"
Stopper   == "stopper"      \* the caller of Shutdown
Thread    == {Logger, Installer, Stopper} \cup Client
Free      == "free"

ASSUME ClientAssumption == Client \cap {Logger, Installer, Stopper, Free} = {}
ASSUME LogSzAssumption  == LOGSZ \in Nat \ {0}
ASSUME U64Assumption    == U64 \in Nat /\ U64 > LOGSZ
ASSUME WriteSetsAssumption ==
  \A w \in WriteSets : w \in Seq(Addr) /\ Len(w) <= LOGSZ
ASSUME BoundsAssumption ==
  MaxAppends \in Nat /\ MaxCrashes \in Nat /\ MayShutdown \in BOOLEAN

VARIABLES
  \* the disk
  hdr1,          \* block 0: end position and the address of every log slot
  hdr2,          \* block 1: start position
  logblk,        \* the log slots
  data,          \* the data region
  \* WalogState and the circular appender, in memory
  diskAddrs, memLog, diskEnd, shutdown, nthread,
  \* memLock and its condition variables
  memLock, condLogger, condInstall, condShut,
  \* threads: program counters and locals
  lpc, lg, ipc, inst, spc, cpc, req,
  \* history
  txns,          \* transactions appended, in order, and not lost in a crash
  appends,       \* MemAppend calls so far; the n-th writes blocks named n
  acked,         \* number of transactions a Flush that returned has promised
  seen,          \* for a Read that missed: values its address had since then
  crashes

diskvars == <<hdr1, hdr2, logblk, data>>
lockvars == <<memLock, condLogger, condInstall, condShut>>
stvars   == <<memLog, diskEnd, shutdown, nthread>>
logvars  == <<lpc, lg, diskAddrs>>
instvars == <<ipc, inst>>
clivars  == <<cpc, req, appends>>
history  == <<txns, acked, seen>>
vars == <<diskvars, lockvars, stvars, logvars, instvars, spc, clivars, history, crashes>>

Slot    == 0 .. LOGSZ - 1
SlotOf(pos) == pos % LOGSZ
NoAddr  == "none"
Block0  == 0                       \* every block before the first write
Header1 == [end : Nat, addrs : [Slot -> Addr \cup {NoAddr}]]
Txn     == [pos : Nat, upds : Seq(Update)]
NoReq   == [bufs |-> <<>>, next |-> 1, pos |-> 0, addr |-> NoAddr]

-----------------------------------------------------------------------------
(* The transactions that a log ending at pos holds are the first TxnsUpTo.   *)
TxnsUpTo(pos) == Max({ n \in DOMAIN txns : txns[n].pos <= pos })

LS == INSTANCE LogState WITH
        InitBlock    <- Block0,
        durable_lb   <- TxnsUpTo(diskEnd),
        installed_lb <- TxnsUpTo(memLog.start)

Current(a) == LS!Value(txns, a)

-----------------------------------------------------------------------------
(* memLock.  A thread runs a critical section when it already holds memLock, *)
(* or when the lock is free and the thread is not asleep on a condition.     *)
Asleep == condLogger \cup condInstall \cup condShut

Enter(t) == memLock = t \/ (memLock = Free /\ t \notin Asleep)

Keep(t) == memLock' = t
Release == memLock' = Free

(* nthread and condShut, as both threads start and exit.                     *)
ThreadStart == nthread' = nthread + 1

BadThreadExitSilent == nthread' = nthread - 1 /\ UNCHANGED condShut
ThreadExit == nthread' = nthread - 1 /\ condShut' = condShut \ {Stopper}  \* Signal

(* disk.Barrier flushes the whole disk, whoever wrote to it. *)
Barrier ==
  /\ hdr1' = FlushBlock(hdr1)
  /\ hdr2' = FlushBlock(hdr2)
  /\ logblk' = FlushDisk(logblk)
  /\ data' = FlushDisk(data)

BadBarrier == UNCHANGED diskvars

-----------------------------------------------------------------------------
(* recoverCircular: the updates between the two end points of the headers.   *)
RecoveredLog(h1, h2, lb) ==
  [i \in 1 .. h1.end - h2 |->
     [Addr |-> h1.addrs[SlotOf(h2 + i - 1)], Block |-> lb[SlotOf(h2 + i - 1)]]]

EmptyHeader == [end |-> 0, addrs |-> [s \in Slot |-> NoAddr]]

(* A disk cleared by initCircular, and MkLog run on it.                      *)
Init ==
  /\ hdr1 = Sync(EmptyHeader)
  /\ hdr2 = Sync(0)
  /\ logblk = [s \in Slot |-> Sync(Block0)]
  /\ data = [a \in Addr |-> Sync(Block0)]
  /\ diskAddrs = EmptyHeader.addrs
  /\ memLog = MkSliding(<<>>, 0)
  /\ diskEnd = 0 /\ shutdown = FALSE /\ nthread = 0
  /\ memLock = Free
  /\ condLogger = {} /\ condInstall = {} /\ condShut = {}
  /\ lpc = "start" /\ lg = [end |-> 0, next |-> 0]
  /\ ipc = "start" /\ inst = [end |-> 0, next |-> 0]
  /\ spc = "idle"
  /\ cpc = [c \in Client |-> "idle"]
  /\ req = [c \in Client |-> NoReq]
  /\ txns = <<[pos |-> 0, upds |-> <<>>]>>
  /\ appends = 0 /\ acked = 1
  /\ seen = [c \in Client |-> {}]
  /\ crashes = 0

-----------------------------------------------------------------------------
(* The logger: Walog.logger, with logAppend and circularAppender.Append.     *)

LoggerStart ==
  /\ lpc = "start" /\ Enter(Logger)
  /\ ThreadStart
  /\ lpc' = "loop" /\ Keep(Logger)
  /\ UNCHANGED <<diskvars, condLogger, condInstall, condShut, memLog, diskEnd, shutdown,
                 lg, diskAddrs, instvars, spc, clivars, history, crashes>>

(* The loop condition. *)
LoggerLoop ==
  /\ lpc = "loop" /\ Enter(Logger)
  /\ ~shutdown
  /\ lpc' = "space" /\ Keep(Logger)
  /\ UNCHANGED <<diskvars, condLogger, condInstall, condShut, stvars,
                 lg, diskAddrs, instvars, spc, clivars, history, crashes>>

LoggerExit ==
  /\ lpc = "loop" /\ Enter(Logger)
  /\ shutdown
  /\ ThreadExit
  /\ lpc' = "done" /\ Release
  /\ UNCHANGED <<diskvars, condLogger, condInstall, memLog, diskEnd, shutdown,
                 lg, diskAddrs, instvars, spc, clivars, history, crashes>>

(* waitForSpace's condition counts the installed updates not yet cut, too.   *)
BadLogFull == End(memLog) - diskEnd > LOGSZ
LogFull == Len(memLog.log) > LOGSZ

(* waitForSpace does not look at shutdown. *)
LoggerWaitForSpace ==
  /\ lpc = "space" /\ Enter(Logger)
  /\ LogFull
  /\ condInstall' = condInstall \cup {Logger} /\ Release
  /\ UNCHANGED <<diskvars, condLogger, condShut, stvars,
                 logvars, instvars, spc, clivars, history, crashes>>

FlushIfNeeded(s) ==
  IF s.needFlush THEN [ClearMutable(s) EXCEPT !.needFlush = FALSE] ELSE s

(* The rest of logAppend's critical section: with new updates to log, take   *)
(* them and let go of the lock.                                              *)
LoggerTake ==
  /\ lpc = "space" /\ Enter(Logger)
  /\ ~LogFull
  /\ memLog' = FlushIfNeeded(memLog)
  /\ TakeFromLen(memLog', diskEnd) # 0
  /\ lg' = [end |-> diskEnd + TakeFromLen(memLog', diskEnd), next |-> diskEnd]
  /\ lpc' = "logBlocks" /\ Release
  /\ UNCHANGED <<diskvars, condLogger, condInstall, condShut, diskEnd, shutdown, nthread,
                 diskAddrs, instvars, spc, clivars, history, crashes>>

(* ... and without any, sleep until told otherwise. *)
LoggerIdle ==
  /\ lpc = "space" /\ Enter(Logger)
  /\ ~LogFull
  /\ memLog' = FlushIfNeeded(memLog)
  /\ TakeFromLen(memLog', diskEnd) = 0
  /\ condLogger' = condLogger \cup {Logger}
  /\ lpc' = "loop" /\ Release
  /\ UNCHANGED <<diskvars, condInstall, condShut, diskEnd, shutdown, nthread,
                 lg, diskAddrs, instvars, spc, clivars, history, crashes>>

(* One iteration of logBlocks.  The slice being logged shares the array of   *)
(* memLog, so its element is read from there, without memLock.               *)
LoggerBlock ==
  /\ lpc = "logBlocks" /\ lg.next < lg.end
  /\ LET u == Get(memLog, lg.next)
         s == SlotOf(lg.next)
     IN  /\ logblk' = [logblk EXCEPT ![s] = AsyncPut(u.Block, @)]
         /\ diskAddrs' = [diskAddrs EXCEPT ![s] = u.Addr]
  /\ lg' = [lg EXCEPT !.next = @ + 1]
  /\ UNCHANGED <<hdr1, hdr2, data, lockvars, stvars, lpc, instvars, spc, clivars, history, crashes>>

LoggedBarrier == Barrier

LoggerBarrier ==
  /\ lpc = "logBlocks" /\ lg.next = lg.end
  /\ LoggedBarrier
  /\ lpc' = "hdr"
  /\ UNCHANGED <<lockvars, stvars, lg, diskAddrs, instvars, spc, clivars, history, crashes>>

LoggerHdr ==
  /\ lpc = "hdr"
  /\ hdr1' = AsyncPut([end |-> lg.end, addrs |-> diskAddrs], hdr1)
  /\ lpc' = "hdrBarrier"
  /\ UNCHANGED <<hdr2, logblk, data, lockvars, stvars, lg, diskAddrs, instvars, spc, clivars, history, crashes>>

HdrBarrier == Barrier

LoggerHdrBarrier ==
  /\ lpc = "hdrBarrier"
  /\ HdrBarrier
  /\ lpc' = "logged"
  /\ UNCHANGED <<lockvars, stvars, lg, diskAddrs, instvars, spc, clivars, history, crashes>>

BadLoggedEnd == End(memLog)
LoggedEnd == lg.end

BadLoggedBroadcasts == condLogger' = {} /\ UNCHANGED condInstall
LoggedBroadcasts == condLogger' = {} /\ condInstall' = {}

LoggerLogged ==
  /\ lpc = "logged" /\ Enter(Logger)
  /\ diskEnd' = LoggedEnd
  /\ LoggedBroadcasts
  /\ lpc' = "loop" /\ Keep(Logger)
  /\ UNCHANGED <<diskvars, condShut, memLog, shutdown, nthread,
                 lg, diskAddrs, instvars, spc, clivars, history, crashes>>

LoggerNext ==
  \/ LoggerStart \/ LoggerLoop \/ LoggerExit
  \/ LoggerWaitForSpace \/ LoggerTake \/ LoggerIdle
  \/ LoggerBlock \/ LoggerBarrier \/ LoggerHdr \/ LoggerHdrBarrier \/ LoggerLogged
-----------------------------------------------------------------------------
(* The installer: Walog.installer, with logInstall, installBlocks, Advance.  *)

InstallerStart ==
  /\ ipc = "start" /\ Enter(Installer)
  /\ ThreadStart
  /\ ipc' = "loop" /\ Keep(Installer)
  /\ UNCHANGED <<diskvars, condLogger, condInstall, condShut, memLog, diskEnd, shutdown,
                 logvars, inst, spc, clivars, history, crashes>>

InstallerExit ==
  /\ ipc = "loop" /\ Enter(Installer)
  /\ shutdown
  /\ ThreadExit
  /\ ipc' = "done" /\ Release
  /\ UNCHANGED <<diskvars, condLogger, condInstall, memLog, diskEnd, shutdown,
                 logvars, inst, spc, clivars, history, crashes>>

(* installEnd: only what is durable may be installed. *)
BadInstallEnd == memLog.mutable
InstallEnd == diskEnd

InstallerTake ==
  /\ ipc = "loop" /\ Enter(Installer)
  /\ ~shutdown
  /\ TakeTillLen(memLog, InstallEnd) # 0
  /\ inst' = [end |-> InstallEnd, next |-> memLog.start]
  /\ ipc' = "install" /\ Release
  /\ UNCHANGED <<diskvars, condLogger, condInstall, condShut, stvars,
                 logvars, spc, clivars, history, crashes>>

InstallerIdle ==
  /\ ipc = "loop" /\ Enter(Installer)
  /\ ~shutdown
  /\ TakeTillLen(memLog, InstallEnd) = 0
  /\ condInstall' = condInstall \cup {Installer} /\ Release
  /\ UNCHANGED <<diskvars, condLogger, condShut, stvars,
                 logvars, instvars, spc, clivars, history, crashes>>

(* installBlocks goes through the log in order, so the last update of an     *)
(* address is the one that stays.                                            *)
BadInstallPos == inst.end - 1 - (inst.next - memLog.start)
InstallPos == inst.next

(* One iteration, reading the shared slice as LoggerBlock does. *)
InstallBlock ==
  /\ ipc = "install" /\ inst.next < inst.end
  /\ LET u == Get(memLog, InstallPos)
     IN  data' = [data EXCEPT ![u.Addr] = AsyncPut(u.Block, @)]
  /\ inst' = [inst EXCEPT !.next = @ + 1]
  /\ UNCHANGED <<hdr1, hdr2, logblk, lockvars, stvars, logvars, ipc, spc, clivars, history, crashes>>

InstalledBarrier == Barrier

InstallBarrier ==
  /\ ipc = "install" /\ inst.next = inst.end
  /\ InstalledBarrier
  /\ ipc' = "advance"
  /\ UNCHANGED <<lockvars, stvars, logvars, inst, spc, clivars, history, crashes>>

InstallAdvance ==
  /\ ipc = "advance"
  /\ hdr2' = AsyncPut(inst.end, hdr2)
  /\ ipc' = "advBarrier"
  /\ UNCHANGED <<hdr1, logblk, data, lockvars, stvars, logvars, inst, spc, clivars, history, crashes>>

InstallAdvanceBarrier ==
  /\ ipc = "advBarrier"
  /\ Barrier
  /\ ipc' = "installed"
  /\ UNCHANGED <<lockvars, stvars, logvars, inst, spc, clivars, history, crashes>>

BadCutEnd == diskEnd
CutEnd == inst.end

(* cutMemLog, up to the installEnd of the start and not the diskEnd of now.  *)
InstallCut ==
  /\ ipc = "installed" /\ Enter(Installer)
  /\ memLog' = DeleteFrom(memLog, CutEnd)
  /\ condInstall' = {}                           \* Broadcast
  /\ ipc' = "loop" /\ Keep(Installer)
  /\ UNCHANGED <<diskvars, condLogger, condShut, diskEnd, shutdown, nthread,
                 logvars, inst, spc, clivars, history, crashes>>

InstallerNext ==
  \/ InstallerStart \/ InstallerExit \/ InstallerTake \/ InstallerIdle
  \/ InstallBlock \/ InstallBarrier \/ InstallAdvance \/ InstallAdvanceBarrier \/ InstallCut

-----------------------------------------------------------------------------
(* Clients.  MemAppend.  Longer sequences than LOGSZ are refused before the  *)
(* lock is taken, so WriteSets has none.  The n-th call writes blocks n.     *)

CallMemAppend(c) ==
  /\ cpc[c] = "idle" /\ appends < MaxAppends
  /\ \E w \in WriteSets :
       req' = [req EXCEPT ![c].bufs = [i \in DOMAIN w |-> [Addr |-> w[i], Block |-> appends + 1]]]
  /\ appends' = appends + 1
  /\ cpc' = [cpc EXCEPT ![c] = "append"]
  /\ UNCHANGED <<diskvars, lockvars, stvars, logvars, instvars, spc, history, crashes>>

Return(c) ==
  /\ cpc' = [cpc EXCEPT ![c] = "idle"]
  /\ req' = [req EXCEPT ![c] = NoReq]

(* util.SumOverflows on the end of the log, in the width of a position. *)
BadUpdatesOverflow(n) == End(memLog) + n > U64
UpdatesOverflow(n) == (End(memLog) + n) % U64 < End(memLog)

MemLogHasSpace(n) == End(memLog) - diskEnd + n <= LOGSZ

MemAppendFail(c) ==
  /\ cpc[c] = "append" /\ Enter(c)
  /\ UpdatesOverflow(Len(req[c].bufs))
  /\ Return(c) /\ Release
  /\ UNCHANGED <<diskvars, condLogger, condInstall, condShut, stvars,
                 logvars, instvars, spc, appends, history, crashes>>

(* Broadcast condLogger, then Wait on it. *)
BadFullWakesLogger(c) == condLogger' = condLogger \cup {c}
FullWakesLogger(c) == condLogger' = {c}

MemAppendFull(c) ==
  /\ cpc[c] = "append" /\ Enter(c)
  /\ ~UpdatesOverflow(Len(req[c].bufs))
  /\ ~MemLogHasSpace(Len(req[c].bufs))
  /\ memLog' = [memLog EXCEPT !.needFlush = TRUE]  \* endGroupTxn
  /\ FullWakesLogger(c) /\ Release
  /\ UNCHANGED <<diskvars, condInstall, condShut, diskEnd, shutdown, nthread,
                 logvars, instvars, spc, clivars, history, crashes>>

MemAppendStart(c) ==
  /\ cpc[c] = "append" /\ Enter(c)
  /\ ~UpdatesOverflow(Len(req[c].bufs))
  /\ MemLogHasSpace(Len(req[c].bufs))
  /\ cpc' = [cpc EXCEPT ![c] = "memWrite"] /\ Keep(c)
  /\ UNCHANGED <<diskvars, condLogger, condInstall, condShut, stvars,
                 logvars, instvars, spc, req, appends, history, crashes>>

MemWriteOne(c) ==
  /\ cpc[c] = "memWrite" /\ req[c].next <= Len(req[c].bufs)
  /\ memLog' = MemWrite(memLog, req[c].bufs[req[c].next])
  /\ req' = [req EXCEPT ![c].next = @ + 1]
  /\ UNCHANGED <<diskvars, lockvars, diskEnd, shutdown, nthread,
                 logvars, instvars, spc, cpc, appends, history, crashes>>

(* The transaction is in the log; MemAppend returns its end as position.     *)
MemAppendDone(c) ==
  /\ cpc[c] = "memWrite" /\ req[c].next > Len(req[c].bufs)
  /\ txns' = Append(txns, [pos |-> End(memLog), upds |-> req[c].bufs])
  /\ seen' = [r \in Client |->
                IF cpc[r] = "readInstalled" THEN seen[r] \cup {LS!Value(txns', req[r].addr)}
                                            ELSE seen[r]]
  /\ Return(c) /\ Release
  /\ UNCHANGED <<diskvars, condLogger, condInstall, condShut, stvars,
                 logvars, instvars, spc, appends, acked, crashes>>

(* Flush, for a position MemAppend has returned to somebody. *)
CallFlush(c) ==
  /\ cpc[c] = "idle"
  /\ \E n \in DOMAIN txns : req' = [req EXCEPT ![c].pos = txns[n].pos]
  /\ cpc' = [cpc EXCEPT ![c] = "flush"]
  /\ UNCHANGED <<diskvars, lockvars, stvars, logvars, instvars, spc, appends, history, crashes>>

(* endGroupTxn, if the position is not yet read-only. *)
BadFlushRequest(s, pos) == s
FlushRequest(s, pos) == [s EXCEPT !.needFlush = @ \/ pos > s.mutable]

FlushStart(c) ==
  /\ cpc[c] = "flush" /\ Enter(c)
  /\ condLogger' = {}                            \* Broadcast
  /\ memLog' = FlushRequest(memLog, req[c].pos)
  /\ cpc' = [cpc EXCEPT ![c] = "flushWait"] /\ Keep(c)
  /\ UNCHANGED <<diskvars, condInstall, condShut, diskEnd, shutdown, nthread,
                 logvars, instvars, spc, req, appends, history, crashes>>

FlushSleep(c) ==
  /\ cpc[c] = "flushWait" /\ Enter(c)
  /\ req[c].pos > diskEnd
  /\ condLogger' = condLogger \cup {c} /\ Release
  /\ UNCHANGED <<diskvars, condInstall, condShut, stvars,
                 logvars, instvars, spc, clivars, history, crashes>>

FlushDone(c) ==
  /\ cpc[c] = "flushWait" /\ Enter(c)
  /\ req[c].pos <= diskEnd
  /\ acked' = IF TxnsUpTo(req[c].pos) > acked THEN TxnsUpTo(req[c].pos) ELSE acked
  /\ Return(c) /\ Release
  /\ UNCHANGED <<diskvars, condLogger, condInstall, condShut, stvars,
                 logvars, instvars, spc, appends, txns, seen, crashes>>

(* Read: ReadMem under memLock, then, on a miss, ReadInstalled without it.   *)
CallRead(c) ==
  /\ cpc[c] = "idle"
  /\ \E a \in Addr : req' = [req EXCEPT ![c].addr = a]
  /\ cpc' = [cpc EXCEPT ![c] = "read"]
  /\ UNCHANGED <<diskvars, lockvars, stvars, logvars, instvars, spc, appends, history, crashes>>

ReadMemHit(c) ==
  /\ cpc[c] = "read" /\ Enter(c)
  /\ memLog.addrPos[req[c].addr] # NoPos
  /\ Return(c) /\ Release
  /\ UNCHANGED <<diskvars, condLogger, condInstall, condShut, stvars,
                 logvars, instvars, spc, appends, history, crashes>>

ReadMemMiss(c) ==
  /\ cpc[c] = "read" /\ Enter(c)
  /\ memLog.addrPos[req[c].addr] = NoPos
  /\ seen' = [seen EXCEPT ![c] = {Current(req[c].addr)}]
  /\ cpc' = [cpc EXCEPT ![c] = "readInstalled"] /\ Release
  /\ UNCHANGED <<diskvars, condLogger, condInstall, condShut, stvars,
                 logvars, instvars, spc, req, appends, txns, acked, crashes>>

ReadInstalled(c) ==
  /\ cpc[c] = "readInstalled"
  /\ Return(c)
  /\ seen' = [seen EXCEPT ![c] = {}]
  /\ UNCHANGED <<diskvars, lockvars, stvars, logvars, instvars, spc, appends, txns, acked, crashes>>

Call(c) == CallMemAppend(c) \/ CallFlush(c) \/ CallRead(c)

ClientNext(c) ==
  \/ MemAppendFail(c) \/ MemAppendFull(c) \/ MemAppendStart(c)
  \/ MemWriteOne(c) \/ MemAppendDone(c)
  \/ FlushStart(c) \/ FlushSleep(c) \/ FlushDone(c)
  \/ ReadMemHit(c) \/ ReadMemMiss(c) \/ ReadInstalled(c)

-----------------------------------------------------------------------------
(* Shutdown. *)

CallShutdown ==
  /\ MayShutdown /\ spc = "idle" /\ Enter(Stopper)
  /\ shutdown' = TRUE
  /\ condLogger' = {} /\ condInstall' = {}       \* Broadcast both
  /\ spc' = "wait" /\ Keep(Stopper)
  /\ UNCHANGED <<diskvars, condShut, memLog, diskEnd, nthread,
                 logvars, instvars, clivars, history, crashes>>

BadAllStopped == nthread <= 1
AllStopped == nthread = 0

ShutdownSleep ==
  /\ spc = "wait" /\ Enter(Stopper)
  /\ ~AllStopped
  /\ condShut' = condShut \cup {Stopper} /\ Release
  /\ UNCHANGED <<diskvars, condLogger, condInstall, stvars,
                 logvars, instvars, spc, clivars, history, crashes>>

ShutdownDone ==
  /\ spc = "wait" /\ Enter(Stopper)
  /\ AllStopped
  /\ spc' = "done" /\ Release
  /\ UNCHANGED <<diskvars, condLogger, condInstall, condShut, stvars,
                 logvars, instvars, clivars, history, crashes>>

ShutdownNext == ShutdownSleep \/ ShutdownDone

(* Cond__Wait of GooseLang is Unlock and Lock and may return at any time.  A *)
(* condition variable of Go does not, and no property relies on it.          *)
Wakeup ==
  \E t \in Asleep :
    /\ condLogger' = condLogger \ {t}
    /\ condInstall' = condInstall \ {t}
    /\ condShut' = condShut \ {t}
    /\ UNCHANGED <<diskvars, memLock, stvars, logvars, instvars, spc, clivars, history, crashes>>

-----------------------------------------------------------------------------
(* A crash, and MkLog on what the disk then holds: memory and threads start  *)
(* anew.  Recovery only reads, so a crash in the middle of it is a crash     *)
(* before it.  The history forgets the transactions beyond the log's end.    *)

Recover(h1, h2, lb, db) ==
  /\ hdr1' = Sync(h1) /\ hdr2' = Sync(h2)
  /\ logblk' = SyncDisk(lb) /\ data' = SyncDisk(db)
  /\ diskAddrs' = h1.addrs
  /\ memLog' = MkSliding(RecoveredLog(h1, h2, lb), h2)
  /\ diskEnd' = h1.end
  /\ shutdown' = FALSE /\ nthread' = 0
  /\ memLock' = Free
  /\ condLogger' = {} /\ condInstall' = {} /\ condShut' = {}
  /\ lpc' = "start" /\ lg' = [end |-> 0, next |-> 0]
  /\ ipc' = "start" /\ inst' = [end |-> 0, next |-> 0]
  /\ spc' = "idle"
  /\ cpc' = [c \in Client |-> "idle"]
  /\ req' = [c \in Client |-> NoReq]
  /\ seen' = [c \in Client |-> {}]
  /\ txns' = SubSeq(txns, 1, TxnsUpTo(h1.end))

Crash ==
  /\ crashes < MaxCrashes
  /\ crashes' = crashes + 1
  /\ \E h1 \in Possible(hdr1), h2 \in Possible(hdr2),
        lb \in CrashDisks(logblk), db \in CrashDisks(data) : Recover(h1, h2, lb, db)
  /\ UNCHANGED <<appends, acked>>

Next ==
  \/ LoggerNext
  \/ InstallerNext
  \/ \E c \in Client : Call(c) \/ ClientNext(c)
  \/ CallShutdown \/ ShutdownNext
  \/ Wakeup
  \/ Crash

Spec == Init /\ [][Next]_vars

(* A Go mutex does not starve a waiter, so a thread whose critical section   *)
(* is possible again and again gets to run it; a runnable thread runs.  No   *)
(* client has to call anything, and nothing has to crash or shut down.       *)
Fairness ==
  /\ SF_vars(LoggerNext)
  /\ SF_vars(InstallerNext)
  /\ SF_vars(ShutdownNext)
  /\ \A c \in Client : SF_vars(ClientNext(c))

FairSpec == Spec /\ Fairness
-----------------------------------------------------------------------------
(* Correctness. *)

LoggerPc    == {"start", "loop", "space", "logBlocks", "hdr", "hdrBarrier", "logged", "done"}
InstallerPc == {"start", "loop", "install", "advance", "advBarrier", "installed", "done"}
ClientPc    == {"idle", "append", "memWrite", "flush", "flushWait", "read", "readInstalled"}

(* Every variable keeps its type, for wal.v's structures and the threads. *)
TypeOK ==
  /\ hdr1 \in AsyncOf(Header1)
  /\ hdr2 \in AsyncOf(Nat)
  /\ logblk \in [Slot -> AsyncOf(Nat)]
  /\ data \in [Addr -> AsyncOf(Nat)]
  /\ diskAddrs \in [Slot -> Addr \cup {NoAddr}]
  /\ memLog \in SlidingType
  /\ diskEnd \in Nat /\ shutdown \in BOOLEAN /\ nthread \in Nat
  /\ memLock \in Thread \cup {Free}
  /\ condLogger \subseteq Thread /\ condInstall \subseteq Thread /\ condShut \subseteq Thread
  /\ lpc \in LoggerPc /\ lg \in [end : Nat, next : Nat]
  /\ ipc \in InstallerPc /\ inst \in [end : Nat, next : Nat]
  /\ spc \in {"idle", "wait", "done"}
  /\ cpc \in [Client -> ClientPc]
  /\ req \in [Client -> [bufs : Seq(Update), next : Nat, pos : Nat, addr : Addr \cup {NoAddr}]]
  /\ txns \in Seq(Txn) /\ appends \in Nat /\ acked \in Nat
  /\ seen \in [Client -> SUBSET Nat]
  /\ crashes \in Nat

LoggerBusy    == lpc \in {"logBlocks", "hdr", "hdrBarrier", "logged"}
InstallerBusy == ipc \in {"install", "advance", "advBarrier", "installed"}

(* locked_wf and the order of the positions the threads hold without the     *)
(* lock (program_proof/wal/invariant.v): what is being installed is logged,  *)
(* what is being logged is read-only, and no position leaves its width.      *)
PositionsOrdered ==
  /\ memLog.start <= diskEnd /\ diskEnd <= memLog.mutable /\ memLog.mutable <= End(memLog)
  /\ End(memLog) < U64
  /\ LoggerBusy =>
       /\ diskEnd <= lg.next /\ lg.next <= lg.end /\ lg.end <= memLog.mutable
       /\ diskEnd < lg.end
  /\ InstallerBusy =>
       /\ memLog.start <= inst.next /\ inst.next <= inst.end /\ inst.end <= diskEnd
       /\ memLog.start < inst.end

(* The TODO over memLogHasSpace: its calculation is enough for the circular  *)
(* log.  What is logged or being logged fits the slots counted from any      *)
(* start the disk may come back with.                                        *)
CircularLogFits ==
  /\ End(memLog) - diskEnd <= LOGSZ
  /\ \A s \in Possible(hdr2) :
       /\ diskEnd - s <= LOGSZ
       /\ LoggerBusy => lg.end - s <= LOGSZ

(* addrPos is exact: a lookup finds the last update of the address in the    *)
(* log, through absorption, installation and recovery.                       *)
AddrPosExact ==
  \A a \in Addr : memLog.addrPos[a] = LastPos(memLog.log, memLog.start, a)

(* A logged update that is not known to be installed is in its slot, and its *)
(* address in the header, whatever a crash does.                             *)
LiveSlotsIntact ==
  \A p \in memLog.start .. diskEnd - 1 :
    /\ Possible(logblk[SlotOf(p)]) = {Get(memLog, p).Block}
    /\ \A h \in Possible(hdr1) : h.addrs[SlotOf(p)] = Get(memLog, p).Addr

MemWriting == \E c \in Client : memLock = c

(* What readMem, or the data region where it misses, would answer is what    *)
(* the transactions appended so far left there.  After a crash: what all     *)
(* recovered transactions left there, none of them in part.                  *)
ReadsCurrent ==
  ~MemWriting =>
    \A a \in Addr :
      Current(a) = IF memLog.addrPos[a] # NoPos THEN Get(memLog, memLog.addrPos[a]).Block
                                                ELSE data[a].latest

(* Read looks at the disk after it let go of memLock.  Whatever was appended, *)
(* logged and installed in between, it finds a value the address had since   *)
(* the miss.                                                                 *)
ReadIsLinearizable ==
  \A c \in Client : cpc[c] = "readInstalled" => data[req[c].addr].latest \in seen[c]

(* log_read_installed: the data region holds, at each address, the value of  *)
(* some transaction between the installed and the durable bound.             *)
InstalledInBounds ==
  \A a \in Addr : \E n \in TxnsUpTo(memLog.start) .. TxnsUpTo(diskEnd) :
    data[a].latest = LS!DiskAt(n)[a]

(* Every disk a crash can leave recovers to the effect of a prefix of the    *)
(* transactions, with all that a Flush has promised in it.                   *)
RecoveredBlock(h1, h2, lb, db, a) ==
  LET p == LastPos(RecoveredLog(h1, h2, lb), h2, a)
  IN  IF p = NoPos THEN db[a] ELSE lb[SlotOf(p)]

CrashSafe ==
  \A h1 \in Possible(hdr1), h2 \in Possible(hdr2),
     lb \in CrashDisks(logblk), db \in CrashDisks(data) :
    /\ TxnsUpTo(h1.end) >= acked
    /\ \A a \in Addr : RecoveredBlock(h1, h2, lb, db, a) = LS!DiskAt(TxnsUpTo(h1.end))[a]

(* No transaction a Flush promised is ever lost. *)
AckedKept == acked <= Len(txns)

(* The slices the logger and the installer read without memLock share the    *)
(* array memWrite overwrites: nothing they still have to read ever changes.  *)
InUse ==
  (IF LoggerBusy THEN lg.next .. lg.end - 1 ELSE {})
    \cup (IF InstallerBusy THEN inst.next .. inst.end - 1 ELSE {})

SharedSlicesStable ==
  [][ crashes' = crashes => \A p \in InUse : Get(memLog, p)' = Get(memLog, p) ]_vars

(* A thread asleep on a condition variable still has to wait for what it     *)
(* went to sleep for: whoever brought it about has woken the thread.  The    *)
(* Broadcasts and Signals of wal.v are all there is to ensure it.            *)
NoLostWakeup ==
  /\ Logger \in condLogger => ~memLog.needFlush /\ memLog.mutable = diskEnd
  /\ Logger \in condInstall => LogFull
  /\ Installer \in condInstall => diskEnd = memLog.start
  /\ \A c \in condLogger \cap Client :
       /\ cpc[c] = "append" => ~MemLogHasSpace(Len(req[c].bufs))
       /\ cpc[c] = "flushWait" => req[c].pos > diskEnd
  /\ Stopper \in condShut => ~AllStopped

(* Until Shutdown is called, the thread a sleeper waits for is there and     *)
(* not itself asleep on the same condition variable: a client waits for the  *)
(* logger, the logger for the installer, and they never wait in a circle.    *)
SomebodyWorks ==
  ~shutdown =>
    /\ condLogger \cap Client # {} => Logger \notin condLogger /\ lpc # "done"
    /\ Logger \in condInstall => Installer \notin condInstall /\ ipc # "done"

(* nthread counts the threads between their first and last critical section. *)
ThreadsCounted ==
  nthread = (IF lpc \in {"start", "done"} THEN 0 ELSE 1)
              + (IF ipc \in {"start", "done"} THEN 0 ELSE 1)

(* When Shutdown returns nobody writes to the disk any more, even if a       *)
(* thread MkLog forked had not been scheduled when Shutdown counted them.    *)
QuietAfterShutdown == spc = "done" => ~LoggerBusy /\ ~InstallerBusy

(* The log does what log_state says: appends, durability, installation and   *)
(* crashes are its transitions.                                              *)
RefinesLogState == LS!LSSpec

(* Without shutdown, Flush and MemAppend return. *)
FlushReturns == \A c \in Client : cpc[c] = "flushWait" ~> cpc[c] = "idle"

MemAppendReturns == \A c \in Client : cpc[c] = "append" ~> cpc[c] = "idle"

(* What is logged is eventually installed: log space comes back. *)
LogDrains == \A p \in 1 .. U64 - 1 : diskEnd >= p ~> memLog.start >= p

(* Shutdown returns if the logger was not inside waitForSpace when it was    *)
(* called: that is the only place where the request can be missed.           *)
ShutdownReturnsUnlessFull ==
  (spc = "wait" /\ memLock = Stopper /\ lpc # "space") ~> spc = "done"

(* "Shutdown logger and installer": they stop and Shutdown returns. *)
ShutdownReturns == spc = "wait" ~> spc = "done"
=============================================================================
