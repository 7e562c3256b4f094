--------------------------- MODULE WalDataProofs ---------------------------
(* Theorems about the contents of the write-ahead log: what it holds in      *)
(* memory, in its slots and in the data region is what the transactions      *)
(* appended to it left there, at every step and after every crash.           *)
EXTENDS WalDataLemmas

-----------------------------------------------------------------------------
(* Steps of the log                                                          *)

(* The types and the order that WalInv gives.                                *)
LEMMA Numbers ==
  ASSUME IInv
  PROVE  /\ memLog \in SlidingType /\ memLog.start \in Nat /\ memLog.mutable \in Nat
         /\ End(memLog) \in Nat /\ diskEnd \in Nat
         /\ lg.end \in Nat /\ lg.next \in Nat /\ inst.end \in Nat /\ inst.next \in Nat
         /\ memLog.start <= diskEnd /\ diskEnd <= memLog.mutable /\ memLog.mutable <= End(memLog)
         /\ memLog.mutable - memLog.start <= LOGSZ
         /\ LoggerBusy => /\ diskEnd <= lg.next /\ lg.next <= lg.end /\ lg.end <= memLog.mutable
                          /\ diskEnd < lg.end
         /\ InstallerBusy => /\ memLog.start <= inst.next /\ inst.next <= inst.end
                             /\ inst.end <= diskEnd /\ memLog.start < inst.end
         /\ lpc \in {"hdr", "hdrBarrier", "logged"} => lg.next = lg.end
         /\ ipc \in {"advance", "advBarrier", "installed"} => inst.next = inst.end
<1>1. PositionsOrdered /\ ReadOnlyFits /\ BlocksWritten
  BY DEF IInv, PositionsInv
<1>2. /\ memLog \in SlidingType /\ diskEnd \in Nat
      /\ lg \in [end : Nat, next : Nat] /\ inst \in [end : Nat, next : Nat]
  BY DEF IInv, TypeOK
<1> QED
  BY <1>1, <1>2, LogFacts DEF PositionsOrdered, ReadOnlyFits, BlocksWritten

(* The log in memory is in order.                                            *)
LEMMA LogOrder ==
  ASSUME IInv, LogInv
  PROVE  InOrder(memLog)
<1>1. memLog.start <= memLog.mutable
  BY Numbers
<1> QED
  BY <1>1, Numbers DEF InOrder, LogInv

(* All that ever happens to memLog.                                          *)
LEMMA MemLogSteps ==
  ASSUME IInv, [Next]_vars
  PROVE  \/ SameLog(memLog, memLog') /\ memLog'.mutable = memLog.mutable
         \/ (LoggerTake \/ LoggerIdle) /\ memLog' = FlushIfNeeded(memLog)
         \/ InstallCut
         \/ \E c \in Client : MemWriteOne(c)
         \/ Crash
<1>t. memLog \in SlidingType
  BY DEF IInv, TypeOK
<1>0. ASSUME memLog' = memLog
      PROVE  SameLog(memLog, memLog') /\ memLog'.mutable = memLog.mutable
  BY <1>0 DEF SameLog
<1>1. CASE LoggerNext
  <2>1. memLog' = memLog \/ ((LoggerTake \/ LoggerIdle) /\ memLog' = FlushIfNeeded(memLog))
    BY <1>1 DEF LoggerNext, LoggerStart, LoggerLoop, LoggerExit, LoggerWaitForSpace, LoggerTake,
       LoggerIdle, LoggerBlock, LoggerBarrier, LoggerHdr, LoggerHdrBarrier, LoggerLogged, stvars
  <2> QED
    BY <1>0, <2>1
<1>2. CASE (InstallerNext /\ ~InstallCut) \/ CallShutdown \/ ShutdownNext \/ Wakeup
  <2>1. memLog' = memLog
    BY <1>2 DEF InstallerNext, InstallerStart, InstallerExit, InstallerTake, InstallerIdle,
       InstallBlock, InstallBarrier, InstallAdvance, InstallAdvanceBarrier, stvars,
       CallShutdown, ShutdownNext, ShutdownSleep, ShutdownDone, Wakeup
  <2> QED
    BY <1>0, <2>1
<1>3. ASSUME NEW c \in Client, Call(c) \/ ClientNext(c), ~MemWriteOne(c)
      PROVE  SameLog(memLog, memLog') /\ memLog'.mutable = memLog.mutable
  <2>1. CASE MemAppendFull(c) \/ FlushStart(c)
    BY <1>t, <2>1 DEF MemAppendFull, FlushStart, FlushRequest, SameLog, SlidingType
  <2>2. CASE ~MemAppendFull(c) /\ ~FlushStart(c)
    <3>1. memLog' = memLog
      BY <1>3, <2>2 DEF Call, CallMemAppend, CallFlush, CallRead, ClientNext, MemAppendFail,
         MemAppendStart, MemAppendDone, FlushSleep, FlushDone, ReadMemHit,
         ReadMemMiss, ReadInstalled, stvars
    <3> QED
      BY <1>0, <3>1
  <2> QED
    BY <2>1, <2>2
<1>4. CASE UNCHANGED vars
  BY <1>0, <1>4 DEF vars, stvars
<1> QED
  BY <1>1, <1>2, <1>3, <1>4 DEF Next

(* The update that is written is one.                                        *)
LEMMA WriteEffect ==
  ASSUME IInv, LogInv, NEW c \in Client, MemWriteOne(c)
  PROVE  LET u == req[c].bufs[req[c].next] IN
         u \in Update /\ \E w \in Nat : WritesAt(memLog, u, memLog', w)
<1> DEFINE u == req[c].bufs[req[c].next]
<1>1. u \in Update
  BY NextUpdate
<1>2. memLog' = MemWrite(memLog, u)
  BY DEF MemWriteOne
<1> HIDE DEF u
<1>3. \E w \in Nat : WritesAt(memLog, u, MemWrite(memLog, u), w)
  BY <1>1, LogOrder, MemWriteWrites
<1> QED
  BY <1>1, <1>2, <1>3 DEF u

(* The cut drops what is installed.                                          *)
LEMMA CutEffect ==
  ASSUME IInv, LogInv, InstallCut
  PROVE  /\ memLog' = DeleteFrom(memLog, inst.end) /\ memLog' \in SlidingType
         /\ memLog'.start = inst.end /\ memLog'.mutable = memLog.mutable /\ End(memLog') = End(memLog)
         /\ \A p \in inst.end .. End(memLog) - 1 : Get(memLog', p) = Get(memLog, p)
         /\ InstallerBusy /\ ipc = "installed" /\ ipc' = "loop"
<1>1. /\ memLog' = DeleteFrom(memLog, inst.end)
      /\ InstallerBusy /\ ipc = "installed" /\ ipc' = "loop"
  BY DEF InstallCut, CutEnd, InstallerBusy
<1>2. memLog.start <= inst.end /\ inst.end <= End(memLog)
  BY <1>1, Numbers
<1> QED
  BY <1>1, <1>2, Numbers, DeleteFromEffect

(* addrPos stays exact, and the mutable part has one update of an address.   *)
LEMMA LogStep ==
  ASSUME IInv, LogInv, [Next]_vars
  PROVE  LogInv'
<1>o. InOrder(memLog)
  BY LogOrder
<1>i. InOrder(memLog') => LogInv'
  BY DEF InOrder, LogInv
<1>1. CASE SameLog(memLog, memLog') /\ memLog'.mutable = memLog.mutable
  <2>1. End(memLog') = End(memLog) /\ (\A p : Get(memLog', p) = Get(memLog, p))
        /\ \A a : Finds(memLog', a) <=> Finds(memLog, a)
    BY <1>1, SameLogFacts
  <2> QED
    BY <1>1, <2>1 DEF LogInv, MutableUnique
<1>2. CASE memLog' = FlushIfNeeded(memLog)
  <2>1. SameLog(memLog, memLog') /\ memLog'.mutable \in {memLog.mutable, End(memLog)}
    BY <1>2, Numbers, FlushIfNeededSame, FlushIfNeededEffect
  <2>2. End(memLog') = End(memLog) /\ (\A p : Get(memLog', p) = Get(memLog, p))
        /\ \A a : Finds(memLog', a) <=> Finds(memLog, a)
    BY <2>1, SameLogFacts
  <2>3. \A p \in End(memLog) .. End(memLog) - 1 : FALSE
    BY Numbers
  <2>4. MutableUnique(memLog')
    BY <2>1, <2>2, <2>3 DEF LogInv, MutableUnique
  <2>5. \A a \in Addr : Finds(memLog', a)
    BY <2>2 DEF LogInv
  <2> QED
    BY <2>4, <2>5 DEF LogInv
<1>3. CASE InstallCut
  <2>1. memLog' = DeleteFrom(memLog, inst.end) /\ InstallerBusy
    BY <1>3, CutEffect
  <2>2. memLog.start <= inst.end /\ inst.end <= memLog.mutable /\ inst.end \in Nat
    BY <2>1, Numbers
  <2> QED
    BY <1>o, <1>i, <2>1, <2>2, DeleteInOrder
<1>4. ASSUME NEW c \in Client, MemWriteOne(c)
      PROVE  LogInv'
  <2> DEFINE u == req[c].bufs[req[c].next]
  <2>1. u \in Update /\ \E w \in Nat : WritesAt(memLog, u, memLog', w)
    BY <1>4, WriteEffect
  <2> HIDE DEF u
  <2>2. InOrder(memLog')
    BY <1>o, <2>1, WriteInOrder
  <2> QED
    BY <1>i, <2>2
<1>5. CASE Crash
  <2>1. PICK h1 \in Possible(hdr1), h2 \in Possible(hdr2), lb \in CrashDisks(logblk),
             db \in CrashDisks(data) : Recover(h1, h2, lb, db)
    BY <1>5 DEF Crash
  <2>2. memLog' \in SlidingType /\ memLog'.mutable = h1.end /\ End(memLog') = h1.end /\ h1.end \in Nat
    BY <2>1, CrashMemLog, CrashHeaders
  <2>3. \A a \in Addr : memLog'.addrPos[a] = LastPos(memLog'.log, memLog'.start, a)
    BY <2>1 DEF Recover, MkSliding
  <2>4. \A a \in Addr : Finds(memLog', a)
    BY <2>2, <2>3, FindsLastPos
  <2>5. MutableUnique(memLog')
    BY <2>2 DEF MutableUnique
  <2> QED
    BY <2>4, <2>5 DEF LogInv
<1> QED
  BY <1>1, <1>2, <1>3, <1>4, <1>5, MemLogSteps

(* No step but a crash changes an update that is read-only and stays.        *)
LEMMA GetStable ==
  ASSUME IInv, LogInv, [Next]_vars, ~Crash
  PROVE  /\ memLog.start <= memLog'.start
         /\ \A p \in memLog'.start .. memLog.mutable - 1 : Get(memLog', p) = Get(memLog, p)
<1>1. CASE SameLog(memLog, memLog')
  <2>1. \A p : Get(memLog', p) = Get(memLog, p)
    BY <1>1, SameLogFacts
  <2> QED
    BY <1>1, <2>1, Numbers DEF SameLog
<1>2. CASE InstallCut
  BY <1>2, CutEffect, Numbers
<1>3. ASSUME NEW c \in Client, MemWriteOne(c)
      PROVE  /\ memLog.start <= memLog'.start
             /\ \A p \in memLog'.start .. memLog.mutable - 1 : Get(memLog', p) = Get(memLog, p)
  <2> DEFINE u == req[c].bufs[req[c].next]
  <2>1. u \in Update /\ \E w \in Nat : WritesAt(memLog, u, memLog', w)
    BY <1>3, WriteEffect
  <2> HIDE DEF u
  <2>2. PICK w \in Nat : WritesAt(memLog, u, memLog', w)
    BY <2>1
  <2>3. memLog'.start = memLog.start /\ memLog.mutable <= w
        /\ \A p \in memLog.start .. End(memLog) - 1 : p # w => Get(memLog', p) = Get(memLog, p)
    BY <2>2, Numbers DEF WritesAt
  <2> QED
    BY <2>3, Numbers
<1> QED
  BY <1>1, <1>2, <1>3, MemLogSteps, FlushIfNeededSame, Numbers

-----------------------------------------------------------------------------
(* The slots                                                                 *)

(* Positions less than a lap apart have different slots.                     *)
LEMMA SlotsDiffer ==
  ASSUME NEW p \in Nat, NEW q \in Nat, p < q, q - p < LOGSZ
  PROVE  SlotOf(p) # SlotOf(q)
<1>1. LOGSZ \in Nat /\ LOGSZ > 0
  BY LogSzAssumption
<1> DEFINE i == p \div LOGSZ
           j == q \div LOGSZ
<1>2. i \in Int /\ p = LOGSZ * i + (p % LOGSZ)
  BY <1>1
<1>3. j \in Int /\ q = LOGSZ * j + (q % LOGSZ)
  BY <1>1
<1>r. p % LOGSZ \in Nat /\ q % LOGSZ \in Nat
  BY <1>1
<1> HIDE DEF i, j
<1>4. SUFFICES ASSUME p % LOGSZ = q % LOGSZ PROVE FALSE
  BY DEF SlotOf
<1>5. LOGSZ * i \in Int /\ LOGSZ * j \in Int
  BY <1>1, <1>2, <1>3
<1>6. LOGSZ * j - LOGSZ * i = q - p
  BY <1>2, <1>3, <1>4, <1>5, <1>r
<1>7. CASE j <= i
  <2>1. LOGSZ * j <= LOGSZ * i
    BY <1>1, <1>2, <1>3, <1>7
  <2> QED
    BY <1>5, <1>6, <2>1
<1>8. CASE j >= i + 1
  <2>1. LOGSZ * j >= LOGSZ * (i + 1) /\ LOGSZ * (i + 1) = LOGSZ * i + LOGSZ
    BY <1>1, <1>2, <1>3, <1>8
  <2> QED
    BY <1>1, <1>5, <1>6, <2>1
<1> QED
  BY <1>2, <1>3, <1>7, <1>8

(* What a barrier leaves of a block.                                         *)
LEMMA Flushed ==
  ASSUME NEW ab
  PROVE  /\ Possible(FlushBlock(ab)) = {ab.latest} /\ FlushBlock(ab).latest = ab.latest
         /\ ab.latest \in Possible(ab)
BY DEF Possible, FlushBlock, Sync

(* What is in a slot stays there when no slot is written.                    *)
LEMMA SlotsFrame ==
  ASSUME IInv, LogInv, [Next]_vars, ~Crash, UNCHANGED diskAddrs, UNCHANGED logblk \/ Barrier,
         NEW p \in memLog'.start .. memLog.mutable - 1
  PROVE  /\ SlotIs(p) => SlotIs(p)'
         /\ Get(memLog, p)' = Get(memLog, p)
         /\ logblk'[SlotOf(p)].latest = logblk[SlotOf(p)].latest
<1>1. Get(memLog', p) = Get(memLog, p)
  BY GetStable
<1>2. p \in Nat
  <2>1. memLog'.start \in Nat
    <3>1. memLog.start <= memLog'.start /\ memLog.start \in Nat
      BY GetStable, Numbers
    <3>2. memLog'.start = memLog.start \/ InstallCut
      BY StartFrame
    <3> QED
      BY <3>1, <3>2, CutEffect, Numbers
  <2> QED
    BY <2>1, Numbers
<1>3. SlotOf(p) \in Slot /\ logblk \in [Slot -> AsyncOf(Nat)]
  BY <1>2, SlotRange DEF IInv, TypeOK
<1>4. CASE UNCHANGED logblk
  BY <1>1, <1>4 DEF SlotIs
<1>5. CASE Barrier
  <2>1. logblk'[SlotOf(p)] = FlushBlock(logblk[SlotOf(p)])
    BY <1>3, <1>5 DEF Barrier, FlushDisk
  <2> QED
    BY <1>1, <2>1, Flushed DEF SlotIs
<1> QED
  BY <1>4, <1>5

\* the live slots, on which the others build
Live == \A p \in memLog.start .. diskEnd - 1 :
          SlotIs(p) /\ \A h \in Possible(hdr1) : h.addrs[SlotOf(p)] = Get(memLog, p).Addr

\* the slots of the logger's positions, at each of its steps
Logging ==
  /\ lpc = "logBlocks" =>
       \A p \in diskEnd .. lg.next - 1 :
         /\ logblk[SlotOf(p)].latest = Get(memLog, p).Block
         /\ diskAddrs[SlotOf(p)] = Get(memLog, p).Addr
  /\ lpc \in {"hdr", "hdrBarrier", "logged"} => \A p \in diskEnd .. lg.end - 1 : SlotIs(p)
  /\ lpc = "hdrBarrier" => \A h \in Possible(hdr1) : h.end # diskEnd => h.addrs = diskAddrs
  /\ lpc = "hdrBarrier" => hdr1.latest.addrs = diskAddrs
  /\ lpc = "logged" => hdr1.latest.addrs = diskAddrs

(* Those are all the slots.                                                  *)
LEMMA SlotsParts == SlotsInv <=> Live /\ Logging
BY DEF SlotsInv, Live, Logging

(* A step that writes no slot and no header keeps both.                      *)
LEMMA SlotsKept ==
  ASSUME IInv, IInv', LogInv, SlotsInv, [Next]_vars, ~Crash,
         UNCHANGED <<diskAddrs, diskEnd>>, UNCHANGED <<hdr1, logblk>> \/ Barrier
  PROVE  /\ Live'
         /\ UNCHANGED <<lpc, lg>> => Logging'
<1>1. /\ memLog.start <= memLog'.start /\ memLog'.start <= diskEnd /\ memLog'.start \in Nat
      /\ memLog.start \in Nat /\ diskEnd \in Nat /\ diskEnd <= memLog.mutable /\ memLog.mutable \in Nat
  <2>1. memLog'.start \in Nat /\ memLog'.start <= diskEnd'
    BY LogFacts DEF IInv, TypeOK, PositionsInv, PositionsOrdered
  <2> QED
    BY <2>1, Numbers, GetStable
<1>l. Live /\ Logging
  BY SlotsParts
<1>b. UNCHANGED logblk \/ Barrier
  OBVIOUS
<1>h. /\ hdr1'.latest = hdr1.latest
      /\ Possible(hdr1') \subseteq Possible(hdr1)
  BY BarrierEffect DEF Possible
<1>2. ASSUME NEW p \in memLog'.start .. diskEnd - 1
      PROVE  SlotIs(p)' /\ \A h \in Possible(hdr1') : h.addrs[SlotOf(p)] = Get(memLog', p).Addr
  <2>1. p \in memLog.start .. diskEnd - 1 /\ p \in memLog'.start .. memLog.mutable - 1
    BY <1>1
  <2>2. SlotIs(p) /\ \A h \in Possible(hdr1) : h.addrs[SlotOf(p)] = Get(memLog, p).Addr
    BY <1>l, <2>1 DEF Live
  <2>3. SlotIs(p)' /\ Get(memLog', p) = Get(memLog, p)
    BY <1>b, <2>1, <2>2, SlotsFrame
  <2> QED
    BY <1>h, <2>2, <2>3
<1>3. Live'
  BY <1>2 DEF Live
<1>4. ASSUME UNCHANGED <<lpc, lg>>
      PROVE  Logging'
  <2>1. ASSUME LoggerBusy, NEW p \in diskEnd .. lg.end - 1
        PROVE  /\ SlotIs(p) => SlotIs(p)'
               /\ Get(memLog', p) = Get(memLog, p)
               /\ logblk'[SlotOf(p)].latest = logblk[SlotOf(p)].latest
    <3>1. lg.end <= memLog.mutable /\ lg.end \in Nat
      BY <2>1, Numbers
    <3>2. p \in memLog'.start .. memLog.mutable - 1
      BY <1>1, <3>1
    <3> QED
      BY <1>b, <3>2, SlotsFrame
  <2>2. LoggerBusy => lg.next <= lg.end /\ lg.next \in Nat /\ lg.end \in Nat
    BY Numbers
  <2>3. ASSUME lpc = "logBlocks", NEW p \in diskEnd .. lg.next - 1
        PROVE  /\ logblk'[SlotOf(p)].latest = Get(memLog', p).Block
               /\ diskAddrs'[SlotOf(p)] = Get(memLog', p).Addr
    <3>1. LoggerBusy
      BY <2>3 DEF LoggerBusy
    <3>2. p \in diskEnd .. lg.end - 1
      BY <1>1, <2>2, <3>1
    <3>3. logblk[SlotOf(p)].latest = Get(memLog, p).Block /\ diskAddrs[SlotOf(p)] = Get(memLog, p).Addr
      BY <1>l, <2>3 DEF Logging
    <3> QED
      BY <2>1, <3>1, <3>2, <3>3
  <2>4. ASSUME lpc \in {"hdr", "hdrBarrier", "logged"}, NEW p \in diskEnd .. lg.end - 1
        PROVE  SlotIs(p)'
    <3>1. LoggerBusy
      BY <2>4 DEF LoggerBusy
    <3>2. SlotIs(p)
      BY <1>l, <2>4 DEF Logging
    <3> QED
      BY <2>1, <2>4, <3>1, <3>2
  <2>5. lpc = "hdrBarrier" => \A h \in Possible(hdr1') : h.end # diskEnd => h.addrs = diskAddrs
    BY <1>h, <1>l DEF Logging
  <2>6. lpc \in {"hdrBarrier", "logged"} => hdr1'.latest.addrs = diskAddrs
    BY <1>h, <1>l DEF Logging
  <2>7. /\ lpc = "logBlocks" =>
             \A p \in diskEnd .. lg.next - 1 :
               /\ logblk'[SlotOf(p)].latest = Get(memLog', p).Block
               /\ diskAddrs'[SlotOf(p)] = Get(memLog', p).Addr
        /\ lpc \in {"hdr", "hdrBarrier", "logged"} => \A p \in diskEnd .. lg.end - 1 : SlotIs(p)'
    BY <2>3, <2>4
  <2> QED
    BY <1>4, <2>5, <2>6, <2>7 DEF Logging
<1> QED
  BY <1>3, <1>4

\* the logger outside its disk operations
LoggerRests == {"start", "loop", "space", "done"}

(* The logger at rest has nothing on its way to the disk.                    *)
LEMMA NothingLogged == lpc' \in LoggerRests => Logging'
BY DEF Logging, LoggerRests

(* The logger writes a slot.                                                 *)
LEMMA SlotWritten ==
  ASSUME IInv, LogInv, SlotsInv, LoggerBlock
  PROVE  SlotsInv'
<1> DEFINE n == lg.next
           u == Get(memLog, n)
           s == SlotOf(n)
<1>1. /\ logblk' = [logblk EXCEPT ![s] = AsyncPut(u.Block, @)]
      /\ diskAddrs' = [diskAddrs EXCEPT ![s] = u.Addr]
      /\ lg'.next = n + 1 /\ lg'.end = lg.end /\ n < lg.end
      /\ lpc = "logBlocks" /\ UNCHANGED <<lpc, hdr1, memLog, diskEnd>>
  <2>1. lg \in [end : Nat, next : Nat]
    BY DEF IInv, TypeOK
  <2> QED
    BY <2>1 DEF LoggerBlock, stvars
<1>2. /\ n \in Nat /\ s \in Slot /\ diskEnd <= n /\ n - memLog.start < LOGSZ /\ n < memLog.mutable
      /\ memLog.start \in Nat /\ diskEnd \in Nat /\ memLog.start <= diskEnd /\ memLog.mutable \in Nat
  <2>1. LoggerBusy
    BY <1>1 DEF LoggerBusy
  <2> QED
    BY <1>1, <2>1, Numbers, SlotRange, LogSzAssumption
<1>3. /\ logblk \in [Slot -> AsyncOf(Nat)] /\ diskAddrs \in [Slot -> Addr \cup {NoAddr}]
  BY DEF IInv, TypeOK
<1>l. Live /\ Logging
  BY SlotsParts
<1> HIDE DEF n, s, u
<1>4. ASSUME NEW p \in memLog.start .. n - 1
      PROVE  /\ logblk'[SlotOf(p)] = logblk[SlotOf(p)]
             /\ diskAddrs'[SlotOf(p)] = diskAddrs[SlotOf(p)]
  <2>1. p \in Nat /\ p < n /\ n - p < LOGSZ
    BY <1>2, LogSzAssumption
  <2>2. SlotOf(p) # s
    BY <1>2, <2>1, SlotsDiffer DEF s
  <2> QED
    BY <1>1, <1>2, <1>3, <2>1, <2>2, SlotRange
<1>5. ASSUME NEW p \in memLog.start .. diskEnd - 1
      PROVE  SlotIs(p)' /\ \A h \in Possible(hdr1) : h.addrs[SlotOf(p)] = Get(memLog, p).Addr
  <2>1. p \in memLog.start .. n - 1
    BY <1>2
  <2>2. SlotIs(p) /\ \A h \in Possible(hdr1) : h.addrs[SlotOf(p)] = Get(memLog, p).Addr
    BY <1>l DEF Live
  <2> QED
    BY <1>1, <1>4, <2>1, <2>2 DEF SlotIs
<1>6. ASSUME NEW p \in diskEnd .. n
      PROVE  /\ logblk'[SlotOf(p)].latest = Get(memLog, p).Block
             /\ diskAddrs'[SlotOf(p)] = Get(memLog, p).Addr
  <2>1. CASE p = n
    <3>1. logblk'[s].latest = u.Block /\ diskAddrs'[s] = u.Addr
      BY <1>1, <1>2, <1>3 DEF AsyncPut
    <3> QED
      BY <2>1, <3>1 DEF s, u
  <2>2. CASE p # n
    <3>1. p \in diskEnd .. n - 1 /\ p \in memLog.start .. n - 1
      BY <1>2, <2>2
    <3>2. logblk[SlotOf(p)].latest = Get(memLog, p).Block /\ diskAddrs[SlotOf(p)] = Get(memLog, p).Addr
      BY <1>1, <1>l, <3>1 DEF Logging, n
    <3> QED
      BY <1>4, <3>1, <3>2
  <2> QED
    BY <2>1, <2>2
<1>7. Live'
  BY <1>1, <1>5 DEF Live
<1>8. Logging'
  <2>1. lg'.next - 1 = n
    BY <1>1, <1>2
  <2> QED
    BY <1>1, <1>6, <2>1 DEF Logging
<1> QED
  BY <1>7, <1>8 DEF SlotsInv, Live, Logging

(* The blocks are on disk.                                                   *)
LEMMA SlotsFlushed ==
  ASSUME IInv, IInv', LogInv, SlotsInv, LoggerBarrier, [Next]_vars, ~Crash
  PROVE  SlotsInv'
<1>1. /\ Barrier /\ lpc = "logBlocks" /\ lpc' = "hdr" /\ lg.next = lg.end
      /\ UNCHANGED <<diskAddrs, diskEnd, memLog, lg>>
  BY DEF LoggerBarrier, LoggedBarrier, stvars
<1>2. Live'
  BY <1>1, SlotsKept
<1>l. Live /\ Logging
  BY SlotsParts
<1>3. ASSUME NEW p \in diskEnd .. lg.end - 1
      PROVE  SlotIs(p)'
  <2>1. logblk[SlotOf(p)].latest = Get(memLog, p).Block /\ diskAddrs[SlotOf(p)] = Get(memLog, p).Addr
    BY <1>1, <1>l DEF Logging
  <2>2. SlotOf(p) \in Slot /\ logblk \in [Slot -> AsyncOf(Nat)]
    <3>1. p \in Nat
      BY Numbers
    <3> QED
      BY <3>1, SlotRange DEF IInv, TypeOK
  <2>3. logblk'[SlotOf(p)] = FlushBlock(logblk[SlotOf(p)])
    BY <1>1, <2>2 DEF Barrier, FlushDisk
  <2> QED
    BY <1>1, <2>1, <2>3, Flushed DEF SlotIs
<1>4. Logging'
  BY <1>1, <1>3 DEF Logging
<1> QED
  BY <1>2, <1>4 DEF SlotsInv, Live, Logging

(* The header is written over the slots.                                     *)
LEMMA HeaderWritten ==
  ASSUME IInv, SlotsInv, LoggerHdr
  PROVE  SlotsInv'
<1> DEFINE new == [end |-> lg.end, addrs |-> diskAddrs]
<1>1. /\ hdr1' = AsyncPut(new, hdr1) /\ lpc = "hdr" /\ lpc' = "hdrBarrier"
      /\ UNCHANGED <<logblk, diskAddrs, diskEnd, memLog, lg>>
  BY DEF LoggerHdr, stvars
<1>l. Live /\ Logging
  BY SlotsParts
<1>2. Possible(hdr1') = Possible(hdr1) \cup {new} /\ hdr1'.latest = new
  BY <1>1 DEF Possible, AsyncPut
<1>3. \A h \in Possible(hdr1) : h.end = diskEnd
  BY <1>1 DEF IInv, DiskInv, Hdr1Agrees, Possible
<1>4. ASSUME NEW p \in memLog.start .. diskEnd - 1
      PROVE  SlotIs(p)' /\ \A h \in Possible(hdr1') : h.addrs[SlotOf(p)] = Get(memLog, p).Addr
  <2>1. SlotIs(p) /\ \A h \in Possible(hdr1) : h.addrs[SlotOf(p)] = Get(memLog, p).Addr
    BY <1>l DEF Live
  <2> QED
    BY <1>1, <1>2, <2>1 DEF SlotIs
<1>5. Live'
  BY <1>1, <1>4 DEF Live
<1>6. ASSUME NEW p \in diskEnd .. lg.end - 1
      PROVE  SlotIs(p)'
  <2>1. SlotIs(p)
    BY <1>1, <1>l DEF Logging
  <2> QED
    BY <1>1, <2>1 DEF SlotIs
<1>7. Logging'
  BY <1>1, <1>2, <1>3, <1>6 DEF Logging
<1> QED
  BY <1>5, <1>7 DEF SlotsInv, Live, Logging

(* The header is on disk.                                                    *)
LEMMA HeaderFlushed ==
  ASSUME IInv, IInv', LogInv, SlotsInv, LoggerHdrBarrier, [Next]_vars, ~Crash
  PROVE  SlotsInv'
<1>1. /\ Barrier /\ lpc = "hdrBarrier" /\ lpc' = "logged"
      /\ UNCHANGED <<diskAddrs, diskEnd, memLog, lg>>
  BY DEF LoggerHdrBarrier, HdrBarrier, stvars
<1>2. Live'
  BY <1>1, SlotsKept
<1>l. Live /\ Logging
  BY SlotsParts
<1>3. hdr1'.latest.addrs = diskAddrs'
  BY <1>1, <1>l, BarrierEffect DEF Logging
<1>4. ASSUME NEW p \in diskEnd .. lg.end - 1
      PROVE  SlotIs(p)'
  <2>1. SlotIs(p)
    BY <1>1, <1>l DEF Logging
  <2>2. p \in memLog'.start .. memLog.mutable - 1
    <3>1. LoggerBusy
      BY <1>1 DEF LoggerBusy
    <3> QED
      BY <1>1, <3>1, Numbers
  <2> QED
    BY <1>1, <2>1, <2>2, SlotsFrame
<1>5. Logging'
  BY <1>1, <1>3, <1>4 DEF Logging
<1> QED
  BY <1>2, <1>5 DEF SlotsInv, Live, Logging

(* What was being logged is logged.                                          *)
LEMMA LoggedLive ==
  ASSUME IInv, SlotsInv, LoggerLogged
  PROVE  SlotsInv'
<1>1. /\ lpc = "logged" /\ lpc' = "loop" /\ diskEnd' = lg.end /\ UNCHANGED <<diskvars, diskAddrs, memLog>>
  BY DEF LoggerLogged, LoggedEnd
<1>l. Live /\ Logging
  BY SlotsParts
<1>2. ASSUME NEW p \in memLog.start .. lg.end - 1
      PROVE  SlotIs(p) /\ \A h \in Possible(hdr1) : h.addrs[SlotOf(p)] = Get(memLog, p).Addr
  <2>1. p \in memLog.start .. diskEnd - 1 \/ p \in diskEnd .. lg.end - 1
    BY Numbers
  <2>2. CASE p \in memLog.start .. diskEnd - 1
    BY <1>l, <2>2 DEF Live
  <2>3. CASE p \in diskEnd .. lg.end - 1
    <3>1. SlotIs(p) /\ hdr1.latest.addrs = diskAddrs
      BY <1>1, <1>l, <2>3 DEF Logging
    <3>2. Possible(hdr1) = {hdr1.latest}
      BY <1>1 DEF IInv, DiskInv, Hdr1Agrees, Possible
    <3> QED
      BY <3>1, <3>2 DEF SlotIs
  <2> QED
    BY <2>1, <2>2, <2>3
<1>3. Live'
  BY <1>1, <1>2 DEF Live, SlotIs, diskvars
<1>4. Logging'
  BY <1>1 DEF Logging
<1> QED
  BY <1>3, <1>4 DEF SlotsInv, Live, Logging

(* The log that recovery reads is what the slots hold.                       *)
LEMMA RecoveredGet ==
  ASSUME NEW h1, NEW h2 \in Nat, NEW lb, h1.end \in Nat, NEW db, Recover(h1, h2, lb, db),
         NEW p \in h2 .. h1.end - 1
  PROVE  Get(memLog', p) = [Addr |-> h1.addrs[SlotOf(p)], Block |-> lb[SlotOf(p)]]
<1>1. memLog'.log = RecoveredLog(h1, h2, lb) /\ memLog'.start = h2
  BY DEF Recover, MkSliding
<1>2. p - h2 + 1 \in 1 .. h1.end - h2 /\ h2 + (p - h2 + 1) - 1 = p
  OBVIOUS
<1>3. RecoveredLog(h1, h2, lb)[p - h2 + 1] =
        [Addr |-> h1.addrs[SlotOf(h2 + (p - h2 + 1) - 1)], Block |-> lb[SlotOf(h2 + (p - h2 + 1) - 1)]]
  BY <1>2 DEF RecoveredLog
<1> QED
  BY <1>1, <1>2, <1>3 DEF Get

(* So its slots are live.                                                    *)
LEMMA SlotsRecovered ==
  ASSUME IInv, Crash
  PROVE  SlotsInv'
<1>1. PICK h1 \in Possible(hdr1), h2 \in Possible(hdr2), lb \in CrashDisks(logblk),
           db \in CrashDisks(data) : Recover(h1, h2, lb, db)
  BY DEF Crash
<1>2. h1.end \in Nat /\ h2 \in Nat
  BY CrashHeaders
<1>3. /\ hdr1' = Sync(h1) /\ logblk' = SyncDisk(lb) /\ diskAddrs' = h1.addrs
      /\ diskEnd' = h1.end /\ lpc' = "start" /\ memLog'.start = h2
  BY <1>1 DEF Recover, MkSliding
<1>4. Possible(hdr1') = {h1}
  BY <1>3 DEF Possible, Sync
<1>5. ASSUME NEW p \in h2 .. h1.end - 1
      PROVE  /\ Possible(logblk'[SlotOf(p)]) = {Get(memLog', p).Block}
             /\ diskAddrs'[SlotOf(p)] = Get(memLog', p).Addr
             /\ h1.addrs[SlotOf(p)] = Get(memLog', p).Addr
  <2>1. Get(memLog', p) = [Addr |-> h1.addrs[SlotOf(p)], Block |-> lb[SlotOf(p)]]
    BY <1>1, <1>2, RecoveredGet
  <2>2. SlotOf(p) \in DOMAIN lb
    <3>1. p \in Nat
      BY <1>2
    <3>2. logblk \in [Slot -> AsyncOf(Nat)]
      BY DEF IInv, TypeOK
    <3> QED
      BY <3>1, <3>2, SlotRange DEF CrashDisks
  <2>3. logblk'[SlotOf(p)] = Sync(lb[SlotOf(p)])
    BY <1>3, <2>2 DEF SyncDisk
  <2> QED
    BY <1>3, <2>1, <2>3 DEF Possible, Sync
<1>6. Live'
  BY <1>3, <1>4, <1>5 DEF Live, SlotIs
<1>7. Logging'
  BY <1>3 DEF Logging
<1> QED
  BY <1>6, <1>7 DEF SlotsInv, Live, Logging

(* No step loses an update that is in its slot.                              *)
LEMMA SlotsStep ==
  ASSUME IInv, IInv', LogInv, SlotsInv, [Next]_vars
  PROVE  SlotsInv'
<1>f. Live' /\ Logging' => SlotsInv'
  BY DEF SlotsInv, Live, Logging
<1>0. ASSUME ~Crash, UNCHANGED <<diskAddrs, diskEnd, lpc, lg>>, UNCHANGED <<hdr1, logblk>> \/ Barrier
      PROVE  SlotsInv'
  BY <1>0, <1>f, SlotsKept
<1>1. CASE Crash
  BY <1>1, SlotsRecovered
<1>2. CASE LoggerNext /\ ~Crash
  <2>1. CASE LoggerStart \/ LoggerLoop \/ LoggerExit \/ LoggerIdle
    <3>1. UNCHANGED <<diskAddrs, diskEnd, hdr1, logblk>> /\ lpc' \in {"loop", "space", "done"}
      BY <2>1 DEF LoggerStart, LoggerLoop, LoggerExit, LoggerIdle, stvars, diskvars
    <3>2. Live'
      BY <1>2, <3>1, SlotsKept
    <3> QED
      BY <1>f, <3>1, <3>2 DEF Logging
  <2>2. CASE LoggerWaitForSpace
    BY <1>0, <1>2, <2>2 DEF LoggerWaitForSpace, stvars, diskvars, logvars
  <2>3. CASE LoggerTake
    <3>1. /\ UNCHANGED <<diskAddrs, diskEnd, hdr1, logblk>> /\ lpc' = "logBlocks"
          /\ lg'.next = diskEnd
      BY <2>3 DEF LoggerTake, diskvars
    <3>2. Live'
      BY <1>2, <3>1, SlotsKept
    <3>3. \A p \in diskEnd .. diskEnd - 1 : FALSE
      BY Numbers
    <3> QED
      BY <1>f, <3>1, <3>2, <3>3 DEF Logging
  <2> QED
    BY <1>2, <2>1, <2>2, <2>3, SlotWritten, SlotsFlushed, HeaderWritten, HeaderFlushed, LoggedLive
       DEF LoggerNext
<1>3. CASE (InstallerNext \/ CallShutdown \/ ShutdownNext \/ Wakeup) /\ ~Crash
  <2>1. /\ UNCHANGED <<diskEnd, lpc, lg, diskAddrs>>
        /\ UNCHANGED <<hdr1, logblk>> \/ Barrier
    BY <1>3 DEF InstallerNext, InstallerStart, InstallerExit, InstallerTake, InstallerIdle,
       InstallBlock, InstallBarrier, InstalledBarrier, InstallAdvance, InstallAdvanceBarrier, InstallCut,
       CallShutdown, ShutdownNext, ShutdownSleep, ShutdownDone, Wakeup, stvars, logvars, diskvars
  <2> QED
    BY <1>0, <1>3, <2>1
<1>4. ASSUME NEW c \in Client, Call(c) \/ ClientNext(c), ~Crash
      PROVE  SlotsInv'
  <2>1. UNCHANGED <<diskEnd, lpc, lg, diskAddrs, hdr1, logblk>>
    BY <1>4, ClientFrame DEF diskvars
  <2> QED
    BY <1>0, <1>4, <2>1
<1>5. CASE UNCHANGED vars /\ ~Crash
  BY <1>0, <1>5 DEF vars, stvars, logvars, diskvars
<1> QED
  BY <1>1, <1>2, <1>3, <1>4, <1>5 DEF Next

-----------------------------------------------------------------------------
(* Every step keeps the effect                                               *)

(* The transactions and the cuts as the invariants have them.                *)
LEMMA TxnFacts ==
  ASSUME IInv, TxnsInv
  PROVE  Good(txns) /\ Cuts(memLog, Bounds) /\ Effect(txns, memLog, Bounds)
<1>1. Effect(txns, memLog, Bounds)
  BY DEF TxnsInv
<1>2. Good(txns)
  BY <1>1 DEF Good, Effect, IInv, TypeOK, FirstTxn
<1>3. Cuts(memLog, Bounds)
  BY Numbers DEF Cuts, Bounds
<1> QED
  BY <1>1, <1>2, <1>3

(* Only the thread that is in memWrite holds memLock.                        *)
LEMMA OneWriter ==
  ASSUME IInv, NEW c \in Client, cpc[c] = "memWrite"
  PROVE  memLock = c /\ \A t \in Thread : Enter(t) => t = c
<1>1. memLock = c /\ c # Free
  BY ClientAssumption DEF IInv, PositionsInv, AppendReserved, Reserved
<1> QED
  BY <1>1 DEF Enter

(* Steps that change neither the transactions nor those writing one.         *)
LEMMA EndsKept ==
  ASSUME EndShown, txns' = txns,
         \A c \in Client : cpc'[c] = "memWrite" <=> cpc[c] = "memWrite",
         \A c \in Client : cpc[c] = "memWrite" =>
           req'[c].bufs = req[c].bufs /\ req'[c].next = req[c].next,
         End(memLog') = End(memLog),
         (\E c \in Client : cpc[c] = "memWrite") => memLog'.mutable = memLog.mutable,
         \A now : Ends(txns, memLog, now) => Ends(txns, memLog', now)
  PROVE  EndShown'
<1>1. ASSUME NEW c \in Client, cpc'[c] = "memWrite"
      PROVE  /\ Ends(txns', memLog', With(txns', Written(c)'))
             /\ req'[c].next > 1 => End(memLog') > memLog'.mutable
  <2>1. cpc[c] = "memWrite" /\ Written(c)' = Written(c) /\ memLog'.mutable = memLog.mutable
    BY <1>1 DEF Written
  <2>2. Ends(txns, memLog, With(txns, Written(c))) /\ (req[c].next > 1 => End(memLog) > memLog.mutable)
    BY <2>1 DEF EndShown
  <2>3. Ends(txns, memLog', With(txns, Written(c)))
    BY <2>2
  <2> QED
    BY <2>1, <2>2, <2>3
<1>2. ASSUME \A c \in Client : cpc'[c] # "memWrite"
      PROVE  /\ Ends(txns', memLog', Latest(txns'))
             /\ txns'[Len(txns')].pos = End(memLog')
  <2>1. Ends(txns, memLog, Latest(txns)) /\ txns[Len(txns)].pos = End(memLog)
    BY <1>2 DEF EndShown
  <2>2. Ends(txns, memLog', Latest(txns))
    BY <2>1
  <2> QED
    BY <2>1, <2>2
<1> QED
  BY <1>1, <1>2 DEF EndShown

(* The cuts of the next state are in order, too.                             *)
LEMMA CutsNext ==
  ASSUME IInv'
  PROVE  Cuts(memLog', Bounds')
<1>1. PositionsOrdered' /\ memLog' \in SlidingType /\ diskEnd' \in Nat
  BY DEF IInv, TypeOK, PositionsInv
<1>2. lg' \in [end : Nat, next : Nat] /\ inst' \in [end : Nat, next : Nat]
  BY DEF IInv, TypeOK
<1>3. /\ memLog'.start \in Nat /\ memLog'.mutable \in Nat /\ lg'.end \in Nat /\ inst'.end \in Nat
      /\ lg'.next \in Nat /\ inst'.next \in Nat
  BY <1>1, <1>2, LogFacts
<1>4. Bounds' = {memLog'.start, diskEnd', memLog'.mutable}
                  \cup (IF LoggerBusy' THEN {lg'.end} ELSE {})
                  \cup (IF InstallerBusy' THEN {inst'.end} ELSE {})
  BY DEF Bounds
<1>5. /\ memLog'.start <= diskEnd' /\ diskEnd' <= memLog'.mutable
      /\ LoggerBusy' => diskEnd' <= lg'.next /\ lg'.next <= lg'.end /\ lg'.end <= memLog'.mutable
      /\ InstallerBusy' => /\ memLog'.start <= inst'.next /\ inst'.next <= inst'.end
                           /\ inst'.end <= diskEnd'
  BY <1>1 DEF PositionsOrdered
<1> QED
  BY <1>1, <1>3, <1>4, <1>5 DEF Cuts

(* The threads cut the log where they did, or where it is read-only now.     *)
LEMMA BoundsStep ==
  ASSUME IInv, LogInv, [Next]_vars, ~Crash
  PROVE  /\ Bounds' \subseteq Bounds \cup {memLog'.mutable}
         /\ memLog'.start \in Bounds
         /\ InstallCut => memLog'.start = inst.end
<1>1. memLog'.start \in Bounds /\ (InstallCut => memLog'.start = inst.end)
  <2>1. CASE InstallCut
    BY <2>1, CutEffect DEF Bounds
  <2>2. CASE ~InstallCut
    BY <2>2, StartFrame DEF Bounds
  <2> QED
    BY <2>1, <2>2
<1>2. /\ diskEnd' = diskEnd \/ (LoggerBusy /\ diskEnd' = lg.end)
      /\ LoggerBusy' => \/ LoggerBusy /\ lg'.end = lg.end
                        \/ lg'.end = diskEnd + (memLog'.mutable - diskEnd)
      /\ InstallerBusy' => \/ InstallerBusy /\ inst'.end = inst.end
                           \/ inst'.end = diskEnd
  <2>0. lg \in [end : Nat, next : Nat] /\ inst \in [end : Nat, next : Nat]
    BY DEF IInv, TypeOK
  <2>1. ASSUME LoggerNext
        PROVE  /\ diskEnd' = diskEnd \/ (LoggerBusy /\ diskEnd' = lg.end)
               /\ LoggerBusy' => \/ LoggerBusy /\ lg'.end = lg.end
                                 \/ lg'.end = diskEnd + (memLog'.mutable - diskEnd)
               /\ UNCHANGED <<ipc, inst>>
    BY <2>0, <2>1 DEF LoggerNext, LoggerStart, LoggerLoop, LoggerExit, LoggerWaitForSpace, LoggerTake,
       LoggerIdle, LoggerBlock, LoggerBarrier, LoggerHdr, LoggerHdrBarrier, LoggerLogged, LoggedEnd,
       LoggerBusy, TakeFromLen, stvars, logvars, instvars
  <2>2. ASSUME InstallerNext
        PROVE  /\ UNCHANGED <<diskEnd, lpc, lg>>
               /\ InstallerBusy' => \/ InstallerBusy /\ inst'.end = inst.end
                                    \/ inst'.end = diskEnd
    BY <2>0, <2>2 DEF InstallerNext, InstallerStart, InstallerExit, InstallerTake, InstallerIdle,
       InstallBlock, InstallBarrier, InstallAdvance, InstallAdvanceBarrier, InstallCut, InstallEnd,
       InstallerBusy, stvars, logvars, instvars
  <2>3. ASSUME CallShutdown \/ ShutdownNext \/ Wakeup \/ UNCHANGED vars
        PROVE  UNCHANGED <<diskEnd, lpc, lg, ipc, inst>>
    BY <2>3 DEF CallShutdown, ShutdownNext, ShutdownSleep, ShutdownDone, Wakeup, vars, stvars, logvars,
       instvars
  <2>4. ASSUME NEW c \in Client, Call(c) \/ ClientNext(c)
        PROVE  UNCHANGED <<diskEnd, lpc, lg, ipc, inst>>
    BY <2>4, ClientFrame
  <2>5. ASSUME UNCHANGED <<lpc, lg>>
        PROVE  LoggerBusy' => LoggerBusy /\ lg'.end = lg.end
    BY <2>5 DEF LoggerBusy
  <2>6. ASSUME UNCHANGED <<ipc, inst>>
        PROVE  InstallerBusy' => InstallerBusy /\ inst'.end = inst.end
    BY <2>6 DEF InstallerBusy
  <2>7. CASE LoggerNext
    BY <2>1, <2>6, <2>7
  <2>8. CASE InstallerNext
    BY <2>2, <2>5, <2>8
  <2>9. CASE ~LoggerNext /\ ~InstallerNext
    <3>1. UNCHANGED <<diskEnd, lpc, lg, ipc, inst>>
      BY <2>3, <2>4, <2>9 DEF Next
    <3> QED
      BY <2>5, <2>6, <3>1
  <2> QED
    BY <2>7, <2>8, <2>9
<1>3. memLog'.mutable \in Nat => diskEnd + (memLog'.mutable - diskEnd) = memLog'.mutable
  BY Numbers
<1>4. memLog'.mutable \in Nat
  <2>1. memLog'.mutable \in {memLog.mutable, End(memLog)} \/ InstallCut \/ \E c \in Client : MemWriteOne(c)
    BY MemLogSteps, Numbers, FlushIfNeededEffect
  <2>2. \A c \in Client : MemWriteOne(c) => memLog'.mutable = memLog.mutable
    BY WriteEffect DEF WritesAt
  <2> QED
    BY <2>1, <2>2, CutEffect, Numbers
<1>5. Bounds' = {memLog'.start, diskEnd', memLog'.mutable}
                  \cup (IF LoggerBusy' THEN {lg'.end} ELSE {})
                  \cup (IF InstallerBusy' THEN {inst'.end} ELSE {})
  BY DEF Bounds
<1> QED
  BY <1>1, <1>2, <1>3, <1>4, <1>5 DEF Bounds

(* The steps of a client outside memWrite.                                   *)
LEMMA ClientQuiet ==
  ASSUME IInv, NEW c \in Client, Call(c) \/ ClientNext(c),
         ~MemAppendStart(c), ~MemWriteOne(c), ~MemAppendDone(c)
  PROVE  /\ txns' = txns
         /\ \A d \in Client : cpc'[d] = "memWrite" <=> cpc[d] = "memWrite"
         /\ \A d \in Client : cpc[d] = "memWrite" => req'[d] = req[d]
<1>t. TypeOK /\ cpc \in [Client -> ClientPc]
  BY DEF IInv, TypeOK
<1>1. cpc[c] # "memWrite" /\ cpc'[c] # "memWrite" /\ txns' = txns
  BY <1>t DEF Call, CallMemAppend, CallFlush, CallRead, ClientNext, MemAppendFail, MemAppendFull,
     FlushStart, FlushSleep, FlushDone, ReadMemHit, ReadMemMiss, ReadInstalled, Return, history, clivars
<1>2. \A d \in Client : d # c => cpc'[d] = cpc[d] /\ req'[d] = req[d]
  BY <1>t, ClientLocals
<1> QED
  BY <1>1, <1>2

(* Recovery reads what the log had.                                          *)
LEMMA RecoveredSlots ==
  ASSUME IInv, SlotsInv, NEW h1 \in Possible(hdr1), NEW h2 \in Possible(hdr2),
         NEW lb \in CrashDisks(logblk), NEW p \in h2 .. h1.end - 1
  PROVE  /\ lb[SlotOf(p)] = Get(memLog, p).Block
         /\ h1.addrs[SlotOf(p)] = Get(memLog, p).Addr
         /\ Get(memLog, p) \in Update
<1>1. /\ memLog.start <= h2 /\ h2 <= diskEnd /\ diskEnd <= h1.end /\ h1.end <= memLog.mutable
      /\ h2 \in Nat /\ h1.end \in Nat /\ memLog.start \in Nat /\ memLog.mutable \in Nat /\ diskEnd \in Nat
  BY CrashHeaders, Numbers
<1>2. p \in Nat /\ memLog.start <= p /\ p < memLog.mutable /\ SlotOf(p) \in Slot
  BY <1>1, SlotRange
<1>3. SlotIs(p) /\ h1.addrs[SlotOf(p)] = Get(memLog, p).Addr
  <2>1. CASE p < diskEnd
    BY <1>1, <1>2, <2>1 DEF SlotsInv
  <2>2. CASE p >= diskEnd
    <3>1. /\ lpc \in {"hdrBarrier", "logged"} /\ h1.end = lg.end /\ h1.addrs = diskAddrs
      <4>1. h1.end # diskEnd
        BY <1>1, <2>2
      <4>2. CASE lpc = "hdrBarrier"
        BY <4>1, <4>2 DEF IInv, DiskInv, Hdr1Agrees, SlotsInv, Possible
      <4>3. CASE lpc # "hdrBarrier"
        <5>1. h1 = hdr1.latest /\ lpc = "logged" /\ h1.end = lg.end
          BY <4>1, <4>3 DEF IInv, DiskInv, Hdr1Agrees, Possible
        <5> QED
          BY <5>1 DEF SlotsInv
      <4> QED
        BY <4>2, <4>3
    <3>2. p \in diskEnd .. lg.end - 1
      BY <1>1, <1>2, <2>2, <3>1
    <3>3. SlotIs(p)
      BY <3>1, <3>2 DEF SlotsInv
    <3> QED
      BY <3>1, <3>3 DEF SlotIs
  <2> QED
    BY <1>1, <1>2, <2>1, <2>2
<1>4. lb[SlotOf(p)] = Get(memLog, p).Block
  <2>1. logblk \in [Slot -> AsyncOf(Nat)]
    BY DEF IInv, TypeOK
  <2>2. lb[SlotOf(p)] \in Possible(logblk[SlotOf(p)])
    BY <1>2, <2>1 DEF CrashDisks
  <2> QED
    BY <1>3, <2>2 DEF SlotIs
<1>5. Get(memLog, p) \in Update
  BY <1>2, GetType
<1> QED
  BY <1>3, <1>4, <1>5

(* Recovery reads them back.                                                 *)
LEMMA RecoveredSame ==
  ASSUME IInv, SlotsInv, NEW h1 \in Possible(hdr1), NEW h2 \in Possible(hdr2),
         NEW lb \in CrashDisks(logblk), NEW db, Recover(h1, h2, lb, db)
  PROVE  \A p \in h2 .. h1.end - 1 : Get(memLog', p) = Get(memLog, p)
<1>1. h2 \in Nat /\ h1.end \in Nat
  BY CrashHeaders
<1> SUFFICES ASSUME NEW p \in h2 .. h1.end - 1
             PROVE  Get(memLog', p) = Get(memLog, p)
  OBVIOUS
<1>2. Get(memLog', p) = [Addr |-> h1.addrs[SlotOf(p)], Block |-> lb[SlotOf(p)]]
  BY <1>1, RecoveredGet
<1> QED
  BY <1>2, RecoveredSlots DEF Update

(* Where recovery cuts the log it was cut before.                            *)
LEMMA RecoveredCuts ==
  ASSUME IInv, NEW h1 \in Possible(hdr1), NEW h2 \in Possible(hdr2)
  PROVE  h1.end \in Bounds /\ h2 \in Bounds
BY DEF IInv, DiskInv, Hdr1Agrees, Hdr2Agrees, Possible, Bounds, LoggerBusy, InstallerBusy

(* One more update of the transaction.                                       *)
LEMMA TxnsWrite ==
  ASSUME IInv, LogInv, TxnsInv, NEW c \in Client, MemWriteOne(c), [Next]_vars, ~Crash
  PROVE  TxnsInv'
<1> DEFINE u == req[c].bufs[req[c].next]
           i == req[c].next
<1>1. /\ cpc[c] = "memWrite" /\ i <= Len(req[c].bufs) /\ UNCHANGED <<txns, cpc>>
      /\ req' = [req EXCEPT ![c].next = @ + 1]
  BY DEF MemWriteOne, history
<1>2. u \in Update /\ \E w \in Nat : WritesAt(memLog, u, memLog', w)
  BY WriteEffect
<1> HIDE DEF u
<1>3. PICK w \in Nat : WritesAt(memLog, u, memLog', w)
  BY <1>2
<1>4. Good(txns) /\ Cuts(memLog, Bounds) /\ Effect(txns, memLog, Bounds) /\ InOrder(memLog)
  BY TxnFacts, LogOrder
<1>5. /\ memLog'.start = memLog.start /\ memLog'.mutable = memLog.mutable
      /\ End(memLog') > memLog.mutable
  <2>1. w \in memLog.mutable .. End(memLog) /\ w \in Nat
    BY <1>3 DEF WritesAt
  <2>2. End(memLog') = IF w = End(memLog) THEN End(memLog) + 1 ELSE End(memLog)
    BY <1>3 DEF WritesAt
  <2>3. memLog'.start = memLog.start /\ memLog'.mutable = memLog.mutable
    BY <1>3 DEF WritesAt
  <2>4. memLog.mutable \in Nat /\ End(memLog) \in Nat
    BY Numbers
  <2> HIDE DEF u
  <2>5. End(memLog') > memLog.mutable
    BY <2>1, <2>2, <2>4
  <2> QED
    BY <2>3, <2>5
<1>6. Effect(txns', memLog', Bounds')
  <2>1. Effect(txns, memLog', Bounds)
    BY <1>2, <1>3, <1>4, EffectWrite
  <2>2. Bounds' \subseteq Bounds
    BY <1>4, <1>5, BoundsStep DEF Cuts
  <2>3. SameLog(memLog', memLog')
    BY DEF SameLog
  <2> QED
    BY <1>1, <2>1, <2>2, <2>3, EffectSame
<1>7. /\ req[c].bufs \in Seq(Update) /\ i \in Nat /\ i >= 1
      /\ req \in [Client -> [bufs : Seq(Update), next : Nat, pos : Nat, addr : Addr \cup {NoAddr}]]
  BY <1>1 DEF IInv, TypeOK, PositionsInv, AppendReserved, Reserved
<1>8. Written(c)' = Append(Written(c), u) /\ Written(c) \in Seq(Update)
  <2>1. req'[c].bufs = req[c].bufs /\ req'[c].next = i + 1
    BY <1>1, <1>7
  <2>2. i \in 1 .. Len(req[c].bufs)
    BY <1>1, <1>7
  <2>3. SubSeq(req[c].bufs, 1, i) = Append(SubSeq(req[c].bufs, 1, i - 1), req[c].bufs[i])
        /\ SubSeq(req[c].bufs, 1, i - 1) \in Seq(Update)
    BY <1>7, <2>2, SubSeqNext
  <2>4. req'[c].next - 1 = i
    BY <1>7, <2>1
  <2>5. Written(c)' = SubSeq(req'[c].bufs, 1, req'[c].next - 1)
    BY DEF Written
  <2>6. Written(c)' = SubSeq(req[c].bufs, 1, i)
    BY <2>1, <2>4, <2>5
  <2> QED
    BY <2>3, <2>6 DEF Written, u
<1>9. Ends(txns, memLog', With(txns, Append(Written(c), u)))
  <2>1. Shows(memLog, End(memLog), Disk(txns, memLog.start), With(txns, Written(c)))
    BY <1>1 DEF TxnsInv, EndShown, Ends
  <2>2. \A a \in Addr : With(txns, Append(Written(c), u))[a] =
          IF a = u.Addr THEN u.Block ELSE With(txns, Written(c))[a]
    BY <1>2, <1>4, <1>8, WithSteps, GoodFacts
  <2>3. Shows(memLog', End(memLog'), Disk(txns, memLog.start), With(txns, Append(Written(c), u)))
    BY <1>2, <1>3, <1>4, <2>1, <2>2, WriteShows
  <2> QED
    BY <1>5, <2>3 DEF Ends
<1>10. \A d \in Client : cpc[d] = "memWrite" => d = c
  BY <1>1, OneWriter
<1>11. EndShown'
  BY <1>1, <1>5, <1>8, <1>9, <1>10 DEF EndShown
<1> QED
  BY <1>6, <1>11 DEF TxnsInv

(* The transaction that MemAppend adds.  If the log is cut at its end, it is *)
(* empty.                                                                    *)
LEMMA AppendFacts ==
  ASSUME IInv, TxnsInv, NEW c \in Client, MemAppendDone(c)
  PROVE  LET x == [pos |-> End(memLog), upds |-> req[c].bufs] IN
         /\ txns' = Append(txns, x) /\ x \in Txn /\ x.pos = End(memLog) /\ x.upds = req[c].bufs
         /\ End(memLog) \in Bounds => x.upds = <<>>
         /\ Written(c) = req[c].bufs
<1> DEFINE x == [pos |-> End(memLog), upds |-> req[c].bufs]
           i == req[c].next
<1>1. cpc[c] = "memWrite" /\ i > Len(req[c].bufs) /\ txns' = Append(txns, x)
  BY DEF MemAppendDone
<1>2. Cuts(memLog, Bounds)
  BY TxnFacts
<1>3. /\ req[c].bufs \in Seq(Update) /\ i \in Nat /\ i >= 1 /\ Len(req[c].bufs) - i + 1 >= 0
      /\ End(memLog) \in Nat /\ memLog.mutable \in Nat
  BY <1>1, Numbers DEF IInv, TypeOK, PositionsInv, AppendReserved, Reserved, Left
<1>4. x \in Txn /\ x.pos = End(memLog) /\ x.upds = req[c].bufs
  BY <1>3 DEF Txn
<1>5. ASSUME End(memLog) \in Bounds PROVE req[c].bufs = <<>>
  <2>1. ~(End(memLog) > memLog.mutable)
    BY <1>2, <1>3, <1>5 DEF Cuts
  <2>2. ~(i > 1)
    BY <1>1, <2>1 DEF TxnsInv, EndShown
  <2>3. Len(req[c].bufs) = 0
    BY <1>1, <1>3, <2>2
  <2> QED
    BY <1>3, <2>3
<1>6. Written(c) = req[c].bufs
  <2>1. i - 1 = Len(req[c].bufs)
    <3>1. Len(req[c].bufs) \in Nat
      BY <1>3
    <3>2. PICK n \in Nat : n = Len(req[c].bufs)
      BY <3>1
    <3>3. i \in Nat /\ i > n /\ n - i + 1 >= 0
      BY <1>1, <1>3, <3>2
    <3> HIDE DEF i
    <3>4. i - 1 = n
      BY ONLY <3>3, n \in Nat
    <3> QED
      BY <3>2, <3>4
  <2>2. SubSeq(req[c].bufs, 1, Len(req[c].bufs)) = req[c].bufs
    BY <1>3
  <2> QED
    BY <2>1, <2>2 DEF Written
<1> QED
  BY <1>1, <1>4, <1>5, <1>6

(* MemAppend returns: the transaction is in the log.                         *)
LEMMA TxnsAppend ==
  ASSUME IInv, LogInv, TxnsInv, NEW c \in Client, MemAppendDone(c), [Next]_vars, ~Crash
  PROVE  TxnsInv' /\ \A e \in Bounds : Disk(txns', e) = Disk(txns, e)
<1> DEFINE x == [pos |-> End(memLog), upds |-> req[c].bufs]
<1>1. /\ cpc[c] = "memWrite" /\ req[c].next > Len(req[c].bufs) /\ memLog' = memLog
      /\ txns' = Append(txns, x) /\ cpc' = [cpc EXCEPT ![c] = "idle"]
  BY DEF MemAppendDone, Return, stvars
<1>2. Good(txns) /\ Cuts(memLog, Bounds) /\ Effect(txns, memLog, Bounds) /\ InOrder(memLog)
  BY TxnFacts, LogOrder
<1>4. /\ x \in Txn /\ x.pos = End(memLog) /\ x.upds = req[c].bufs
      /\ End(memLog) \in Bounds => x.upds = <<>>
      /\ Written(c) = req[c].bufs
  BY AppendFacts
<1>6. Written(c) = req[c].bufs /\ req[c].bufs \in Seq(Update) /\ End(memLog) \in Nat
  BY <1>4, Numbers DEF Txn
<1>7. Ends(txns, memLog, With(txns, req[c].bufs)) /\ Latest(Append(txns, x)) = With(txns, req[c].bufs)
  BY <1>1, <1>2, <1>6, WithSteps, GoodFacts DEF TxnsInv, EndShown
<1>8. \A d \in Client : cpc'[d] # "memWrite"
  <2>1. \A d \in Client : cpc[d] = "memWrite" => d = c
    BY <1>1, OneWriter
  <2> QED
    BY <1>1, <2>1 DEF IInv, TypeOK
<1> HIDE DEF x
<1>9. /\ Effect(txns', memLog, Bounds)
      /\ \A e \in Bounds : Disk(txns', e) = Disk(txns, e)
      /\ txns'[Len(txns')].pos = End(memLog)
      /\ \A now : Ends(txns, memLog, now) => Ends(txns', memLog, now)
  BY <1>1, <1>2, <1>4, EffectAppend
<1>10. Effect(txns', memLog', Bounds')
  <2>1. Bounds' \subseteq Bounds
    BY <1>1, <1>2, BoundsStep DEF Cuts
  <2>2. SameLog(memLog, memLog')
    BY <1>1 DEF SameLog
  <2> QED
    BY <1>1, <1>9, <2>1, <2>2, EffectSame
<1>11. EndShown'
  BY <1>1, <1>7, <1>8, <1>9 DEF EndShown
<1> QED
  BY <1>9, <1>10, <1>11 DEF TxnsInv

(* MemAppend begins to write.                                                *)
LEMMA TxnsBegin ==
  ASSUME IInv, LogInv, TxnsInv, NEW c \in Client, MemAppendStart(c), [Next]_vars, ~Crash
  PROVE  TxnsInv'
<1>1. /\ cpc[c] = "append" /\ Enter(c) /\ UNCHANGED <<memLog, txns, req>>
      /\ cpc' = [cpc EXCEPT ![c] = "memWrite"]
  BY DEF MemAppendStart, stvars, history
<1>2. \A d \in Client : cpc[d] # "memWrite"
  <2> SUFFICES ASSUME NEW d \in Client, cpc[d] = "memWrite" PROVE FALSE
    OBVIOUS
  <2>1. c = d
    BY <1>1, OneWriter DEF Thread
  <2> QED
    BY <1>1, <2>1
<1>3. Good(txns) /\ Cuts(memLog, Bounds) /\ Effect(txns, memLog, Bounds)
  BY TxnFacts
<1>4. Effect(txns', memLog', Bounds')
  <2>1. Bounds' \subseteq Bounds
    BY <1>1, <1>3, BoundsStep DEF Cuts
  <2>2. SameLog(memLog, memLog')
    BY <1>1 DEF SameLog
  <2> QED
    BY <1>1, <1>3, <2>1, <2>2, EffectSame
<1>5. req[c].next = 1 /\ req[c].bufs \in Seq(Update)
  BY <1>1 DEF IInv, TypeOK, PositionsInv, AppendReserved, Reserved
<1>6. Written(c) = <<>>
  <2>1. SubSeq(req[c].bufs, 1, 0) = <<>>
    BY <1>5
  <2> QED
    BY <1>5, <2>1 DEF Written
<1>7. Ends(txns, memLog, With(txns, <<>>))
  BY <1>2, <1>3, WithSteps, GoodFacts DEF TxnsInv, EndShown
<1>8. \A d \in Client : cpc'[d] = "memWrite" => d = c
  BY <1>1, <1>2 DEF IInv, TypeOK
<1>9. Written(c)' = <<>> /\ req'[c].next = 1
  BY <1>1, <1>5, <1>6 DEF Written
<1>10. cpc'[c] = "memWrite"
  BY <1>1 DEF IInv, TypeOK
<1>11. EndShown'
  BY <1>1, <1>7, <1>8, <1>9, <1>10 DEF EndShown
<1> QED
  BY <1>4, <1>11 DEF TxnsInv

(* A crash leaves the effect of the transactions it keeps.                   *)
LEMMA TxnsCrash ==
  ASSUME IInv, SlotsInv, TxnsInv, NEW h1 \in Possible(hdr1), NEW h2 \in Possible(hdr2),
         NEW lb \in CrashDisks(logblk), NEW db, Recover(h1, h2, lb, db)
  PROVE  /\ TxnsInv'
         /\ \A e \in Nat : e <= h1.end => UpTo(txns', e) = UpTo(txns, e)
         /\ \A n \in 1 .. UpTo(txns, h1.end) : DiskOf(txns', n) = DiskOf(txns, n)
<1>1. /\ txns' = SubSeq(txns, 1, UpTo(txns, h1.end)) /\ diskEnd' = h1.end
      /\ lpc' = "start" /\ ipc' = "start" /\ cpc' = [c \in Client |-> "idle"]
  BY DEF Recover, TxnsUpTo, UpTo
<1>2. /\ memLog' \in SlidingType /\ memLog'.start = h2 /\ memLog'.mutable = h1.end
      /\ End(memLog') = h1.end
  BY CrashMemLog
<1>3. Good(txns) /\ Cuts(memLog, Bounds) /\ Effect(txns, memLog, Bounds) /\ memLog \in SlidingType
  BY TxnFacts, Numbers
<1>4. /\ h1.end \in Bounds /\ h2 \in Bounds /\ h2 <= h1.end /\ h1.end \in Nat
      /\ \A p \in h2 .. h1.end - 1 : Get(memLog', p) = Get(memLog, p)
  <2>1. h2 <= diskEnd /\ diskEnd <= h1.end /\ h2 \in Nat /\ h1.end \in Nat /\ diskEnd \in Nat
    BY CrashHeaders, Numbers
  <2>2. h2 <= h1.end /\ h1.end \in Nat
    BY <2>1
  <2>3. h1.end \in Bounds /\ h2 \in Bounds
    BY RecoveredCuts
  <2>4. \A p \in h2 .. h1.end - 1 : Get(memLog', p) = Get(memLog, p)
    BY RecoveredSame
  <2> QED
    BY <2>2, <2>3, <2>4
<1>5. /\ Effect(txns', memLog', {h2, h1.end}) /\ Ends(txns', memLog', Latest(txns'))
      /\ txns'[Len(txns')].pos = h1.end
      /\ \A e \in Nat : e <= h1.end => UpTo(txns', e) = UpTo(txns, e)
      /\ \A n \in 1 .. UpTo(txns, h1.end) : DiskOf(txns', n) = DiskOf(txns, n)
  <2>1. Between(txns, memLog, Bounds, memLog', h2, h1.end)
    BY <1>2, <1>3, <1>4 DEF Between
  <2>2. Kept(txns, SubSeq(txns, 1, UpTo(txns, h1.end)), memLog', h2, h1.end)
    BY <2>1, EffectCrash
  <2>3. Kept(txns, txns', memLog', h2, h1.end)
    BY <1>1, <2>2
  <2> QED
    BY <2>3 DEF Kept
<1>6. Bounds' = {h2, h1.end}
  BY <1>1, <1>2 DEF Bounds, LoggerBusy, InstallerBusy
<1>7. EndShown'
  BY <1>1, <1>2, <1>5 DEF EndShown
<1> QED
  BY <1>5, <1>6, <1>7 DEF TxnsInv

(* No step loses the effect of the transactions.                             *)
LEMMA TxnsStep ==
  ASSUME IInv, IInv', LogInv, SlotsInv, TxnsInv, [Next]_vars
  PROVE  TxnsInv'
<1>1. CASE Crash
  <2>1. PICK h1 \in Possible(hdr1), h2 \in Possible(hdr2), lb \in CrashDisks(logblk),
             db \in CrashDisks(data) : Recover(h1, h2, lb, db)
    BY <1>1 DEF Crash
  <2> QED
    BY <2>1, TxnsCrash
<1>2. CASE ~Crash /\ \E c \in Client : MemWriteOne(c) \/ MemAppendDone(c) \/ MemAppendStart(c)
  BY <1>2, TxnsWrite, TxnsAppend, TxnsBegin
<1>3. CASE ~Crash /\ ~\E c \in Client : MemWriteOne(c) \/ MemAppendDone(c) \/ MemAppendStart(c)
  <2>1. /\ txns' = txns
        /\ \A d \in Client : cpc'[d] = "memWrite" <=> cpc[d] = "memWrite"
        /\ \A d \in Client : cpc[d] = "memWrite" =>
             req'[d].bufs = req[d].bufs /\ req'[d].next = req[d].next
    <3>1. CASE LoggerNext \/ InstallerNext \/ CallShutdown \/ ShutdownNext \/ Wakeup
      BY <3>1, OthersFrame
    <3>2. ASSUME NEW c \in Client, Call(c) \/ ClientNext(c)
          PROVE  /\ txns' = txns
                 /\ \A d \in Client : cpc'[d] = "memWrite" <=> cpc[d] = "memWrite"
                 /\ \A d \in Client : cpc[d] = "memWrite" =>
                      req'[d].bufs = req[d].bufs /\ req'[d].next = req[d].next
      BY <1>3, <3>2, ClientQuiet
    <3>3. CASE UNCHANGED vars
      BY <3>3 DEF vars, history, clivars
    <3> QED
      BY <1>3, <3>1, <3>2, <3>3 DEF Next
  <2>2. Good(txns) /\ Cuts(memLog, Bounds) /\ Effect(txns, memLog, Bounds) /\ InOrder(memLog)
    BY TxnFacts, LogOrder
  <2>3. Bounds' \subseteq Bounds \cup {memLog'.mutable} /\ memLog'.start \in Bounds
    BY <1>3, BoundsStep
  <2>4. CASE SameLog(memLog, memLog') /\ memLog'.mutable = memLog.mutable
    <3>1. Bounds' \subseteq Bounds
      BY <2>2, <2>3, <2>4 DEF Cuts
    <3>2. Effect(txns, memLog', Bounds') /\ \A now : Ends(txns, memLog, now) => Ends(txns, memLog', now)
      BY <2>2, <2>4, <3>1, EffectSame
    <3>3. End(memLog') = End(memLog)
      BY <2>4, SameLogFacts
    <3>4. EndShown'
      BY <2>1, <2>4, <3>2, <3>3, EndsKept DEF TxnsInv
    <3> QED
      BY <2>1, <3>2, <3>4 DEF TxnsInv
  <2>5. CASE (LoggerTake \/ LoggerIdle) /\ memLog' = FlushIfNeeded(memLog)
    <3>1. SameLog(memLog, memLog') /\ memLog'.mutable \in {memLog.mutable, End(memLog)}
      BY <2>5, Numbers, FlushIfNeededSame, FlushIfNeededEffect
    <3>2. ASSUME NEW c \in Client, cpc[c] = "memWrite"
          PROVE  FALSE
      <4>1. Enter(Logger) /\ Logger \in Thread /\ c # Logger
        BY <2>5, ClientAssumption DEF LoggerTake, LoggerIdle, Thread
      <4> QED
        BY <3>2, <4>1, OneWriter
    <3>3. Ends(txns, memLog, Latest(txns)) /\ txns[Len(txns)].pos = End(memLog)
      BY <3>2 DEF TxnsInv, EndShown
    <3>4. Effect(txns, memLog', Bounds') /\ \A now : Ends(txns, memLog, now) => Ends(txns, memLog', now)
      BY <2>2, <2>3, <3>1, <3>3, EffectFlush
    <3>5. End(memLog') = End(memLog)
      BY <3>1, SameLogFacts
    <3>6. EndShown'
      BY <2>1, <3>2, <3>4, <3>5, EndsKept DEF TxnsInv
    <3> QED
      BY <2>1, <3>4, <3>6 DEF TxnsInv
  <2>6. CASE InstallCut
    <3>1. /\ memLog' \in SlidingType /\ memLog'.start = inst.end /\ memLog'.mutable = memLog.mutable
          /\ End(memLog') = End(memLog) /\ InstallerBusy
          /\ \A p \in inst.end .. End(memLog) - 1 : Get(memLog', p) = Get(memLog, p)
      BY <2>6, CutEffect
    <3>2. /\ inst.end \in Nat /\ memLog.start <= inst.end /\ inst.end <= End(memLog)
          /\ memLog.mutable <= End(memLog) /\ memLog \in SlidingType /\ memLog.mutable \in Nat
          /\ End(memLog) \in Nat
      BY <3>1, Numbers
    <3>3. Bounds' \subseteq Bounds /\ inst.end \in Bounds
      BY <2>2, <2>3, <3>1 DEF Cuts
    <3>4. \A e \in Bounds' : e \in Nat /\ inst.end <= e /\ e <= End(memLog)
      <4>1. Cuts(memLog', Bounds')
        BY CutsNext
      <4> QED
        BY <3>1, <3>2, <4>1 DEF Cuts
    <3>5. Effect(txns, memLog', Bounds') /\ \A now : Ends(txns, memLog, now) => Ends(txns, memLog', now)
      BY <2>2, <3>1, <3>2, <3>3, <3>4, EffectCut
    <3>6. EndShown'
      BY <2>1, <3>1, <3>5, EndsKept DEF TxnsInv
    <3> QED
      BY <2>1, <3>5, <3>6 DEF TxnsInv
  <2> QED
    BY <1>3, <2>4, <2>5, <2>6, MemLogSteps
<1> QED
  BY <1>1, <1>2, <1>3

-----------------------------------------------------------------------------
(* The data region                                                           *)

\* the steps of the installer that change what is installed, or how far
Installs == InstallBlock \/ InstallBarrier \/ InstallCut

(* The other steps leave the blocks, or fewer of what they can be.           *)
LEMMA DataKept ==
  ASSUME IInv, [Next]_vars, ~Crash, ~Installs, NEW a \in Addr
  PROVE  /\ Possible(data'[a]) \subseteq Possible(data[a]) /\ data'[a].latest = data[a].latest
         /\ data'[a].latest \in Possible(data'[a])
<1>1. UNCHANGED data \/ Barrier
  <2>1. CASE LoggerNext \/ InstallerNext \/ CallShutdown \/ ShutdownNext \/ Wakeup
    BY <2>1 DEF LoggerNext, LoggerStart, LoggerLoop, LoggerExit, LoggerWaitForSpace, LoggerTake,
       LoggerIdle, LoggerBlock, LoggerBarrier, LoggedBarrier, LoggerHdr, LoggerHdrBarrier, HdrBarrier,
       LoggerLogged, InstallerNext, InstallerStart, InstallerExit, InstallerTake, InstallerIdle,
       Installs, InstallAdvance, InstallAdvanceBarrier,
       CallShutdown, ShutdownNext, ShutdownSleep, ShutdownDone, Wakeup, diskvars
  <2>2. ASSUME NEW c \in Client, Call(c) \/ ClientNext(c)
        PROVE  UNCHANGED data
    BY <2>2, ClientFrame DEF diskvars
  <2>3. CASE UNCHANGED vars
    BY <2>3 DEF vars, diskvars
  <2> QED
    BY <2>1, <2>2, <2>3 DEF Next
<1>2. CASE UNCHANGED data
  BY <1>2 DEF Possible
<1>3. CASE Barrier
  <2>1. data'[a] = FlushBlock(data[a])
    BY <1>3 DEF Barrier, FlushDisk, IInv, TypeOK
  <2> QED
    BY <2>1, Flushed
<1> QED
  BY <1>1, <1>2, <1>3

(* How far the installer is.                                                 *)
LEMMA InstallerStep ==
  ASSUME IInv, [Next]_vars, ~Crash, ~Installs
  PROVE  /\ AllInstalled' <=> AllInstalled
         /\ AllInstalled => inst'.end = inst.end
         /\ ipc' = "install" => \/ ipc = "install" /\ inst' = inst
                                \/ inst'.next = memLog.start
         /\ InstallBound <= InstallBound' /\ InstallBound' \in Nat /\ InstallBound \in Bounds
<1>1. /\ lg.end \in Nat /\ diskEnd \in Nat /\ inst.end \in Nat
      /\ LoggerBusy => diskEnd < lg.end
  BY Numbers
<1>b. /\ InstallBound = IF InstallerBusy THEN inst.end ELSE diskEnd
      /\ InstallBound' = IF InstallerBusy' THEN inst'.end ELSE diskEnd'
      /\ diskEnd \in Bounds /\ (InstallerBusy => inst.end \in Bounds)
  BY DEF InstallBound, Bounds
<1>2. CASE InstallerNext
  <2>1. /\ AllInstalled' <=> AllInstalled
        /\ AllInstalled => inst'.end = inst.end
        /\ ipc' = "install" => inst'.next = memLog.start
        /\ InstallerBusy' => IF InstallerBusy THEN inst'.end = inst.end ELSE inst'.end = diskEnd
        /\ InstallerBusy => InstallerBusy'
        /\ diskEnd' = diskEnd
    BY <1>2 DEF InstallerNext, InstallerStart, InstallerExit, InstallerTake, InstallerIdle,
       Installs, InstallAdvance, InstallAdvanceBarrier, InstallEnd, AllInstalled, InstallerBusy,
       stvars, instvars
  <2>2. InstallBound <= InstallBound' /\ InstallBound' \in Nat /\ InstallBound \in Bounds
    <3>1. CASE InstallerBusy
      <4>1. InstallBound' = inst.end /\ InstallBound = inst.end
        BY <1>b, <2>1, <3>1
      <4> QED
        BY <1>b, <1>1, <3>1, <4>1
    <3>2. CASE ~InstallerBusy
      <4>1. InstallBound' = diskEnd /\ InstallBound = diskEnd
        BY <1>b, <2>1, <3>2
      <4> QED
        BY <1>b, <1>1, <4>1
    <3> QED
      BY <3>1, <3>2
  <2> QED
    BY <2>1, <2>2
<1>3. CASE ~InstallerNext
  <2>1. UNCHANGED <<ipc, inst>> /\ (diskEnd' = diskEnd \/ (LoggerBusy /\ diskEnd' = lg.end))
    <3>1. CASE LoggerNext \/ CallShutdown \/ ShutdownNext \/ Wakeup
      BY <3>1 DEF LoggerNext, LoggerStart, LoggerLoop, LoggerExit, LoggerWaitForSpace, LoggerTake,
         LoggerIdle, LoggerBlock, LoggerBarrier, LoggerHdr, LoggerHdrBarrier, LoggerLogged, LoggedEnd,
         LoggerBusy, CallShutdown, ShutdownNext, ShutdownSleep, ShutdownDone, Wakeup, stvars, instvars
    <3>2. ASSUME NEW c \in Client, Call(c) \/ ClientNext(c)
          PROVE  UNCHANGED <<ipc, inst, diskEnd>>
      BY <3>2, ClientFrame
    <3>3. CASE UNCHANGED vars
      BY <3>3 DEF vars, instvars, stvars
    <3> QED
      BY <1>3, <3>1, <3>2, <3>3 DEF Next
  <2>2. /\ InstallerBusy' <=> InstallerBusy
        /\ AllInstalled' <=> AllInstalled
        /\ inst'.end = inst.end
        /\ ipc' = "install" => ipc = "install" /\ inst' = inst
    BY <2>1 DEF InstallerBusy, AllInstalled
  <2>3. InstallBound <= InstallBound' /\ InstallBound' \in Nat /\ InstallBound \in Bounds
    <3>1. CASE InstallerBusy
      <4>1. InstallBound' = inst.end /\ InstallBound = inst.end
        BY <1>b, <2>2, <3>1
      <4> QED
        BY <1>b, <1>1, <3>1, <4>1
    <3>2. CASE ~InstallerBusy
      <4>1. InstallBound' = diskEnd' /\ InstallBound = diskEnd
        BY <1>b, <2>2, <3>2
      <4>2. diskEnd <= diskEnd' /\ diskEnd' \in Nat
        BY <1>1, <2>1
      <4> QED
        BY <1>b, <4>1, <4>2
    <3> QED
      BY <3>1, <3>2
  <2> QED
    BY <2>2, <2>3
<1> QED
  BY <1>2, <1>3

(* What the transactions left below the cuts stays so.                       *)
LEMMA TxnsGrow ==
  ASSUME IInv, LogInv, TxnsInv, [Next]_vars, ~Crash
  PROVE  /\ Good(txns')
         /\ \A e \in Bounds : Disk(txns', e) = Disk(txns, e)
         /\ \A lo \in Bounds, hi \in Bounds : \A a, v :
              lo <= hi /\ Within(txns, lo, hi, a, v) => Within(txns', lo, hi, a, v)
<1>1. Good(txns) /\ Cuts(memLog, Bounds) /\ Effect(txns, memLog, Bounds) /\ InOrder(memLog)
  BY TxnFacts, LogOrder
<1>2. CASE txns' = txns
  BY <1>1, <1>2
<1>3. ASSUME NEW c \in Client, MemAppendDone(c)
      PROVE  /\ Good(txns')
             /\ \A e \in Bounds : Disk(txns', e) = Disk(txns, e)
             /\ \A lo \in Bounds, hi \in Bounds : \A a, v :
                  lo <= hi /\ Within(txns, lo, hi, a, v) => Within(txns', lo, hi, a, v)
  <2>1. PICK x : x = [pos |-> End(memLog), upds |-> req[c].bufs]
    OBVIOUS
  <2>2. /\ txns' = Append(txns, x) /\ x \in Txn /\ x.pos = End(memLog)
        /\ End(memLog) \in Bounds => x.upds = <<>>
    BY <1>3, <2>1, AppendFacts
  <2>3. Good(Append(txns, x)) /\ \A e \in Bounds : Disk(Append(txns, x), e) = Disk(txns, e)
    BY <1>1, <2>2, EffectAppend
  <2>4. \A lo \in Bounds, hi \in Bounds : \A a, v :
          lo <= hi /\ Within(txns, lo, hi, a, v) => Within(Append(txns, x), lo, hi, a, v)
    BY <1>1, <2>2, WithinAppend
  <2> QED
    BY <2>2, <2>3, <2>4
<1>4. txns' = txns \/ \E c \in Client : MemAppendDone(c)
  <2>1. CASE LoggerNext \/ InstallerNext \/ CallShutdown \/ ShutdownNext \/ Wakeup
    BY <2>1, OthersFrame
  <2>2. ASSUME NEW c \in Client, Call(c) \/ ClientNext(c), ~MemAppendDone(c)
        PROVE  txns' = txns
    BY <2>2 DEF Call, CallMemAppend, CallFlush, CallRead, ClientNext, MemAppendFail, MemAppendFull,
       MemAppendStart, MemWriteOne, FlushStart, FlushSleep, FlushDone, ReadMemHit,
       ReadMemMiss, ReadInstalled, history
  <2>3. CASE UNCHANGED vars
    BY <2>3 DEF vars, history
  <2> QED
    BY <2>1, <2>2, <2>3 DEF Next
<1> QED
  BY <1>2, <1>3, <1>4

(* The log below its read-only bound is what it was, while its start stays.  *)
LEMMA BelowStable ==
  ASSUME IInv, LogInv, [Next]_vars, ~Crash, ~InstallCut, NEW e \in Nat, e <= memLog.mutable
  PROVE  /\ memLog'.start = memLog.start
         /\ \A p \in memLog.start .. e - 1 : Get(memLog', p) = Get(memLog, p)
         /\ \A a : Untouched(memLog', a, e) <=> Untouched(memLog, a, e)
         /\ \A a, p : LastIn(memLog', a, p, e) <=> LastIn(memLog, a, p, e)
<1>1. memLog'.start = memLog.start
  BY StartFrame
<1>2. \A p \in memLog.start .. e - 1 : Get(memLog', p) = Get(memLog, p)
  BY <1>1, GetStable, Numbers
<1> QED
  BY <1>1, <1>2, SameBelow, Numbers

(* Steps that install nothing.                                               *)
LEMMA DataFrame ==
  ASSUME IInv, LogInv, TxnsInv, DataInv, [Next]_vars, ~Crash, ~Installs
  PROVE  DataInv'
<1>1. /\ AllInstalled' <=> AllInstalled
      /\ AllInstalled => inst'.end = inst.end
      /\ ipc' = "install" => \/ ipc = "install" /\ inst' = inst
                             \/ inst'.next = memLog.start
      /\ InstallBound <= InstallBound' /\ InstallBound' \in Nat /\ InstallBound \in Bounds
  BY InstallerStep
<1>2. /\ Good(txns')
      /\ \A e \in Bounds : Disk(txns', e) = Disk(txns, e)
      /\ \A lo \in Bounds, hi \in Bounds : \A a, v :
           lo <= hi /\ Within(txns, lo, hi, a, v) => Within(txns', lo, hi, a, v)
  BY TxnsGrow
<1>3. Cuts(memLog, Bounds) /\ memLog.start \in Nat /\ ~InstallCut
  BY TxnFacts, Numbers DEF Installs
<1>4. /\ memLog'.start = memLog.start /\ memLog.start \in Bounds
      /\ InstallBound \in Nat /\ memLog.start <= InstallBound /\ InstallBound <= memLog.mutable
  BY <1>1, <1>3, StartFrame DEF Cuts
<1>5. ASSUME NEW a \in Addr
      PROVE  /\ Possible(data'[a]) \subseteq Possible(data[a]) /\ data'[a].latest = data[a].latest
             /\ \A v : Possible(data[a]) = {v} => Possible(data'[a]) = {v}
  BY DataKept
<1>6. ASSUME AllInstalled', NEW a \in Addr
      PROVE  Possible(data'[a]) = {Disk(txns', inst'.end)[a]}
  <2>1. inst.end \in Bounds /\ inst'.end = inst.end /\ AllInstalled
    BY <1>1, <1>6 DEF Bounds, AllInstalled, InstallerBusy
  <2>2. Possible(data[a]) = {Disk(txns, inst.end)[a]}
    BY <2>1 DEF DataInv
  <2> QED
    BY <1>2, <1>5, <2>1, <2>2
<1>7. ASSUME ~AllInstalled', NEW a \in Addr, Untouched(memLog', a, InstallBound')
      PROVE  Possible(data'[a]) = {Disk(txns', memLog'.start)[a]}
  <2>1. Untouched(memLog', a, InstallBound)
    <3> SUFFICES ASSUME NEW q \in memLog'.start .. InstallBound - 1
                 PROVE  Get(memLog', q).Addr # a
      BY DEF Untouched
    <3>0. InstallBound <= InstallBound' /\ InstallBound' \in Nat /\ InstallBound \in Nat
      BY <1>1, <1>4
    <3>m. memLog'.start \in Nat
      BY <1>3, <1>4
    <3>1. q \in memLog'.start .. InstallBound' - 1
      <4>1. PICK m, b, n : m = memLog'.start /\ b = InstallBound /\ n = InstallBound'
        OBVIOUS
      <4>2. q \in m .. b - 1 /\ m \in Nat /\ b \in Nat /\ n \in Nat /\ b <= n
        BY <3>0, <3>m, <4>1
      <4>3. q \in m .. n - 1
        BY <4>2
      <4> QED
        BY <4>1, <4>3
    <3> QED
      BY <1>7, <3>1 DEF Untouched
  <2>2. Untouched(memLog, a, InstallBound)
    BY <1>3, <1>4, <2>1, BelowStable
  <2>3. Possible(data[a]) = {Disk(txns, memLog.start)[a]}
    BY <1>1, <1>7, <2>2 DEF DataInv
  <2> QED
    BY <1>2, <1>4, <1>5, <2>3
<1>8. ASSUME ipc' = "install", NEW a \in Addr, NEW p \in memLog'.start .. inst'.next - 1,
             LastIn(memLog', a, p, inst'.next)
      PROVE  data'[a].latest = Get(memLog', p).Block
  <2>1. ipc = "install" /\ inst' = inst
    BY <1>1, <1>3, <1>4, <1>8
  <2>2. inst.next \in Nat /\ inst.next <= memLog.mutable
    <3>1. InstallerBusy
      BY <2>1 DEF InstallerBusy
    <3> QED
      BY <3>1, Numbers
  <2>3. LastIn(memLog, a, p, inst.next) /\ Get(memLog', p) = Get(memLog, p)
    BY <1>3, <1>4, <1>8, <2>1, <2>2, BelowStable
  <2>4. data[a].latest = Get(memLog, p).Block
    BY <1>4, <1>8, <2>1, <2>3 DEF DataInv
  <2> QED
    BY <1>5, <2>3, <2>4
<1>9. ASSUME NEW a \in Addr, NEW v \in Possible(data'[a])
      PROVE  Within(txns', memLog'.start, InstallBound', a, v)
  <2>1. Within(txns, memLog.start, InstallBound, a, v)
    BY <1>5 DEF DataInv
  <2>2. Within(txns', memLog.start, InstallBound, a, v)
    BY <1>1, <1>2, <1>4, <2>1
  <2> QED
    BY <1>1, <1>2, <1>3, <1>4, <2>2, WithinMore
<1> QED
  BY <1>6, <1>7, <1>8, <1>9 DEF DataInv

(* One block installed.                                                      *)
LEMMA DataInstall ==
  ASSUME IInv, TxnsInv, DataInv, InstallBlock
  PROVE  DataInv'
<1> DEFINE n == inst.next
           u == Get(memLog, n)
<1>1. /\ ipc = "install" /\ n < inst.end /\ data' = [data EXCEPT ![u.Addr] = AsyncPut(u.Block, @)]
      /\ inst'.next = n + 1 /\ inst'.end = inst.end
      /\ UNCHANGED <<memLog, txns, ipc, diskEnd>>
  <2>1. inst \in [end : Nat, next : Nat]
    BY DEF IInv, TypeOK
  <2> QED
    BY <2>1 DEF InstallBlock, InstallPos, stvars, history
<1>2. InstallerBusy /\ InstallerBusy' /\ ~AllInstalled /\ ~AllInstalled'
  BY <1>1 DEF InstallerBusy, AllInstalled
<1>3. /\ n \in Nat /\ memLog.start \in Nat /\ inst.end \in Nat /\ memLog.start <= n
      /\ inst.end <= memLog.mutable /\ memLog.mutable \in Nat
  BY <1>2, Numbers
<1>4. u \in Update /\ u.Addr \in Addr /\ u.Block \in Nat
  <2>1. u \in Update
    BY <1>1, <1>3, GetType
  <2> QED
    BY <2>1 DEF Update
<1>5. InstallBound = inst.end /\ InstallBound' = inst.end
  BY <1>1, <1>2 DEF InstallBound
<1>d. data \in [Addr -> AsyncOf(Nat)]
  BY DEF IInv, TypeOK
<1> HIDE DEF u, n
<1>6. ASSUME NEW a \in Addr, a # u.Addr
      PROVE  data'[a] = data[a]
  BY <1>1, <1>6, <1>d
<1>7. data'[u.Addr].latest = u.Block /\ Possible(data'[u.Addr]) = Possible(data[u.Addr]) \cup {u.Block}
  BY <1>1, <1>4, <1>d DEF AsyncPut, Possible
<1>8. ASSUME NEW a \in Addr, Untouched(memLog, a, inst.end)
      PROVE  Possible(data'[a]) = {Disk(txns, memLog.start)[a]}
  <2>1. a # u.Addr
    BY <1>1, <1>3, <1>8 DEF Untouched, u
  <2> QED
    BY <1>2, <1>5, <1>6, <1>8, <2>1 DEF DataInv
<1>9. ASSUME NEW a \in Addr, NEW p \in memLog.start .. n, LastIn(memLog, a, p, n + 1)
      PROVE  data'[a].latest = Get(memLog, p).Block
  <2>1. CASE p = n
    <3>1. a = u.Addr
      BY <1>9, <2>1 DEF LastIn, u
    <3> QED
      BY <1>7, <2>1, <3>1 DEF u
  <2>2. CASE p # n
    <3>1. p \in Nat /\ p < n
      BY <1>3, <2>2
    <3>2. n \in p + 1 .. n + 1 - 1
      BY <1>3, <3>1
    <3>3. a # u.Addr
      BY <1>9, <3>2 DEF LastIn, u
    <3>4. LastIn(memLog, a, p, n) /\ p \in memLog.start .. n - 1
      BY <1>3, <1>9, <3>1 DEF LastIn
    <3>5. data[a].latest = Get(memLog, p).Block
      BY <1>1, <3>4 DEF DataInv, n
    <3> QED
      BY <1>6, <3>3, <3>5
  <2> QED
    BY <2>1, <2>2
<1>10. ASSUME NEW a \in Addr, NEW v \in Possible(data'[a])
       PROVE  Within(txns, memLog.start, inst.end, a, v)
  <2>1. CASE v \in Possible(data[a])
    BY <1>5, <2>1 DEF DataInv
  <2>2. CASE v \notin Possible(data[a])
    <3>1. a = u.Addr /\ v = u.Block
      BY <1>6, <1>7, <1>10, <2>2
    <3>2. Good(txns) /\ inst.end \in Bounds /\ n \in memLog.start .. memLog.mutable - 1
      BY <1>1, <1>2, <1>3, TxnFacts DEF Bounds
    <3>3. PICK k \in DOMAIN txns :
            /\ u.Block = DiskOf(txns, k)[u.Addr]
            /\ txns[k].pos > n
            /\ \A e \in Bounds : e > n => txns[k].pos <= e
      BY <3>2 DEF TxnsInv, Effect, Known, u
    <3>4. PICK l \in 1 .. Len(txns) :
            l = UpTo(txns, memLog.start) /\ \A m \in 1 .. Len(txns) : txns[m].pos <= memLog.start <=> m <= l
      BY <1>3, <3>2, UpToIs
    <3>5. PICK h \in 1 .. Len(txns) :
            h = UpTo(txns, inst.end) /\ \A m \in 1 .. Len(txns) : txns[m].pos <= inst.end <=> m <= h
      BY <1>3, <3>2, UpToIs
    <3>6. k \in 1 .. Len(txns) /\ txns[k].pos \in Nat /\ Len(txns) \in Nat
      BY <3>2, GoodFacts
    <3>7. txns[k].pos <= inst.end /\ ~(txns[k].pos <= memLog.start)
      BY <1>1, <1>3, <3>2, <3>3, <3>6
    <3>8. k \in l .. h
      BY <3>4, <3>5, <3>6, <3>7
    <3> QED
      BY <3>1, <3>3, <3>4, <3>5, <3>8 DEF Within
  <2> QED
    BY <2>1, <2>2
<1>11. inst'.next - 1 = n
  BY <1>1, <1>3
<1> QED
  BY <1>1, <1>2, <1>5, <1>8, <1>9, <1>10, <1>11 DEF DataInv

(* The barrier after the last one.                                           *)
LEMMA DataFlushed ==
  ASSUME IInv, TxnsInv, DataInv, InstallBarrier
  PROVE  DataInv'
<1>1. /\ ipc = "install" /\ ipc' = "advance" /\ inst.next = inst.end /\ Barrier
      /\ UNCHANGED <<memLog, txns, inst, diskEnd>>
  BY DEF InstallBarrier, InstalledBarrier, stvars, history
<1>2. /\ InstallerBusy /\ InstallerBusy' /\ ~AllInstalled /\ AllInstalled'
      /\ InstallBound = inst.end /\ InstallBound' = inst.end
  BY <1>1 DEF InstallerBusy, AllInstalled, InstallBound
<1>3. /\ inst.end \in Nat /\ memLog \in SlidingType /\ inst.end \in Bounds
  BY <1>2, Numbers DEF Bounds
<1>4. Shows(memLog, inst.end, Disk(txns, memLog.start), Disk(txns, inst.end))
  BY <1>3, TxnFacts DEF Effect
<1>5. ASSUME NEW a \in Addr
      PROVE  /\ Possible(data'[a]) = {Disk(txns, inst.end)[a]}
             /\ Possible(data'[a]) \subseteq Possible(data[a])
  <2>1. data'[a] = FlushBlock(data[a])
    BY <1>1 DEF Barrier, FlushDisk, IInv, TypeOK
  <2>2. Possible(data'[a]) = {data[a].latest} /\ data[a].latest \in Possible(data[a])
    BY <2>1, Flushed
  <2>3. CASE Untouched(memLog, a, inst.end)
    <3>1. Possible(data[a]) = {Disk(txns, memLog.start)[a]}
      BY <1>2, <2>3 DEF DataInv
    <3>2. Disk(txns, inst.end)[a] = Disk(txns, memLog.start)[a]
      BY <1>4, <2>3 DEF Shows
    <3> QED
      BY <2>2, <3>1, <3>2
  <2>4. CASE ~Untouched(memLog, a, inst.end)
    <3>1. PICK p \in memLog.start .. inst.end - 1 : LastIn(memLog, a, p, inst.end)
      BY <1>3, <2>4, LastExists
    <3>2. data[a].latest = Get(memLog, p).Block
      BY <1>1, <3>1 DEF DataInv
    <3>3. Get(memLog, p).Block = Disk(txns, inst.end)[a]
      BY <1>4, <3>1 DEF Shows
    <3> QED
      BY <2>2, <3>2, <3>3
  <2> QED
    BY <2>3, <2>4
<1>6. ASSUME NEW a \in Addr, NEW v \in Possible(data'[a])
      PROVE  Within(txns', memLog'.start, InstallBound', a, v)
  <2>1. v \in Possible(data[a])
    BY <1>5
  <2>2. Within(txns, memLog.start, InstallBound, a, v)
    BY <2>1 DEF DataInv
  <2> QED
    BY <1>1, <1>2, <2>2
<1>7. ipc' # "install"
  BY <1>1
<1>8. AllInstalled' => \A a \in Addr : Possible(data'[a]) = {Disk(txns', inst'.end)[a]}
  BY <1>1, <1>5
<1> QED
  BY <1>2, <1>6, <1>7, <1>8 DEF DataInv

(* What is installed is cut off.                                             *)
LEMMA DataCut ==
  ASSUME IInv, LogInv, TxnsInv, DataInv, InstallCut
  PROVE  DataInv'
<1>1. /\ memLog'.start = inst.end /\ InstallerBusy /\ ipc = "installed" /\ ipc' = "loop"
      /\ UNCHANGED <<txns, data, diskEnd>>
  BY CutEffect DEF InstallCut, history, diskvars
<1>2. AllInstalled /\ ~AllInstalled' /\ InstallBound' = diskEnd
  BY <1>1 DEF AllInstalled, InstallBound, InstallerBusy
<1>3. inst.end \in Nat /\ diskEnd \in Nat /\ inst.end <= diskEnd /\ Good(txns)
  BY <1>1, Numbers, TxnFacts
<1>4. \A a \in Addr : Possible(data[a]) = {Disk(txns, inst.end)[a]}
  BY <1>2 DEF DataInv
<1>5. ASSUME NEW a \in Addr, NEW v \in Possible(data'[a])
      PROVE  Within(txns', memLog'.start, InstallBound', a, v)
  <2>1. v = Disk(txns, inst.end)[a]
    BY <1>1, <1>4
  <2>2. Within(txns, inst.end, diskEnd, a, v)
    BY <1>3, <2>1, WithinMore
  <2> QED
    BY <1>1, <1>2, <2>2
<1> QED
  BY <1>1, <1>2, <1>4, <1>5 DEF DataInv

(* What a crash may find in the data region: with the log from h2 on, the    *)
(* disk below h1.end.                                                        *)
LEMMA CrashData ==
  ASSUME IInv, TxnsInv, DataInv, NEW h1 \in Possible(hdr1), NEW h2 \in Possible(hdr2),
         NEW a \in Addr, NEW v \in Possible(data[a])
  PROVE  /\ (\A p \in h2 .. h1.end - 1 : Get(memLog, p).Addr # a) => v = Disk(txns, h2)[a]
         /\ Within(txns, h2, h1.end, a, v)
<1>1. /\ memLog.start <= h2 /\ h2 <= diskEnd /\ diskEnd <= h1.end
      /\ h2 \in Nat /\ h1.end \in Nat /\ memLog.start \in Nat /\ diskEnd \in Nat
      /\ inst.end \in Nat /\ (InstallerBusy => memLog.start < inst.end /\ inst.end <= diskEnd)
  <2>1. memLog.start <= h2 /\ h2 <= diskEnd /\ diskEnd <= h1.end /\ h2 \in Nat /\ h1.end \in Nat
    BY CrashHeaders
  <2> QED
    BY <2>1, Numbers
<1>2. Good(txns) /\ Effect(txns, memLog, Bounds)
  BY TxnFacts
<1>3. InstallBound \in Nat /\ memLog.start <= InstallBound /\ InstallBound <= h1.end
  <2>1. CASE InstallerBusy
    BY <1>1, <2>1 DEF InstallBound
  <2>2. CASE ~InstallerBusy
    BY <1>1, <2>2 DEF InstallBound
  <2> QED
    BY <2>1, <2>2
<1>4. CASE AllInstalled
  <2>1. InstallerBusy
    BY <1>4 DEF AllInstalled, InstallerBusy
  <2>2. v = Disk(txns, inst.end)[a]
    BY <1>4 DEF DataInv
  <2>3. h2 \in {memLog.start, inst.end}
    BY <1>4 DEF AllInstalled, IInv, DiskInv, Hdr2Agrees, Possible
  <2>4. CASE h2 = inst.end
    <3>1. Within(txns, inst.end, h1.end, a, v)
      BY <1>1, <1>2, <2>1, <2>2, WithinMore
    <3> QED
      BY <2>2, <2>4, <3>1
  <2>5. CASE h2 = memLog.start
    <3>1. InstallBound = inst.end
      BY <2>1 DEF InstallBound
    <3>2. Within(txns, memLog.start, inst.end, a, v)
      BY <3>1 DEF DataInv
    <3>3. Within(txns, memLog.start, h1.end, a, v)
      BY <1>1, <1>2, <2>1, <3>2, WithinMore
    <3>4. Shows(memLog, inst.end, Disk(txns, memLog.start), Disk(txns, inst.end))
      BY <1>2, <2>1 DEF Effect, Bounds
    <3>5. ASSUME \A p \in h2 .. h1.end - 1 : Get(memLog, p).Addr # a
          PROVE  v = Disk(txns, h2)[a]
      <4>1. \A p \in memLog.start .. inst.end - 1 : p \in h2 .. h1.end - 1
        BY <1>1, <2>1, <2>5
      <4>2. Untouched(memLog, a, inst.end)
        BY <3>5, <4>1 DEF Untouched
      <4> QED
        BY <2>2, <2>5, <3>4, <4>2 DEF Shows
    <3> QED
      BY <2>5, <3>3, <3>5
  <2> QED
    BY <2>3, <2>4, <2>5
<1>5. CASE ~AllInstalled
  <2>1. h2 = memLog.start
    BY <1>5 DEF AllInstalled, IInv, DiskInv, Hdr2Agrees, Possible
  <2>2. Within(txns, memLog.start, InstallBound, a, v)
    BY DEF DataInv
  <2>3. Within(txns, memLog.start, h1.end, a, v)
    BY <1>1, <1>2, <1>3, <2>2, WithinMore
  <2>4. ASSUME \A p \in h2 .. h1.end - 1 : Get(memLog, p).Addr # a
        PROVE  v = Disk(txns, h2)[a]
    <3>1. \A p \in memLog.start .. InstallBound - 1 : p \in h2 .. h1.end - 1
      BY <1>1, <1>3, <2>1
    <3>2. Untouched(memLog, a, InstallBound)
      BY <2>4, <3>1 DEF Untouched
    <3> QED
      BY <1>5, <2>1, <3>2 DEF DataInv
  <2> QED
    BY <2>1, <2>3, <2>4
<1> QED
  BY <1>4, <1>5

(* So it is after the crash.                                                 *)
LEMMA DataCrash ==
  ASSUME IInv, SlotsInv, TxnsInv, DataInv, NEW h1 \in Possible(hdr1), NEW h2 \in Possible(hdr2),
         NEW lb \in CrashDisks(logblk), NEW db \in CrashDisks(data), Recover(h1, h2, lb, db)
  PROVE  DataInv'
<1>1. /\ diskEnd' = h1.end /\ ipc' = "start" /\ data' = SyncDisk(db)
  BY DEF Recover
<1>2. ~AllInstalled' /\ InstallBound' = h1.end /\ memLog'.start = h2
  BY <1>1, CrashMemLog DEF AllInstalled, InstallBound, InstallerBusy
<1>3. h2 \in Nat /\ h1.end \in Nat /\ h2 <= h1.end
  <2>1. h2 \in Nat /\ h1.end \in Nat /\ h2 <= diskEnd /\ diskEnd <= h1.end /\ diskEnd \in Nat
    BY CrashHeaders, Numbers
  <2> QED
    BY <2>1
<1>4. ASSUME NEW a \in Addr
      PROVE  db[a] \in Possible(data[a]) /\ Possible(data'[a]) = {db[a]}
  <2>1. data \in [Addr -> AsyncOf(Nat)]
    BY DEF IInv, TypeOK
  <2>2. DOMAIN db = Addr /\ db[a] \in Possible(data[a])
    BY <2>1 DEF CrashDisks
  <2>3. data'[a] = Sync(db[a])
    BY <1>1, <2>2 DEF SyncDisk
  <2> QED
    BY <2>2, <2>3 DEF Sync, Possible
<1>5. /\ \A e \in Nat : e <= h1.end => UpTo(txns', e) = UpTo(txns, e)
      /\ \A n \in 1 .. UpTo(txns, h1.end) : DiskOf(txns', n) = DiskOf(txns, n)
  BY TxnsCrash
<1>6. PICK l \in Nat : l = UpTo(txns, h2) /\ l >= 1 /\ UpTo(txns', h2) = l
  <2>1. UpTo(txns, h2) \in 1 .. Len(txns)
    BY <1>3, TxnFacts, UpToIs
  <2>2. UpTo(txns, h2) \in Nat /\ UpTo(txns, h2) >= 1
    BY <2>1, TxnFacts, GoodFacts
  <2> QED
    BY <1>3, <1>5, <2>2
<1>7. PICK k \in Nat : k = UpTo(txns, h1.end) /\ l <= k /\ UpTo(txns', h1.end) = k
  <2>1. UpTo(txns, h1.end) \in 1 .. Len(txns)
    BY <1>3, TxnFacts, UpToIs
  <2>2. UpTo(txns, h1.end) \in Nat
    BY <2>1, TxnFacts, GoodFacts
  <2>3. l <= UpTo(txns, h1.end)
    BY <1>3, <1>6, TxnFacts, UpToMono
  <2> QED
    BY <1>3, <1>5, <2>2, <2>3
<1>8. \A n \in l .. k : n \in 1 .. k /\ DiskOf(txns', n) = DiskOf(txns, n)
  BY <1>5, <1>6, <1>7
<1>9. l \in l .. k
  BY <1>6, <1>7
<1>10. Disk(txns', h2) = Disk(txns, h2)
  BY <1>6, <1>8, <1>9 DEF Disk
<1>11. ASSUME NEW a \in Addr, Untouched(memLog', a, h1.end)
       PROVE  Possible(data'[a]) = {Disk(txns', h2)[a]}
  <2>1. \A p \in h2 .. h1.end - 1 : Get(memLog', p) = Get(memLog, p)
    BY RecoveredSame
  <2>2. \A p \in h2 .. h1.end - 1 : Get(memLog, p).Addr # a
    BY <1>2, <1>11, <2>1 DEF Untouched
  <2>3. db[a] = Disk(txns, h2)[a]
    BY <1>4, <2>2, CrashData
  <2> QED
    BY <1>4, <1>10, <2>3
<1>12. ASSUME NEW a \in Addr, NEW v \in Possible(data'[a])
       PROVE  Within(txns', h2, h1.end, a, v)
  <2>1. Within(txns, h2, h1.end, a, v)
    BY <1>4, CrashData
  <2>2. PICK n \in l .. k : v = DiskOf(txns, n)[a]
    BY <1>6, <1>7, <2>1 DEF Within
  <2> QED
    BY <1>6, <1>7, <1>8, <2>2 DEF Within
<1> QED
  BY <1>1, <1>2, <1>11, <1>12 DEF DataInv

(* No step installs what is not in the log.                                  *)
LEMMA DataStep ==
  ASSUME IInv, LogInv, SlotsInv, TxnsInv, DataInv, [Next]_vars
  PROVE  DataInv'
<1>1. CASE Crash
  <2>1. PICK h1 \in Possible(hdr1), h2 \in Possible(hdr2), lb \in CrashDisks(logblk),
             db \in CrashDisks(data) : Recover(h1, h2, lb, db)
    BY <1>1 DEF Crash
  <2> QED
    BY <2>1, DataCrash
<1> QED
  BY <1>1, DataFrame, DataInstall, DataFlushed, DataCut DEF Installs

-----------------------------------------------------------------------------
(* Readers                                                                   *)

(* Where nobody is writing and the log has no update of a, the data region   *)
(* has the last one.                                                         *)
LEMMA MissIsCurrent ==
  ASSUME IInv, LogInv, TxnsInv, DataInv, NEW a \in Addr,
         \A c \in Client : cpc[c] # "memWrite", memLog.addrPos[a] = NoPos
  PROVE  /\ Untouched(memLog, a, End(memLog))
         /\ Possible(data[a]) = {Current(a)} /\ data[a].latest = Current(a)
<1>1. Untouched(memLog, a, End(memLog))
  BY DEF LogInv, Finds
<1>2. Ends(txns, memLog, Latest(txns))
  BY DEF TxnsInv, EndShown
<1>3. Current(a) = Disk(txns, memLog.start)[a]
  BY <1>1, <1>2 DEF Ends, Shows, Latest, Current
<1>4. /\ memLog.start \in Nat /\ End(memLog) \in Nat /\ diskEnd \in Nat /\ inst.end \in Nat
      /\ diskEnd <= End(memLog) /\ (InstallerBusy => inst.end <= End(memLog))
  BY Numbers
<1>5. ASSUME NEW e \in Nat, e <= End(memLog)
      PROVE  Untouched(memLog, a, e)
  <2>1. \A q \in memLog.start .. e - 1 : q \in memLog.start .. End(memLog) - 1
    BY <1>4, <1>5
  <2> QED
    BY <1>1, <2>1 DEF Untouched
<1>6. CASE AllInstalled
  <2>1. InstallerBusy
    BY <1>6 DEF AllInstalled, InstallerBusy
  <2>2. Shows(memLog, inst.end, Disk(txns, memLog.start), Disk(txns, inst.end))
    BY <2>1, TxnFacts DEF Effect, Bounds
  <2>3. Disk(txns, inst.end)[a] = Disk(txns, memLog.start)[a]
    BY <1>4, <1>5, <2>1, <2>2 DEF Shows
  <2>4. Possible(data[a]) = {Current(a)}
    BY <1>3, <1>6, <2>3 DEF DataInv
  <2> QED
    BY <1>1, <2>4, Flushed
<1>7. CASE ~AllInstalled
  <2>1. InstallBound \in Nat /\ InstallBound <= End(memLog)
    BY <1>4 DEF InstallBound
  <2>2. Possible(data[a]) = {Current(a)}
    BY <1>3, <1>5, <1>7, <2>1 DEF DataInv
  <2> QED
    BY <1>1, <2>2, Flushed
<1> QED
  BY <1>6, <1>7

(* A reader goes on as it was, and sees what is appended meanwhile.          *)
LEMMA ReaderStep ==
  ASSUME IInv, [Next]_vars, ~Crash, NEW c \in Client, cpc'[c] = "readInstalled", ~ReadMemMiss(c)
  PROVE  /\ cpc[c] = "readInstalled" /\ req'[c] = req[c] /\ seen[c] \subseteq seen'[c]
         /\ txns' = txns \/ LS!Value(txns', req[c].addr) \in seen'[c]
<1>t. cpc \in [Client -> ClientPc] /\ seen \in [Client -> SUBSET Nat] /\ TypeOK
  BY DEF IInv, TypeOK
<1>1. CASE LoggerNext \/ InstallerNext \/ CallShutdown \/ ShutdownNext \/ Wakeup
  BY <1>1, OthersFrame
<1>2. ASSUME NEW d \in Client, Call(d) \/ ClientNext(d)
      PROVE  /\ cpc[c] = "readInstalled" /\ req'[c] = req[c] /\ seen[c] \subseteq seen'[c]
             /\ txns' = txns \/ LS!Value(txns', req[c].addr) \in seen'[c]
  <2>1. d # c
    <3> SUFFICES ASSUME d = c PROVE FALSE
      OBVIOUS
    <3>1. CASE Call(c)
      BY <1>t, <3>1 DEF Call, CallMemAppend, CallFlush, CallRead
    <3>2. CASE MemAppendFail(c) \/ MemAppendDone(c) \/ FlushDone(c) \/ ReadMemHit(c) \/ ReadInstalled(c)
      BY <1>t, <3>2 DEF MemAppendFail, MemAppendDone, FlushDone, ReadMemHit, ReadInstalled, Return
    <3>3. CASE MemAppendFull(c) \/ MemAppendStart(c) \/ MemWriteOne(c) \/ FlushStart(c) \/ FlushSleep(c)
      BY <1>t, <3>3 DEF MemAppendFull, MemAppendStart, MemWriteOne, FlushStart, FlushSleep, clivars
    <3> QED
      BY <1>2, <3>1, <3>2, <3>3 DEF ClientNext
  <2>2. cpc'[c] = cpc[c] /\ req'[c] = req[c]
    BY <1>t, <1>2, <2>1, ClientLocals
  <2>3. CASE MemAppendDone(d)
    BY <2>2, <2>3 DEF MemAppendDone
  <2>4. CASE ~MemAppendDone(d)
    <3>1. txns' = txns
      BY <1>2, <2>4 DEF Call, CallMemAppend, CallFlush, CallRead, ClientNext, MemAppendFail,
         MemAppendFull, MemAppendStart, MemWriteOne, FlushStart, FlushSleep, FlushDone, ReadMemHit,
         ReadMemMiss, ReadInstalled, history
    <3>2. seen' = seen \/ \E v : seen' = [seen EXCEPT ![d] = v]
      BY <1>2, <2>4 DEF Call, CallMemAppend, CallFlush, CallRead, ClientNext, MemAppendFail,
         MemAppendFull, MemAppendStart, MemWriteOne, FlushStart, FlushSleep, FlushDone, ReadMemHit,
         ReadMemMiss, ReadInstalled, history
    <3>3. seen'[c] = seen[c]
      BY <1>t, <2>1, <3>2
    <3> QED
      BY <2>2, <3>1, <3>3
  <2> QED
    BY <2>3, <2>4
<1>3. CASE UNCHANGED vars
  BY <1>3 DEF vars, clivars, history
<1> QED
  BY <1>1, <1>2, <1>3 DEF Next

(* The address a reader asks for is one of the data region.                  *)
LEMMA ReaderAddr ==
  ASSUME IInv, SeenInv, [Next]_vars, NEW c \in Client, cpc'[c] \in {"read", "readInstalled"}
  PROVE  req'[c].addr \in Addr
<1>t. /\ cpc \in [Client -> ClientPc] /\ TypeOK
      /\ req \in [Client -> [bufs : Seq(Update), next : Nat, pos : Nat, addr : Addr \cup {NoAddr}]]
  BY DEF IInv, TypeOK
<1>0. CASE cpc[c] \in {"read", "readInstalled"} /\ req'[c] = req[c]
  BY <1>0 DEF SeenInv
<1>1. CASE LoggerNext \/ InstallerNext \/ CallShutdown \/ ShutdownNext \/ Wakeup
  BY <1>0, <1>1, OthersFrame
<1>2. ASSUME NEW d \in Client, Call(d) \/ ClientNext(d), d # c
      PROVE  req'[c].addr \in Addr
  <2>1. cpc'[c] = cpc[c] /\ req'[c] = req[c]
    BY <1>t, <1>2, ClientLocals
  <2> QED
    BY <1>0, <2>1
<1>3. CASE Call(c) \/ ClientNext(c)
  <2>1. CASE CallRead(c)
    <3>1. PICK a \in Addr : req' = [req EXCEPT ![c].addr = a]
      BY <2>1 DEF CallRead
    <3>2. req'[c].addr = a
      BY <1>t, <3>1
    <3> QED
      BY <3>2
  <2>2. CASE CallMemAppend(c) \/ CallFlush(c)
    BY <1>t, <2>2 DEF CallMemAppend, CallFlush
  <2>3. CASE MemAppendFail(c) \/ MemAppendDone(c) \/ FlushDone(c) \/ ReadMemHit(c) \/ ReadInstalled(c)
    BY <1>t, <2>3 DEF MemAppendFail, MemAppendDone, FlushDone, ReadMemHit, ReadInstalled, Return
  <2>4. CASE MemAppendFull(c) \/ MemAppendStart(c) \/ MemWriteOne(c) \/ FlushStart(c) \/ FlushSleep(c)
    BY <1>t, <2>4 DEF MemAppendFull, MemAppendStart, MemWriteOne, FlushStart, FlushSleep, clivars
  <2>5. CASE ReadMemMiss(c)
    BY <1>0, <2>5 DEF ReadMemMiss
  <2> QED
    BY <1>3, <2>1, <2>2, <2>3, <2>4, <2>5 DEF Call, ClientNext
<1>4. CASE Crash
  BY <1>4 DEF Crash, Recover
<1>5. CASE UNCHANGED vars
  BY <1>0, <1>5 DEF vars, clivars
<1> QED
  BY <1>1, <1>2, <1>3, <1>4, <1>5 DEF Next

(* What becomes read-only is the last update of its address.                 *)
LEMMA NewReadOnly ==
  ASSUME IInv, LogInv, TxnsInv, [Next]_vars, ~Crash, NEW p \in memLog'.start .. memLog'.mutable - 1,
         ~(p < memLog.mutable), Get(memLog', p).Addr \in Addr
  PROVE  Get(memLog', p).Block = Current(Get(memLog', p).Addr)
<1>1. /\ memLog.mutable \in Nat /\ memLog.start \in Nat /\ End(memLog) \in Nat
      /\ memLog.start <= memLog.mutable
  BY Numbers
<1>2. (LoggerTake \/ LoggerIdle) /\ memLog' = FlushIfNeeded(memLog)
  <2>1. memLog'.mutable # memLog.mutable
    BY <1>1
  <2>2. ~InstallCut
    BY <2>1, CutEffect
  <2>3. ~\E c \in Client : MemWriteOne(c)
    BY <2>1, WriteEffect DEF WritesAt
  <2> QED
    BY <2>1, <2>2, <2>3, MemLogSteps
<1>3. SameLog(memLog, memLog') /\ memLog'.mutable \in {memLog.mutable, End(memLog)}
  BY <1>2, Numbers, FlushIfNeededSame, FlushIfNeededEffect
<1>4. ASSUME NEW c \in Client, cpc[c] = "memWrite"
      PROVE  FALSE
  <2>1. Enter(Logger) /\ Logger \in Thread /\ c # Logger
    BY <1>2, ClientAssumption DEF LoggerTake, LoggerIdle, Thread
  <2> QED
    BY <1>4, <2>1, OneWriter
<1>5. Ends(txns, memLog, Latest(txns))
  BY <1>4 DEF TxnsInv, EndShown
<1>6. p \in memLog.mutable .. End(memLog) - 1 /\ p \in memLog.start .. End(memLog) - 1 /\ p \in Nat
  <2>1. memLog'.start = memLog.start
    BY <1>3 DEF SameLog
  <2>2. memLog'.mutable = End(memLog)
    BY <1>1, <1>3
  <2> QED
    BY <1>1, <2>1, <2>2
<1>7. PICK a \in Addr : a = Get(memLog, p).Addr /\ Get(memLog', p) = Get(memLog, p)
  BY <1>3, SameLogFacts
<1>8. LastIn(memLog, a, p, End(memLog))
  <2>1. ASSUME NEW q \in p + 1 .. End(memLog) - 1, Get(memLog, q).Addr = a
        PROVE  FALSE
    <3>1. q \in memLog.mutable .. End(memLog) - 1 /\ q # p
      BY <1>1, <1>6
    <3> QED
      BY <1>6, <1>7, <2>1, <3>1 DEF LogInv, MutableUnique
  <2> QED
    BY <1>6, <1>7, <2>1 DEF LastIn
<1>9. Get(memLog, p).Block = Latest(txns)[a]
  BY <1>5, <1>6, <1>8 DEF Ends, Shows
<1> QED
  BY <1>7, <1>9 DEF Latest, Current

(* The latest block at an address changes when one is installed.             *)
LEMMA DataLatest ==
  ASSUME IInv, [Next]_vars, ~Crash, NEW a \in Addr
  PROVE  \/ data'[a].latest = data[a].latest
         \/ \E p \in memLog.start .. memLog.mutable - 1 :
              Get(memLog, p).Addr = a /\ data'[a].latest = Get(memLog, p).Block
<1>1. CASE InstallBlock
  <2> DEFINE n == inst.next
             u == Get(memLog, n)
  <2>1. n < inst.end /\ InstallerBusy /\ data' = [data EXCEPT ![u.Addr] = AsyncPut(u.Block, @)]
    BY <1>1 DEF InstallBlock, InstallPos, InstallerBusy
  <2>2. n \in memLog.start .. memLog.mutable - 1
    BY <2>1, Numbers
  <2>3. data \in [Addr -> AsyncOf(Nat)]
    BY DEF IInv, TypeOK
  <2> HIDE DEF u, n
  <2>4. data'[a] = IF a = u.Addr THEN AsyncPut(u.Block, data[a]) ELSE data[a]
    BY <2>1, <2>3
  <2>5. AsyncPut(u.Block, data[a]).latest = u.Block
    BY DEF AsyncPut
  <2> QED
    BY <2>2, <2>4, <2>5 DEF u
<1>2. CASE InstallBarrier
  <2>1. data'[a] = FlushBlock(data[a])
    BY <1>2 DEF InstallBarrier, InstalledBarrier, Barrier, FlushDisk, IInv, TypeOK
  <2> QED
    BY <2>1, Flushed
<1>3. CASE InstallCut
  BY <1>3 DEF InstallCut, diskvars
<1>4. CASE ~Installs
  BY <1>4, DataKept
<1> QED
  BY <1>1, <1>2, <1>3, <1>4 DEF Installs

(* No step lets a reader find what it has not seen.                          *)
LEMMA SeenStep ==
  ASSUME IInv, LogInv, TxnsInv, DataInv, SeenInv, [Next]_vars
  PROVE  SeenInv'
<1>1. CASE Crash
  <2>1. \A c \in Client : cpc'[c] = "idle"
    BY <1>1 DEF Crash, Recover
  <2> QED
    BY <2>1 DEF SeenInv
<1>2. CASE ~Crash
  <2> SUFFICES ASSUME NEW c \in Client, cpc'[c] = "readInstalled",
                      NEW a \in Addr, a = req'[c].addr
               PROVE  /\ {data'[a].latest, Current(a)'} \subseteq seen'[c]
                      /\ \A p \in memLog'.start .. memLog'.mutable - 1 :
                           Get(memLog', p).Addr = a => Get(memLog', p).Block \in seen'[c]
    BY ReaderAddr DEF SeenInv, ReaderSaw, Current
  <2>1. a = req'[c].addr
    OBVIOUS
  <2>m. /\ memLog.mutable \in Nat /\ memLog.start \in Nat /\ End(memLog) \in Nat
        /\ memLog.mutable <= End(memLog)
    BY Numbers
  <2>2. CASE ReadMemMiss(c)
    <3>1. /\ UNCHANGED <<memLog, data, txns, req>> /\ memLog.addrPos[a] = NoPos
          /\ seen' = [seen EXCEPT ![c] = {Current(a)}]
      BY <2>1, <2>2 DEF ReadMemMiss, stvars, diskvars
    <3>2. seen'[c] = {Current(a)}
      BY <3>1 DEF IInv, TypeOK
    <3>3. ASSUME NEW d \in Client, cpc[d] = "memWrite"
          PROVE  FALSE
      <4>1. Enter(c) /\ c \in Thread /\ cpc[c] = "read"
        BY <2>2 DEF ReadMemMiss, Thread
      <4> QED
        BY <3>3, <4>1, OneWriter
    <3>4. Untouched(memLog, a, End(memLog)) /\ data[a].latest = Current(a)
      BY <3>1, <3>3, MissIsCurrent
    <3>5. \A p \in memLog.start .. memLog.mutable - 1 : Get(memLog, p).Addr # a
      BY <2>m, <3>4 DEF Untouched
    <3>6. Current(a)' = Current(a)
      BY <3>1 DEF Current
    <3> QED
      BY <2>1, <3>1, <3>2, <3>4, <3>5, <3>6 DEF ReaderSaw
  <2>3. CASE ~ReadMemMiss(c)
    <3>1. /\ cpc[c] = "readInstalled" /\ req'[c] = req[c] /\ seen[c] \subseteq seen'[c]
          /\ txns' = txns \/ LS!Value(txns', req[c].addr) \in seen'[c]
      BY <1>2, <2>3, ReaderStep
    <3>2. ReaderSaw(c, a)
      BY <2>1, <3>1 DEF SeenInv
    <3>3. Current(a)' \in seen'[c]
      BY <2>1, <3>1, <3>2 DEF ReaderSaw, Current
    <3>4. data'[a].latest \in seen'[c]
      BY <1>2, <3>1, <3>2, DataLatest DEF ReaderSaw
    <3>5. ASSUME NEW p \in memLog'.start .. memLog'.mutable - 1, Get(memLog', p).Addr = a
          PROVE  Get(memLog', p).Block \in seen'[c]
      <4>1. CASE p < memLog.mutable
        <5>0. memLog.start <= memLog'.start /\ memLog'.start \in Nat
          <6>1. memLog'.start \in Bounds
            BY <1>2, BoundsStep
          <6> QED
            BY <1>2, <6>1, GetStable, TxnFacts DEF Cuts
        <5>1. p \in memLog'.start .. memLog.mutable - 1 /\ p \in memLog.start .. memLog.mutable - 1
          BY <2>m, <4>1, <5>0
        <5>2. Get(memLog', p) = Get(memLog, p)
          BY <1>2, <5>1, GetStable
        <5> QED
          BY <3>1, <3>2, <3>5, <5>1, <5>2 DEF ReaderSaw
      <4>2. CASE ~(p < memLog.mutable)
        <5>1. Get(memLog', p).Block = Current(a)
          BY <1>2, <3>5, <4>2, NewReadOnly
        <5> QED
          BY <3>1, <3>2, <5>1 DEF ReaderSaw
      <4> QED
        BY <4>1, <4>2
    <3> QED
      BY <2>1, <3>3, <3>4, <3>5 DEF ReaderSaw
  <2> QED
    BY <2>2, <2>3
<1> QED
  BY <1>1, <1>2

-----------------------------------------------------------------------------
(* The invariant                                                             *)

(* A cleared disk, and the log MkLog makes of it, satisfy it.                *)
LEMMA InitContents == Init => DInv
<1> SUFFICES ASSUME Init PROVE DInv
  OBVIOUS
<1>i. IInv
  BY InitInv
<1>1. /\ memLog \in SlidingType /\ memLog.start = 0 /\ memLog.mutable = 0 /\ End(memLog) = 0
      /\ \A a \in Addr : memLog.addrPos[a] = LastPos(memLog.log, memLog.start, a)
  <2>0. <<>> \in Seq(Update) /\ Len(<<>>) = 0
    OBVIOUS
  <2>1. PICK l \in Seq(Update) : l = <<>> /\ Len(l) = 0
    BY <2>0
  <2>2. memLog = MkSliding(l, 0)
    BY <2>1 DEF Init
  <2>3. /\ memLog \in SlidingType /\ memLog.start = 0 /\ memLog.mutable = 0 + Len(l)
        /\ End(memLog) = 0 + Len(l)
    BY <2>2, MkSlidingType
  <2>4. \A a \in Addr : memLog.addrPos[a] = LastPos(memLog.log, memLog.start, a)
    BY <2>2 DEF MkSliding
  <2> QED
    BY <2>1, <2>3, <2>4
<1>2. LogInv
  BY <1>1, FindsLastPos DEF LogInv, MutableUnique
<1>3. /\ diskEnd = 0 /\ lpc = "start" /\ ipc = "start" /\ \A c \in Client : cpc[c] = "idle"
      /\ \A a \in Addr : Possible(data[a]) = {0}
  BY DEF Init, Possible, Sync, Block0
<1>4. SlotsInv
  BY <1>1, <1>3 DEF SlotsInv
<1>5. /\ txns \in Seq(Txn) /\ Len(txns) = 1 /\ DOMAIN txns = {1}
      /\ txns[1].pos = 0 /\ txns[1].upds = <<>>
  BY <1>i DEF Init, IInv, TypeOK
<1>6. Good(txns)
  BY <1>5 DEF Good, Ordered
<1>7. UpTo(txns, 0) = 1
  <2>1. UpTo(txns, 0) \in 1 .. Len(txns)
    BY <1>6, UpToIs
  <2> QED
    BY <1>5, <2>1
<1>8. Disk(txns, 0) = Latest(txns) /\ DiskOf(txns, 1) = Latest(txns)
  BY <1>5, <1>7, DiskOfAll DEF Disk
<1>9. \A a \in Addr : Latest(txns)[a] = 0
  <2>1. \A a \in Addr : LS!Writers(txns, a) = {}
    BY <1>5 DEF LS!Writers
  <2> QED
    BY <2>1 DEF Latest, LS!Value, Block0
<1>10. Bounds = {0} /\ InstallBound = 0 /\ ~AllInstalled
  BY <1>1, <1>3 DEF Bounds, InstallBound, AllInstalled, LoggerBusy, InstallerBusy
<1>11. Shows(memLog, 0, Disk(txns, 0), Latest(txns))
  BY <1>1, <1>8 DEF Shows
<1>12. Effect(txns, memLog, {0})
  <2>1. \A p \in memLog.start .. memLog.mutable - 1 : FALSE
    BY <1>1
  <2> QED
    BY <1>1, <1>5, <1>6, <1>8, <1>11, <2>1 DEF Effect, Good
<1>13. TxnsInv
  BY <1>1, <1>3, <1>5, <1>10, <1>11, <1>12 DEF TxnsInv, EndShown, Ends
<1>14. DataInv
  <2>1. ASSUME NEW a \in Addr, NEW v \in Possible(data[a])
        PROVE  Within(txns, memLog.start, InstallBound, a, v)
    <3>1. v = DiskOf(txns, 1)[a] /\ 1 \in 1 .. 1
      BY <1>3, <1>8, <1>9
    <3> QED
      BY <1>1, <1>7, <1>10, <3>1 DEF Within
  <2> QED
    BY <1>1, <1>3, <1>8, <1>9, <1>10, <2>1 DEF DataInv
<1>15. SeenInv
  BY <1>3 DEF SeenInv
<1> QED
  BY <1>2, <1>4, <1>13, <1>14, <1>15 DEF DInv

(* Every step keeps it.                                                      *)
LEMMA NextContents == IInv /\ IInv' /\ DInv /\ [Next]_vars => DInv'
BY LogStep, SlotsStep, TxnsStep, DataStep, SeenStep DEF DInv

(* What the log, the slots and the data region hold is, at every step, the   *)
(* effect of the transactions: both invariants together carry what follows.  *)
THEOREM Contents == Spec => [](IInv /\ DInv)
<1>1. Init => IInv /\ DInv
  BY InitInv, InitContents
<1>2. IInv /\ DInv /\ [Next]_vars => (IInv /\ DInv)'
  BY NextInv, NextContents
<1> QED
  BY <1>1, <1>2, PTL DEF Spec

-----------------------------------------------------------------------------
(* What follows from it. *)

(* A lookup in addrPos finds the last update of the address, through         *)
(* absorption, installation and recovery.                                    *)
THEOREM AddrPosAlwaysExact == Spec => []AddrPosExact
<1>1. IInv /\ DInv => AddrPosExact
  BY FindsLastPos, Numbers DEF DInv, LogInv, AddrPosExact
<1> QED
  BY <1>1, Contents, PTL

(* A logged update not known to be installed is in its slot, and its address *)
(* in the header, on whatever disk a crash leaves.                           *)
THEOREM LiveSlotsAlwaysIntact == Spec => []LiveSlotsIntact
<1>1. IInv /\ DInv => LiveSlotsIntact
  BY DEF DInv, SlotsInv, SlotIs, LiveSlotsIntact
<1> QED
  BY <1>1, Contents, PTL

(* readMem, or the data region where it misses, answers what the appended    *)
(* transactions left, whenever no MemAppend is in the middle of its writes.  *)
THEOREM ReadsAlwaysCurrent == Spec => []ReadsCurrent
<1>1. IInv /\ DInv => ReadsCurrent
  <2> SUFFICES ASSUME IInv, DInv, ~MemWriting, NEW a \in Addr
               PROVE  Current(a) = IF memLog.addrPos[a] # NoPos
                                     THEN Get(memLog, memLog.addrPos[a]).Block ELSE data[a].latest
    BY DEF ReadsCurrent
  <2>1. \A c \in Client : cpc[c] # "memWrite"
    BY OneWriter DEF MemWriting
  <2>2. CASE memLog.addrPos[a] = NoPos
    BY <2>1, <2>2, MissIsCurrent DEF DInv
  <2>3. CASE memLog.addrPos[a] # NoPos
    <3>1. LastIn(memLog, a, memLog.addrPos[a], End(memLog))
      BY <2>3 DEF DInv, LogInv, Finds
    <3>2. Ends(txns, memLog, Latest(txns))
      BY <2>1 DEF DInv, TxnsInv, EndShown
    <3>3. memLog.addrPos[a] \in memLog.start .. End(memLog) - 1
      BY <3>1 DEF LastIn
    <3>4. Get(memLog, memLog.addrPos[a]).Block = Latest(txns)[a]
      BY <3>1, <3>2, <3>3 DEF Ends, Shows
    <3> QED
      BY <2>3, <3>4 DEF Latest, Current
  <2> QED
    BY <2>2, <2>3
<1> QED
  BY <1>1, Contents, PTL

(* Read, which goes to the disk after it has let go of memLock, finds a      *)
(* value the address has had since the miss.                                 *)
THEOREM ReadsAlwaysLinearizable == Spec => []ReadIsLinearizable
<1>1. IInv /\ DInv => ReadIsLinearizable
  BY DEF DInv, SeenInv, ReaderSaw, ReadIsLinearizable
<1> QED
  BY <1>1, Contents, PTL

(* The data region has, at each address, the value of some transaction       *)
(* between the installed and the durable bound.                              *)
THEOREM AlwaysInstalledInBounds == Spec => []InstalledInBounds
<1>1. IInv /\ DInv => InstalledInBounds
  <2> SUFFICES ASSUME IInv, DInv, NEW a \in Addr
               PROVE  \E n \in TxnsUpTo(memLog.start) .. TxnsUpTo(diskEnd) :
                        data[a].latest = LS!DiskAt(n)[a]
    BY DEF InstalledInBounds
  <2>1. /\ memLog.start \in Nat /\ diskEnd \in Nat /\ memLog.start <= diskEnd
        /\ InstallBound \in Nat /\ memLog.start <= InstallBound /\ InstallBound <= diskEnd
    <3>1. CASE InstallerBusy
      BY <3>1, Numbers DEF InstallBound
    <3>2. CASE ~InstallerBusy
      BY <3>2, Numbers DEF InstallBound
    <3> QED
      BY <3>1, <3>2
  <2>2. Within(txns, memLog.start, InstallBound, a, data[a].latest)
    BY Flushed DEF DInv, DataInv
  <2>3. Within(txns, memLog.start, diskEnd, a, data[a].latest)
    BY <2>1, <2>2, TxnFacts, WithinMore DEF DInv
  <2> QED
    BY <2>3 DEF Within, UpTo, TxnsUpTo, DiskOf, LS!DiskAt
<1> QED
  BY <1>1, Contents, PTL

(* Every disk a crash can leave recovers to the effect of a prefix of the    *)
(* transactions, with all that a Flush has promised in it.                   *)
THEOREM AlwaysCrashSafe == Spec => []CrashSafe
<1>1. IInv /\ DInv => CrashSafe
  <2> SUFFICES ASSUME IInv, DInv, NEW h1 \in Possible(hdr1), NEW h2 \in Possible(hdr2),
                      NEW lb \in CrashDisks(logblk), NEW db \in CrashDisks(data)
               PROVE  /\ TxnsUpTo(h1.end) >= acked
                      /\ \A a \in Addr :
                           RecoveredBlock(h1, h2, lb, db, a) = LS!DiskAt(TxnsUpTo(h1.end))[a]
    BY DEF CrashSafe
  <2>1. /\ memLog.start <= h2 /\ h2 <= h1.end /\ diskEnd <= h1.end
        /\ h2 \in Nat /\ h1.end \in Nat /\ memLog.start \in Nat /\ diskEnd \in Nat
    <3>1. memLog.start <= h2 /\ h2 <= diskEnd /\ diskEnd <= h1.end /\ h2 \in Nat /\ h1.end \in Nat
      BY CrashHeaders
    <3> QED
      BY <3>1, Numbers
  <2>2. SlotsInv /\ TxnsInv /\ DataInv /\ Good(txns) /\ Effect(txns, memLog, Bounds)
    BY TxnFacts DEF DInv
  <2>3. \A e \in Nat : TxnsUpTo(e) = UpTo(txns, e)
    BY DEF TxnsUpTo, UpTo
  <2>4. TxnsUpTo(h1.end) >= acked
    <3>1. /\ TxnsUpTo(diskEnd) \in 1 .. Len(txns) /\ TxnsUpTo(h1.end) \in 1 .. Len(txns)
          /\ Len(txns) \in Nat
      BY <2>1, <2>2, TxnsUpToRange, GoodFacts
    <3>2. TxnsUpTo(diskEnd) <= TxnsUpTo(h1.end)
      BY <2>1, <2>2, <2>3, UpToMono
    <3>3. acked <= TxnsUpTo(diskEnd) /\ acked \in Nat
      BY DEF IInv, AckedDurable, TypeOK
    <3> QED
      BY <3>1, <3>2, <3>3
  <2> DEFINE l == RecoveredLog(h1, h2, lb)
             t == MkSliding(l, h2)
  <2>5. \A p \in h2 .. h1.end - 1 :
          /\ lb[SlotOf(p)] = Get(memLog, p).Block /\ h1.addrs[SlotOf(p)] = Get(memLog, p).Addr
          /\ Get(memLog, p) \in Update
    BY <2>2, RecoveredSlots
  <2>6. \A i \in 1 .. h1.end - h2 :
          /\ h2 + i - 1 \in h2 .. h1.end - 1
          /\ l[i] = [Addr |-> h1.addrs[SlotOf(h2 + i - 1)], Block |-> lb[SlotOf(h2 + i - 1)]]
    BY <2>1 DEF RecoveredLog
  <2>7. l \in Seq(Update) /\ Len(l) = h1.end - h2
    <3>1. \A i \in 1 .. h1.end - h2 : l[i] = Get(memLog, h2 + i - 1) /\ l[i] \in Update
      BY <2>5, <2>6 DEF Update
    <3>2. h1.end - h2 \in Nat /\ DOMAIN l = 1 .. h1.end - h2
      BY <2>1 DEF RecoveredLog
    <3>3. l = [i \in 1 .. h1.end - h2 |-> l[i]]
      BY DEF RecoveredLog
    <3> HIDE DEF l
    <3>4. l \in [1 .. h1.end - h2 -> Update]
      BY <3>1, <3>3
    <3> QED
      BY <3>2, <3>4
  <2>8. t.log = l /\ t.start = h2 /\ \A a \in Addr : t.addrPos[a] = LastPos(l, h2, a)
    BY DEF MkSliding
  <2> HIDE DEF l
  <2>9. t \in SlidingType /\ End(t) = h1.end
    <3>1. t \in SlidingType /\ End(t) = h2 + Len(l)
      BY <2>1, <2>7, MkSlidingType
    <3> QED
      BY <2>1, <2>7, <3>1
  <2> HIDE DEF t
  <2>10. ASSUME NEW p \in h2 .. h1.end - 1
         PROVE  Get(t, p) = Get(memLog, p) /\ Get(t, p).Block = lb[SlotOf(p)]
    <3>1. p - h2 + 1 \in 1 .. h1.end - h2 /\ h2 + (p - h2 + 1) - 1 = p
      BY <2>1
    <3>2. Get(t, p) = [Addr |-> h1.addrs[SlotOf(p)], Block |-> lb[SlotOf(p)]]
      BY <2>6, <2>8, <3>1 DEF Get
    <3> QED
      BY <2>5, <3>2 DEF Update
  <2>11. Shows(t, h1.end, Disk(txns, h2), Disk(txns, h1.end))
    <3>1. h1.end \in Bounds /\ h2 \in Bounds
      BY RecoveredCuts
    <3>2. /\ Shows(memLog, h2, Disk(txns, memLog.start), Disk(txns, h2))
          /\ Shows(memLog, h1.end, Disk(txns, memLog.start), Disk(txns, h1.end))
      BY <2>2, <3>1 DEF Effect
    <3>3. memLog \in SlidingType
      BY Numbers
    <3> QED
      BY <2>1, <2>8, <2>9, <2>10, <3>2, <3>3, LaterStart
  <2>12. ASSUME NEW a \in Addr
         PROVE  RecoveredBlock(h1, h2, lb, db, a) = Disk(txns, h1.end)[a]
    <3>1. PICK p : p = LastPos(l, h2, a)
      OBVIOUS
    <3>2. RecoveredBlock(h1, h2, lb, db, a) = IF p = NoPos THEN db[a] ELSE lb[SlotOf(p)]
      BY <3>1 DEF RecoveredBlock, l
    <3>3. Finds(t, a) /\ t.addrPos[a] = p
      BY <2>8, <2>9, <3>1, FindsLastPos
    <3>4. CASE p = NoPos
      <4>1. Untouched(t, a, h1.end)
        BY <2>9, <3>3, <3>4 DEF Finds
      <4>2. Disk(txns, h1.end)[a] = Disk(txns, h2)[a]
        BY <2>11, <4>1 DEF Shows
      <4>3. \A q \in h2 .. h1.end - 1 : Get(memLog, q).Addr # a
        BY <2>8, <2>10, <4>1 DEF Untouched
      <4>4. db[a] \in Possible(data[a])
        BY DEF CrashDisks, IInv, TypeOK
      <4>5. db[a] = Disk(txns, h2)[a]
        BY <2>2, <4>3, <4>4, CrashData
      <4> QED
        BY <3>2, <3>4, <4>2, <4>5
    <3>5. CASE p # NoPos
      <4>1. LastIn(t, a, p, h1.end)
        BY <2>9, <3>3, <3>5 DEF Finds
      <4>2. p \in h2 .. h1.end - 1
        BY <2>8, <4>1 DEF LastIn
      <4>3. Get(t, p).Block = Disk(txns, h1.end)[a]
        BY <2>8, <2>11, <4>1, <4>2 DEF Shows
      <4> QED
        BY <2>10, <3>2, <3>5, <4>2, <4>3
    <3> QED
      BY <3>4, <3>5
  <2>13. \A a \in Addr : LS!DiskAt(TxnsUpTo(h1.end))[a] = Disk(txns, h1.end)[a]
    BY <2>1, <2>3 DEF LS!DiskAt, Disk, DiskOf
  <2> QED
    BY <2>4, <2>12, <2>13
<1> QED
  BY <1>1, Contents, PTL

-----------------------------------------------------------------------------
(* The log and log_state                                                     *)

\* no client calls MemAppend for nothing
Writes(c) == cpc[c] \in {"append", "memWrite"} => Len(req[c].bufs) > 0
AllWrite  == \A c \in Client : Writes(c)

(* Its updates are given before the call and stay until it returns.          *)
LEMMA WritesStep ==
  ASSUME \A w \in WriteSets : w # <<>>, IInv, AllWrite, [Next]_vars
  PROVE  AllWrite'
<1>t. /\ cpc \in [Client -> ClientPc] /\ TypeOK
      /\ req \in [Client -> [bufs : Seq(Update), next : Nat, pos : Nat, addr : Addr \cup {NoAddr}]]
  BY DEF IInv, TypeOK
<1> SUFFICES ASSUME NEW c \in Client PROVE Writes(c)'
  BY DEF AllWrite
<1>0. CASE cpc'[c] = cpc[c] /\ req'[c] = req[c]
  BY <1>0 DEF AllWrite, Writes
<1>1. CASE LoggerNext \/ InstallerNext \/ CallShutdown \/ ShutdownNext \/ Wakeup
  BY <1>0, <1>1, OthersFrame
<1>2. ASSUME NEW d \in Client, Call(d) \/ ClientNext(d), d # c
      PROVE  Writes(c)'
  BY <1>t, <1>0, <1>2, ClientLocals
<1>3. CASE Call(c) \/ ClientNext(c)
  <2>1. CASE CallMemAppend(c)
    <3>1. PICK w \in WriteSets :
            req' = [req EXCEPT ![c].bufs = [i \in DOMAIN w |-> [Addr |-> w[i], Block |-> appends + 1]]]
      BY <2>1 DEF CallMemAppend
    <3>2. w \in Seq(Addr) /\ w # <<>>
      BY WriteSetsAssumption
    <3>3. Len(w) \in Nat /\ Len(w) > 0 /\ DOMAIN w = 1 .. Len(w)
      BY <3>2
    <3>4. req'[c].bufs = [i \in 1 .. Len(w) |-> [Addr |-> w[i], Block |-> appends + 1]]
      BY <1>t, <3>1, <3>3
    <3>5. Len(req'[c].bufs) = Len(w)
      BY <3>3, <3>4
    <3> QED
      BY <3>3, <3>5 DEF Writes
  <2>2. CASE CallFlush(c) \/ CallRead(c)
    BY <1>t, <2>2 DEF CallFlush, CallRead, Writes
  <2>3. CASE MemAppendFail(c) \/ MemAppendDone(c) \/ FlushDone(c) \/ ReadMemHit(c) \/ ReadInstalled(c)
    BY <1>t, <2>3 DEF MemAppendFail, MemAppendDone, FlushDone, ReadMemHit, ReadInstalled, Return, Writes
  <2>4. CASE FlushStart(c) \/ FlushSleep(c) \/ ReadMemMiss(c)
    BY <1>t, <2>4 DEF FlushStart, FlushSleep, ReadMemMiss, clivars, Writes
  <2>5. CASE MemAppendFull(c) \/ MemAppendStart(c)
    BY <1>t, <2>5 DEF MemAppendFull, MemAppendStart, clivars, Writes, AllWrite
  <2>6. CASE MemWriteOne(c)
    <3>1. cpc'[c] = cpc[c] /\ req'[c].bufs = req[c].bufs
      BY <1>t, <2>6 DEF MemWriteOne
    <3> QED
      BY <3>1 DEF Writes, AllWrite
  <2> QED
    BY <1>3, <2>1, <2>2, <2>3, <2>4, <2>5, <2>6 DEF Call, ClientNext
<1>4. CASE Crash
  BY <1>4 DEF Crash, Recover, Writes
<1>5. CASE UNCHANGED vars
  BY <1>0, <1>5 DEF vars, clivars
<1> QED
  BY <1>1, <1>2, <1>3, <1>4, <1>5 DEF Next

\* the bounds of log_state, as this log has them
Durable   == TxnsUpTo(diskEnd)
Installed == TxnsUpTo(memLog.start)

(* The bounds are in order, and in the transactions.                         *)
LEMMA BoundsRange ==
  ASSUME IInv, TxnsInv
  PROVE  /\ Installed \in Nat /\ Durable \in Nat /\ Len(txns) \in Nat
         /\ 1 <= Installed /\ Installed <= Durable /\ Durable <= Len(txns)
         /\ \A e \in Nat : TxnsUpTo(e) = UpTo(txns, e) /\ TxnsUpTo(e) \in 1 .. Len(txns)
<1>1. \A e \in Nat : TxnsUpTo(e) = UpTo(txns, e)
  BY DEF TxnsUpTo, UpTo
<1>2. Good(txns) /\ Len(txns) \in Nat
  BY TxnFacts, GoodFacts
<1>3. memLog.start \in Nat /\ diskEnd \in Nat /\ memLog.start <= diskEnd
  BY Numbers
<1>4. Installed \in 1 .. Len(txns) /\ Durable \in 1 .. Len(txns)
  BY <1>3, TxnsUpToRange DEF Installed, Durable
<1>5. UpTo(txns, memLog.start) <= UpTo(txns, diskEnd)
  BY <1>2, <1>3, UpToMono
<1>6. Installed <= Durable
  BY <1>1, <1>3, <1>5 DEF Installed, Durable
<1>7. \A e \in Nat : TxnsUpTo(e) \in 1 .. Len(txns)
  BY TxnsUpToRange
<1>8. /\ Installed \in Nat /\ Durable \in Nat
      /\ 1 <= Installed /\ Durable <= Len(txns)
  BY <1>2, <1>4
<1> QED
  BY <1>1, <1>2, <1>6, <1>7, <1>8

(* The initial state is one of log_state.                                    *)
LEMMA InitRefines == Init => LS!LSInit
<1> SUFFICES ASSUME Init PROVE LS!LSInit
  OBVIOUS
<1>1. IInv /\ TxnsInv
  BY InitInv, InitContents DEF DInv
<1>2. Len(txns) = 1 /\ txns[1].pos \in Nat /\ txns[1].upds = <<>>
  BY DEF Init
<1>3. Installed = 1 /\ Durable = 1
  BY <1>1, <1>2, BoundsRange
<1> QED
  BY <1>2, <1>3 DEF LS!LSInit, Installed, Durable

(* A MemAppend that returns has log_state append.                            *)
LEMMA AppendRefines ==
  ASSUME IInv, TxnsInv, AllWrite, NEW c \in Client, MemAppendDone(c)
  PROVE  LS!LogMemAppend
<1> DEFINE x == [pos |-> End(memLog), upds |-> req[c].bufs]
           us == Append(txns, x)
<1>1. txns' = us /\ x \in Txn /\ x.pos = End(memLog) /\ UNCHANGED <<memLog, diskEnd>>
  BY AppendFacts DEF MemAppendDone, stvars
<1>3. /\ txns \in Seq(Txn) /\ Len(txns) \in Nat /\ Len(txns) >= 1
      /\ \A n \in 1 .. Len(txns) : txns[n].pos \in Nat /\ txns[n].pos <= txns[Len(txns)].pos
      /\ txns[Len(txns)].pos <= End(memLog)
  BY TxnFacts, GoodFacts DEF Effect
<1>4. /\ Len(us) = Len(txns) + 1 /\ us[Len(txns) + 1] = x /\ us \in Seq(Txn)
      /\ \A n \in 1 .. Len(txns) : us[n] = txns[n]
  BY <1>1, <1>3, AppendProperties
<1>5. memLog.mutable < End(memLog)
  <2>1. cpc[c] = "memWrite" /\ req[c].next > Len(req[c].bufs) /\ Len(req[c].bufs) > 0
    BY DEF MemAppendDone, AllWrite, Writes
  <2>2. req[c].next \in Nat /\ Len(req[c].bufs) \in Nat
    BY DEF IInv, TypeOK
  <2>3. req[c].next > 1
    BY <2>1, <2>2
  <2> QED
    BY <2>1, <2>3, Numbers DEF TxnsInv, EndShown
<1>n. /\ memLog.start \in Nat /\ diskEnd \in Nat /\ End(memLog) \in Nat /\ memLog.mutable \in Nat
      /\ memLog.start <= diskEnd /\ diskEnd <= memLog.mutable
  BY Numbers
<1> HIDE DEF us, x
<1>6. ASSUME NEW e \in Nat, e < End(memLog)
      PROVE  TxnsUpTo(e)' = TxnsUpTo(e)
  <2>1. \A n \in DOMAIN us : us[n].pos <= e <=> n \in DOMAIN txns /\ txns[n].pos <= e
    BY <1>1, <1>3, <1>4, <1>6, <1>n
  <2>2. { n \in DOMAIN us : us[n].pos <= e } = { n \in DOMAIN txns : txns[n].pos <= e }
    BY <1>3, <1>4, <2>1
  <2> QED
    BY <1>1, <2>2 DEF TxnsUpTo
<1>7. diskEnd' = diskEnd /\ memLog'.start = memLog.start
  BY <1>1
<1>8. TxnsUpTo(diskEnd)' = TxnsUpTo(diskEnd) /\ TxnsUpTo(memLog.start)' = TxnsUpTo(memLog.start)
  <2>1. PICK d \in Nat : d = diskEnd /\ d < End(memLog) /\ diskEnd' = d
    BY <1>5, <1>7, <1>n
  <2>2. PICK s \in Nat : s = memLog.start /\ s < End(memLog) /\ memLog'.start = s
    BY <1>5, <1>7, <1>n
  <2>3. TxnsUpTo(d)' = TxnsUpTo(d) /\ TxnsUpTo(s)' = TxnsUpTo(s)
    BY <1>6, <2>1, <2>2
  <2> QED
    BY <2>1, <2>2, <2>3 DEF TxnsUpTo
<1>9. SubSeq(us, 1, Len(txns)) = txns
  BY <1>3, <1>4
<1>10. \A i \in DOMAIN txns : txns[i].pos <= us[Len(us)].pos
  BY <1>1, <1>3, <1>4, <1>n
<1> QED
  BY <1>1, <1>4, <1>8, <1>9, <1>10 DEF LS!LogMemAppend

(* A crash has it crash.                                                     *)
LEMMA CrashRefines ==
  ASSUME IInv, IInv', DInv, Crash
  PROVE  LS!LogCrash
<1>1. PICK h1 \in Possible(hdr1), h2 \in Possible(hdr2), lb \in CrashDisks(logblk),
           db \in CrashDisks(data) : Recover(h1, h2, lb, db)
  BY DEF Crash
<1>2. /\ memLog.start <= h2 /\ h2 <= h1.end /\ diskEnd <= h1.end
      /\ h2 \in Nat /\ h1.end \in Nat /\ memLog.start \in Nat /\ diskEnd \in Nat
  <2>1. memLog.start <= h2 /\ h2 <= diskEnd /\ diskEnd <= h1.end /\ h2 \in Nat /\ h1.end \in Nat
    BY CrashHeaders
  <2> QED
    BY <2>1, Numbers
<1>3. SlotsInv /\ TxnsInv /\ Good(txns)
  BY TxnFacts DEF DInv
<1>4. /\ txns' = SubSeq(txns, 1, TxnsUpTo(h1.end)) /\ diskEnd' = h1.end /\ memLog'.start = h2
  BY <1>1, CrashMemLog DEF Recover
<1>5. /\ TxnsInv'
      /\ \A e \in Nat : e <= h1.end => UpTo(txns', e) = UpTo(txns, e)
  BY <1>1, <1>3, TxnsCrash
<1>6. \A e \in Nat : /\ TxnsUpTo(e) = UpTo(txns, e) /\ TxnsUpTo(e) \in 1 .. Len(txns)
  BY <1>3, BoundsRange
<1>7. PICK n : n = TxnsUpTo(h1.end)
  OBVIOUS
<1>8. PICK m : m = TxnsUpTo(h2)
  OBVIOUS
<1>9. TxnsUpTo(diskEnd)' = n /\ TxnsUpTo(memLog.start)' = m
  <2>1. TxnsUpTo(diskEnd)' = UpTo(txns', h1.end) /\ TxnsUpTo(memLog.start)' = UpTo(txns', h2)
    BY <1>4 DEF TxnsUpTo, UpTo
  <2>2. h1.end <= h1.end /\ h2 <= h1.end /\ h1.end \in Nat /\ h2 \in Nat
    BY <1>2
  <2>3. UpTo(txns', h1.end) = UpTo(txns, h1.end) /\ UpTo(txns', h2) = UpTo(txns, h2)
    BY ONLY <1>5, <2>2
  <2>4. UpTo(txns, h1.end) = TxnsUpTo(h1.end) /\ UpTo(txns, h2) = TxnsUpTo(h2)
    BY ONLY <1>6, <2>2
  <2> QED
    BY ONLY <1>7, <1>8, <2>1, <2>3, <2>4
<1>10. n \in Durable .. Len(txns) /\ m \in Installed .. n
  <2>1. UpTo(txns, diskEnd) <= UpTo(txns, h1.end) /\ UpTo(txns, memLog.start) <= UpTo(txns, h2)
        /\ UpTo(txns, h2) <= UpTo(txns, h1.end)
    BY <1>2, <1>3, UpToMono
  <2>2. Durable <= n /\ Installed <= m /\ m <= n
    BY <1>2, <1>6, <1>7, <1>8, <2>1 DEF Durable, Installed
  <2>3. /\ n \in 1 .. Len(txns) /\ m \in 1 .. Len(txns)
        /\ Len(txns) \in Nat /\ Durable \in Nat /\ Installed \in Nat
    BY <1>2, <1>3, <1>6, <1>7, <1>8, BoundsRange
  <2> QED
    BY <2>2, <2>3
<1> QED
  BY <1>4, <1>7, <1>9, <1>10 DEF LS!LogCrash, Durable, Installed

(* What else the log does moves one of the bounds, or none.                  *)
LEMMA BoundsMove ==
  ASSUME IInv, LogInv, TxnsInv, [Next]_vars, ~Crash, ~\E c \in Client : MemAppendDone(c)
  PROVE  LS!UpdateDurable \/ LS!UpdateInstalled \/ UNCHANGED <<txns, Durable, Installed>>
<1>1. txns' = txns
  <2>1. CASE LoggerNext \/ InstallerNext \/ CallShutdown \/ ShutdownNext \/ Wakeup
    BY <2>1, OthersFrame
  <2>2. ASSUME NEW c \in Client, Call(c) \/ ClientNext(c), ~MemAppendDone(c)
        PROVE  txns' = txns
    BY <2>2 DEF Call, CallMemAppend, CallFlush, CallRead, ClientNext, MemAppendFail, MemAppendFull,
       MemAppendStart, MemWriteOne, FlushStart, FlushSleep, FlushDone, ReadMemHit,
       ReadMemMiss, ReadInstalled, history
  <2>3. CASE UNCHANGED vars
    BY <2>3 DEF vars, history
  <2> QED
    BY <2>1, <2>2, <2>3 DEF Next
<1>2. \A e \in Nat : TxnsUpTo(e)' = TxnsUpTo(e)
  BY <1>1 DEF TxnsUpTo
<1>n. /\ memLog.start \in Nat /\ diskEnd \in Nat /\ inst.end \in Nat /\ lg.end \in Nat
      /\ (LoggerBusy => diskEnd < lg.end) /\ Good(txns)
      /\ (InstallerBusy => memLog.start < inst.end /\ inst.end <= diskEnd)
  BY Numbers, TxnFacts
<1>r. /\ Installed \in Nat /\ Durable \in Nat /\ Len(txns) \in Nat
      /\ \A e \in Nat : TxnsUpTo(e) = UpTo(txns, e) /\ TxnsUpTo(e) \in 1 .. Len(txns)
  BY BoundsRange
<1>3. CASE InstallCut
  <2>1. memLog'.start = inst.end /\ diskEnd' = diskEnd /\ InstallerBusy
    BY <1>3, CutEffect DEF InstallCut
  <2>2. Installed' = TxnsUpTo(inst.end) /\ Durable' = Durable
    BY <1>1, <2>1 DEF Installed, Durable, TxnsUpTo
  <2>3. UpTo(txns, memLog.start) <= UpTo(txns, inst.end) /\ UpTo(txns, inst.end) <= UpTo(txns, diskEnd)
    BY <1>n, <2>1, UpToMono
  <2>c. PICK i : i = TxnsUpTo(inst.end)
    OBVIOUS
  <2>d. Installed <= i /\ i <= Durable /\ i \in 1 .. Len(txns)
    BY <1>n, <1>r, <2>c, <2>3 DEF Installed, Durable
  <2>4. Installed' \in Installed .. Durable
    BY <1>r, <2>c, <2>d, <2>2
  <2> QED
    BY <1>1, <2>2, <2>4 DEF LS!UpdateInstalled, Installed, Durable
<1>4. CASE ~InstallCut
  <2>1. memLog'.start = memLog.start
    BY <1>4, StartFrame
  <2>2. Installed' = Installed
    BY <1>1, <2>1 DEF Installed, TxnsUpTo
  <2>3. diskEnd' = diskEnd \/ (LoggerBusy /\ diskEnd' = lg.end)
    <3>1. CASE LoggerNext \/ CallShutdown \/ ShutdownNext \/ Wakeup
      BY <3>1 DEF LoggerNext, LoggerStart, LoggerLoop, LoggerExit, LoggerWaitForSpace, LoggerTake,
         LoggerIdle, LoggerBlock, LoggerBarrier, LoggerHdr, LoggerHdrBarrier, LoggerLogged, LoggedEnd,
         LoggerBusy, CallShutdown, ShutdownNext, ShutdownSleep, ShutdownDone, Wakeup, stvars
    <3>2. CASE InstallerNext
      BY <3>2 DEF InstallerNext, InstallerStart, InstallerExit, InstallerTake, InstallerIdle,
         InstallBlock, InstallBarrier, InstallAdvance, InstallAdvanceBarrier, InstallCut, stvars
    <3>3. ASSUME NEW c \in Client, Call(c) \/ ClientNext(c)
          PROVE  diskEnd' = diskEnd
      BY <3>3, ClientFrame
    <3>4. CASE UNCHANGED vars
      BY <3>4 DEF vars, stvars
    <3> QED
      BY <3>1, <3>2, <3>3, <3>4 DEF Next
  <2>4. CASE diskEnd' = diskEnd
    <3>1. Durable' = Durable
      BY <1>1, <2>4 DEF Durable, TxnsUpTo
    <3> QED
      BY <1>1, <2>2, <3>1
  <2>5. CASE LoggerBusy /\ diskEnd' = lg.end
    <3>1. Durable' = TxnsUpTo(lg.end)
      BY <1>1, <2>5 DEF Durable, TxnsUpTo
    <3>2. UpTo(txns, diskEnd) <= UpTo(txns, lg.end)
      BY <1>n, <2>5, UpToMono
    <3>3. Durable' \in Durable .. Len(txns)
      <4>1. Durable = UpTo(txns, diskEnd) /\ Durable' = UpTo(txns, lg.end)
        BY <1>n, <1>r, <3>1 DEF Durable
      <4>2. Durable' \in 1 .. Len(txns)
        BY <1>n, <1>r, <3>1
      <4>3. Durable <= Durable'
        BY ONLY <3>2, <4>1
      <4> QED
        BY ONLY <1>r, <4>2, <4>3
    <3> QED
      BY <1>1, <2>2, <3>3 DEF LS!UpdateDurable, Installed, Durable
  <2> QED
    BY <2>3, <2>4, <2>5
<1> QED
  BY <1>3, <1>4

(* The log implements log_state, if MemAppend is never called for nothing: a *)
(* transaction without updates is durable the moment it is appended, which   *)
(* log_state has happen in two steps.                                        *)
THEOREM ImplementsLogState ==
  ASSUME \A w \in WriteSets : w # <<>>
  PROVE  Spec => RefinesLogState
<1>1. Init => AllWrite
  BY DEF Init, AllWrite, Writes
<1>2. IInv /\ AllWrite /\ [Next]_vars => AllWrite'
  BY WritesStep
<1>3. IInv /\ IInv' /\ DInv /\ AllWrite /\ [Next]_vars => [LS!LSNext]_<<txns, Durable, Installed>>
  BY AppendRefines, CrashRefines, BoundsMove DEF DInv, LS!LSNext
<1>4. (IInv /\ DInv) /\ (IInv /\ DInv)' /\ AllWrite /\ [Next]_vars => [LS!LSNext]_(LS!lsvars)
  BY <1>3 DEF LS!lsvars, Durable, Installed
<1> QED
  BY <1>1, <1>2, <1>4, InitRefines, Contents, PTL DEF Spec, RefinesLogState, LS!LSSpec

-----------------------------------------------------------------------------
(* No wakeup is lost: WakeInv, one lemma for each thread that may sleep.     *)

(* What memWrite, deleteFrom, flushIfNeeded and endGroupTxn do to the request *)
(* of a flush and to the read-only bound.                                     *)
LEMMA RequestEffect ==
  ASSUME NEW s \in SlidingType
  PROVE  /\ \A n : DeleteFrom(s, n).needFlush = s.needFlush
         /\ \A u : MemWrite(s, u).needFlush = s.needFlush
         /\ FlushIfNeeded(s).needFlush = FALSE
         /\ s.needFlush => FlushIfNeeded(s).mutable = End(s)
         /\ \A b : LET t == [s EXCEPT !.needFlush = b]
                   IN  t.needFlush = b /\ t.mutable = s.mutable /\ End(t) = End(s) /\ t.start = s.start
<1>1. \A n : DeleteFrom(s, n).needFlush = s.needFlush
  BY DEF DeleteFrom, SlidingType
<1>2. \A u : MemWrite(s, u).needFlush = s.needFlush
  BY DEF MemWrite, UpdateAt, AppendUpdate, SlidingType
<1>3. FlushIfNeeded(s).needFlush = FALSE
  BY DEF FlushIfNeeded, ClearMutable, SlidingType
<1>4. s.needFlush => FlushIfNeeded(s).mutable = End(s)
  BY DEF FlushIfNeeded, ClearMutable, SlidingType
<1>5. \A b : LET t == [s EXCEPT !.needFlush = b]
             IN  t.needFlush = b /\ t.mutable = s.mutable /\ End(t) = End(s) /\ t.start = s.start
  BY DEF SlidingType, End
<1> QED
  BY <1>1, <1>2, <1>3, <1>4, <1>5

(* Short of a crash, memLog is changed by four kinds of step.                *)
LEMMA MemLogMoves ==
  ASSUME [Next]_vars, ~Crash
  PROVE  \/ memLog' = memLog
         \/ (LoggerTake \/ LoggerIdle) /\ memLog' = FlushIfNeeded(memLog)
         \/ InstallCut
         \/ \E c \in Client : MemWriteOne(c)
         \/ \E c \in Client : MemAppendFull(c) \/ FlushStart(c)
<1>1. CASE LoggerNext
  BY <1>1 DEF LoggerNext, LoggerStart, LoggerLoop, LoggerExit, LoggerWaitForSpace, LoggerTake,
     LoggerIdle, LoggerBlock, LoggerBarrier, LoggerHdr, LoggerHdrBarrier, LoggerLogged, stvars
<1>2. CASE InstallerNext
  BY <1>2 DEF InstallerNext, InstallerStart, InstallerExit, InstallerTake, InstallerIdle,
     InstallBlock, InstallBarrier, InstallAdvance, InstallAdvanceBarrier, stvars
<1>3. ASSUME NEW c \in Client, Call(c) \/ ClientNext(c),
             ~MemWriteOne(c), ~MemAppendFull(c), ~FlushStart(c)
      PROVE  memLog' = memLog
  BY <1>3 DEF Call, CallMemAppend, CallFlush, CallRead, ClientNext, MemAppendFail,
     MemAppendStart, MemAppendDone, FlushSleep, FlushDone, ReadMemHit,
     ReadMemMiss, ReadInstalled, stvars
<1>4. CASE CallShutdown \/ ShutdownNext \/ Wakeup \/ UNCHANGED vars
  BY <1>4 DEF CallShutdown, ShutdownNext, ShutdownSleep, ShutdownDone, Wakeup, vars, stvars
<1> QED
  BY <1>1, <1>2, <1>3, <1>4 DEF Next

(* Short of a crash, the end and the read-only bound only grow, and a request *)
(* is forgotten only by moving the bound to the end.                          *)
LEMMA LogGrows ==
  ASSUME IInv, IInv', LogInv, [Next]_vars, ~Crash
  PROVE  /\ End(memLog) <= End(memLog') /\ memLog.mutable <= memLog'.mutable
         /\ End(memLog') \in Nat /\ memLog'.mutable \in Nat
         /\ memLog.needFlush => memLog'.needFlush \/ memLog'.mutable = End(memLog')
<1>n. /\ memLog \in SlidingType /\ End(memLog) \in Nat /\ memLog.mutable \in Nat
      /\ memLog.start <= memLog.mutable /\ memLog.mutable <= End(memLog) /\ memLog.start \in Nat
  BY Numbers
<1>m. End(memLog') \in Nat /\ memLog'.mutable \in Nat
  <2>1. memLog' \in SlidingType
    BY DEF IInv, TypeOK
  <2> QED
    BY <2>1, LogFacts
<1>1. CASE memLog' = memLog
  BY <1>1, <1>n
<1>2. CASE memLog' = FlushIfNeeded(memLog)
  <2>1. /\ End(memLog') = End(memLog) /\ memLog'.mutable \in {memLog.mutable, End(memLog)}
        /\ memLog.needFlush => memLog'.mutable = End(memLog)
    BY <1>2, <1>n, FlushIfNeededEffect, RequestEffect
  <2> QED
    BY <1>n, <2>1
<1>3. CASE InstallCut
  <2>1. /\ memLog' = DeleteFrom(memLog, inst.end)
        /\ memLog'.mutable = memLog.mutable /\ End(memLog') = End(memLog)
    BY <1>3, CutEffect
  <2>2. memLog'.needFlush = memLog.needFlush
    BY <1>n, <2>1, RequestEffect
  <2> QED
    BY <1>n, <2>1, <2>2
<1>4. ASSUME NEW c \in Client, MemWriteOne(c)
      PROVE  /\ End(memLog) <= End(memLog') /\ memLog.mutable <= memLog'.mutable
             /\ memLog.needFlush => memLog'.needFlush
  <2> DEFINE u == req[c].bufs[req[c].next]
  <2>1. u \in Update /\ memLog' = MemWrite(memLog, u)
    BY <1>4, WriteEffect DEF MemWriteOne
  <2> HIDE DEF u
  <2>2. memLog'.mutable = memLog.mutable /\ End(memLog') \in {End(memLog), End(memLog) + 1}
    BY <1>n, <2>1, MemWriteEffect
  <2>3. memLog'.needFlush = memLog.needFlush
    BY <1>n, <2>1, RequestEffect
  <2> QED
    BY <1>n, <2>2, <2>3
<1>5. ASSUME NEW c \in Client, MemAppendFull(c) \/ FlushStart(c)
      PROVE  /\ End(memLog) <= End(memLog') /\ memLog.mutable <= memLog'.mutable
             /\ memLog.needFlush => memLog'.needFlush
  <2>1. PICK b \in BOOLEAN : memLog' = [memLog EXCEPT !.needFlush = b] /\ (memLog.needFlush => b)
    <3>1. CASE MemAppendFull(c)
      BY <3>1 DEF MemAppendFull
    <3>2. CASE FlushStart(c)
      <4>1. (memLog.needFlush \/ req[c].pos > memLog.mutable) \in BOOLEAN
        BY <1>n DEF SlidingType
      <4> QED
        BY <3>2, <4>1 DEF FlushStart, FlushRequest
    <3> QED
      BY <1>5, <3>1, <3>2
  <2>2. memLog'.needFlush = b /\ memLog'.mutable = memLog.mutable /\ End(memLog') = End(memLog)
    BY <1>n, <2>1, RequestEffect
  <2> QED
    BY <1>n, <2>1, <2>2
<1> QED
  BY <1>1, <1>2, <1>3, <1>4, <1>5, <1>m, MemLogMoves

(* A thread that runs a critical section is awake. *)
LEMMA EntersAwake ==
  ASSUME SleepersPlaced, NEW t, Enter(t)
  PROVE  t \notin condLogger /\ t \notin condInstall /\ t \notin condShut
BY DEF SleepersPlaced, Enter, Asleep

(* The logger, the installer and the caller of Shutdown are no clients, and  *)
(* no two of them are one.                                                   *)
LEMMA ThreadsDiffer ==
  /\ Logger # Installer /\ Logger # Stopper /\ Installer # Stopper
  /\ \A c \in Client : c # Logger /\ c # Installer /\ c # Stopper /\ c # Free
  /\ Logger # Free /\ Installer # Free /\ Stopper # Free
BY ClientAssumption DEF Logger, Installer, Stopper, Free

(* A client's step puts at most that client to sleep, on condLogger.         *)
LEMMA ClientSleeps ==
  ASSUME NEW c \in Client, Call(c) \/ ClientNext(c)
  PROVE  /\ condInstall' = condInstall /\ condShut' = condShut
         /\ condLogger' \subseteq condLogger \cup {c}
BY DEF Call, CallMemAppend, CallFlush, CallRead, ClientNext, MemAppendFail, MemAppendFull,
       MemAppendStart, MemWriteOne, MemAppendDone, FlushStart, FlushSleep, FlushDone, ReadMemHit,
       ReadMemMiss, ReadInstalled, FullWakesLogger, lockvars

(* Whoever a step leaves with memLock is awake, and the step put nobody to   *)
(* sleep; or memLock is free.                                                *)
LEMMA HolderAwake ==
  ASSUME TypeOK', SleepersPlaced, [Next]_vars
  PROVE  memLock' \notin Asleep'
<1> DEFINE Calm == memLock' = memLock /\ condLogger' \subseteq condLogger
                     /\ condInstall' \subseteq condInstall /\ condShut' \subseteq condShut
           Entered(t) == Enter(t) /\ memLock' = t /\ condLogger' \subseteq condLogger
                     /\ condInstall' \subseteq condInstall /\ condShut' \subseteq condShut
<1>1. CASE Calm
  BY <1>1 DEF SleepersPlaced, Asleep
<1>2. ASSUME NEW t, Entered(t)
      PROVE  memLock' \notin Asleep'
  <2>1. t \notin condLogger /\ t \notin condInstall /\ t \notin condShut
    BY <1>2, EntersAwake
  <2> QED
    BY <1>2, <2>1 DEF Asleep
<1>3. CASE memLock' = Free
  <2>1. condLogger' \subseteq Thread /\ condInstall' \subseteq Thread /\ condShut' \subseteq Thread
    BY DEF TypeOK
  <2>2. Free \notin Thread
    BY ThreadsDiffer DEF Thread
  <2> QED
    BY <1>3, <2>1, <2>2 DEF Asleep
<1>4. CASE LoggerNext
  <2>1. Calm \/ Entered(Logger) \/ memLock' = Free
    BY <1>4 DEF LoggerNext, LoggerStart, LoggerLoop, LoggerExit, LoggerWaitForSpace, LoggerTake,
       LoggerIdle, LoggerBlock, LoggerBarrier, LoggerHdr, LoggerHdrBarrier, LoggerLogged,
       LoggedBroadcasts, Keep, Release, lockvars
  <2> QED
    BY <1>1, <1>2, <1>3, <2>1
<1>5. CASE InstallerNext
  <2>1. Calm \/ Entered(Installer) \/ memLock' = Free
    BY <1>5 DEF InstallerNext, InstallerStart, InstallerExit, InstallerTake, InstallerIdle,
       InstallBlock, InstallBarrier, InstallAdvance, InstallAdvanceBarrier, InstallCut,
       Keep, Release, lockvars
  <2> QED
    BY <1>1, <1>2, <1>3, <2>1
<1>6. ASSUME NEW c \in Client, Call(c) \/ ClientNext(c)
      PROVE  memLock' \notin Asleep'
  <2>1. Calm \/ Entered(c) \/ memLock' = Free
    BY <1>6 DEF Call, CallMemAppend, CallFlush, CallRead, ClientNext, MemAppendFail, MemAppendFull,
       MemAppendStart, MemWriteOne, MemAppendDone, FlushStart, FlushSleep, FlushDone, ReadMemHit,
       ReadMemMiss, ReadInstalled, Keep, Release, lockvars
  <2> QED
    BY <1>1, <1>2, <1>3, <2>1
<1>7. CASE CallShutdown \/ ShutdownNext
  <2>1. Entered(Stopper) \/ memLock' = Free
    BY <1>7 DEF CallShutdown, ShutdownNext, ShutdownSleep, ShutdownDone, Keep, Release
  <2> QED
    BY <1>2, <1>3, <2>1
<1>8. CASE Wakeup \/ UNCHANGED vars
  <2>1. Calm
    BY <1>8 DEF Wakeup, vars, lockvars
  <2> QED
    BY <1>1, <2>1
<1>9. CASE Crash
  BY <1>3, <1>9 DEF Crash, Recover
<1> QED
  BY <1>4, <1>5, <1>6, <1>7, <1>8, <1>9 DEF Next

(* The logger sleeps on condLogger only when nothing is asked of it.         *)
LoggerAsleep ==
  Logger \in condLogger => lpc = "loop" /\ ~memLog.needFlush /\ memLog.mutable = diskEnd

(* ... and on condInstall only while the log is full. *)
LoggerStuck == Logger \in condInstall => lpc = "space" /\ LogFull

(* The installer sleeps only when there is nothing to install. *)
InstallerAsleep == Installer \in condInstall => ipc = "loop" /\ diskEnd = memLog.start

(* Shutdown sleeps only while a thread is left. *)
StopperAsleep == Stopper \in condShut => spc = "wait" /\ ~AllStopped

(* The logger goes to sleep in LoggerIdle, with its work done; whoever gives *)
(* it more wakes it.                                                         *)
LEMMA LoggerAsleepStep ==
  ASSUME IInv, LogInv, SleepersPlaced, LoggerAsleep, [Next]_vars
  PROVE  LoggerAsleep'
<1>n. memLog \in SlidingType /\ memLog.start <= memLog.mutable /\ memLog.mutable <= End(memLog)
  <2>1. /\ memLog \in SlidingType /\ memLog.start \in Nat /\ memLog.mutable \in Nat /\ diskEnd \in Nat
        /\ memLog.start <= diskEnd /\ diskEnd <= memLog.mutable /\ memLog.mutable <= End(memLog)
    BY Numbers
  <2> QED
    BY <2>1
<1>0. ASSUME memLog'.needFlush = memLog.needFlush, memLog'.mutable = memLog.mutable,
             diskEnd' = diskEnd, lpc' = lpc, Logger \in condLogger' => Logger \in condLogger
      PROVE  LoggerAsleep'
  BY <1>0 DEF LoggerAsleep
<1>1. CASE LoggerIdle
  <2>1. memLog' = FlushIfNeeded(memLog) /\ TakeFromLen(memLog', diskEnd) = 0 /\ diskEnd' = diskEnd
        /\ lpc' = "loop"
    BY <1>1 DEF LoggerIdle
  <2>2. ~memLog'.needFlush
    BY <1>n, <2>1, RequestEffect
  <2>3. memLog'.mutable = diskEnd
    <3>1. memLog'.mutable \in Nat /\ diskEnd \in Nat
      BY <1>n, <2>1, FlushIfNeededEffect, Numbers
    <3> QED
      BY <2>1, <3>1 DEF TakeFromLen
  <2> QED
    BY <2>1, <2>2, <2>3 DEF LoggerAsleep
<1>2. CASE LoggerNext /\ ~LoggerIdle
  <2>1. Logger \notin condLogger
    <3>1. Enter(Logger) \/ lpc # "loop"
      BY <1>2 DEF LoggerNext, LoggerStart, LoggerLoop, LoggerExit, LoggerWaitForSpace, LoggerTake,
         LoggerBlock, LoggerBarrier, LoggerHdr, LoggerHdrBarrier, LoggerLogged
    <3> QED
      BY <3>1, EntersAwake DEF LoggerAsleep
  <2>2. condLogger' \subseteq condLogger
    BY <1>2 DEF LoggerNext, LoggerStart, LoggerLoop, LoggerExit, LoggerWaitForSpace, LoggerTake,
       LoggerBlock, LoggerBarrier, LoggerHdr, LoggerHdrBarrier, LoggerLogged, LoggedBroadcasts, lockvars
  <2> QED
    BY <2>1, <2>2 DEF LoggerAsleep
<1>3. CASE InstallerNext
  <2>1. condLogger' = condLogger /\ diskEnd' = diskEnd /\ lpc' = lpc
    BY <1>3 DEF InstallerNext, InstallerStart, InstallerExit, InstallerTake, InstallerIdle,
       InstallBlock, InstallBarrier, InstallAdvance, InstallAdvanceBarrier, InstallCut,
       lockvars, stvars, logvars
  <2>2. CASE InstallCut
    <3>1. memLog' = DeleteFrom(memLog, inst.end) /\ memLog'.mutable = memLog.mutable
      BY <2>2, CutEffect
    <3>2. memLog'.needFlush = memLog.needFlush
      BY <1>n, <3>1, RequestEffect
    <3> QED
      BY <1>0, <2>1, <3>1, <3>2
  <2>3. CASE ~InstallCut
    <3>1. memLog' = memLog
      BY <1>3, <2>3 DEF InstallerNext, InstallerStart, InstallerExit, InstallerTake, InstallerIdle,
         InstallBlock, InstallBarrier, InstallAdvance, InstallAdvanceBarrier, stvars
    <3> QED
      BY <1>0, <2>1, <3>1
  <2> QED
    BY <2>2, <2>3
<1>4. ASSUME NEW c \in Client, Call(c) \/ ClientNext(c)
      PROVE  LoggerAsleep'
  <2>1. diskEnd' = diskEnd /\ lpc' = lpc /\ (Logger \in condLogger' => Logger \in condLogger)
    <3>1. diskEnd' = diskEnd /\ lpc' = lpc
      BY <1>4, ClientFrame
    <3>2. condLogger' \subseteq condLogger \cup {c} /\ c # Logger
      BY <1>4, ClientSleeps, ThreadsDiffer
    <3> QED
      BY <3>1, <3>2
  <2>2. CASE MemWriteOne(c)
    <3> DEFINE u == req[c].bufs[req[c].next]
    <3>1. u \in Update /\ memLog' = MemWrite(memLog, u)
      BY <2>2, WriteEffect DEF MemWriteOne
    <3> HIDE DEF u
    <3>2. memLog'.mutable = memLog.mutable
      BY <1>n, <3>1, MemWriteEffect
    <3>3. memLog'.needFlush = memLog.needFlush
      BY <1>n, <3>1, RequestEffect
    <3> QED
      BY <1>0, <2>1, <3>2, <3>3
  <2>3. CASE MemAppendFull(c) \/ FlushStart(c)
    <3>1. Logger \notin condLogger'
      BY <2>3, ThreadsDiffer DEF MemAppendFull, FlushStart, FullWakesLogger
    <3> QED
      BY <3>1 DEF LoggerAsleep
  <2>4. CASE ~MemWriteOne(c) /\ ~MemAppendFull(c) /\ ~FlushStart(c)
    <3>1. memLog' = memLog
      BY <1>4, <2>4 DEF Call, CallMemAppend, CallFlush, CallRead, ClientNext, MemAppendFail,
         MemAppendStart, MemAppendDone, FlushSleep, FlushDone, ReadMemHit,
         ReadMemMiss, ReadInstalled, stvars
    <3> QED
      BY <1>0, <2>1, <3>1
  <2> QED
    BY <2>2, <2>3, <2>4
<1>5. CASE CallShutdown \/ ShutdownNext \/ Wakeup \/ UNCHANGED vars
  <2>1. UNCHANGED <<memLog, diskEnd, lpc>> /\ condLogger' \subseteq condLogger
    BY <1>5 DEF CallShutdown, ShutdownNext, ShutdownSleep, ShutdownDone, Wakeup, vars, stvars, logvars, lockvars
  <2> QED
    BY <1>0, <2>1
<1>6. CASE Crash
  BY <1>6 DEF Crash, Recover, LoggerAsleep
<1> QED
  BY <1>1, <1>2, <1>3, <1>4, <1>5, <1>6 DEF Next

(* The logger waits for space with a log that is full, which it stays until  *)
(* the installer cuts it and wakes the logger.                               *)
LEMMA LoggerStuckStep ==
  ASSUME IInv, LogInv, SleepersPlaced, LoggerStuck, [Next]_vars
  PROVE  LoggerStuck'
<1>n. /\ memLog \in SlidingType /\ Len(memLog.log) \in Nat /\ LOGSZ \in Nat
      /\ memLog.start <= memLog.mutable /\ memLog.mutable <= End(memLog)
  <2>1. /\ memLog \in SlidingType /\ memLog.start \in Nat /\ memLog.mutable \in Nat /\ diskEnd \in Nat
        /\ memLog.start <= diskEnd /\ diskEnd <= memLog.mutable /\ memLog.mutable <= End(memLog)
    BY Numbers
  <2> QED
    BY <2>1, LogFacts, LogSzAssumption
<1>0. ASSUME Len(memLog'.log) >= Len(memLog.log), Len(memLog'.log) \in Nat, lpc' = lpc,
             Logger \in condInstall' => Logger \in condInstall
      PROVE  LoggerStuck'
  BY <1>0, <1>n DEF LoggerStuck, LogFull
<1>1. CASE LoggerWaitForSpace
  BY <1>1 DEF LoggerWaitForSpace, LoggerStuck, LogFull, stvars, logvars
<1>2. CASE LoggerNext /\ ~LoggerWaitForSpace
  <2>1. Logger \notin condInstall
    <3>1. Enter(Logger) \/ lpc # "space"
      BY <1>2 DEF LoggerNext, LoggerStart, LoggerLoop, LoggerExit, LoggerTake,
         LoggerIdle, LoggerBlock, LoggerBarrier, LoggerHdr, LoggerHdrBarrier, LoggerLogged
    <3> QED
      BY <3>1, EntersAwake DEF LoggerStuck
  <2>2. condInstall' \subseteq condInstall
    BY <1>2 DEF LoggerNext, LoggerStart, LoggerLoop, LoggerExit, LoggerTake, LoggerIdle,
       LoggerBlock, LoggerBarrier, LoggerHdr, LoggerHdrBarrier, LoggerLogged, LoggedBroadcasts, lockvars
  <2> QED
    BY <2>1, <2>2 DEF LoggerStuck
<1>3. CASE InstallCut
  BY <1>3 DEF InstallCut, LoggerStuck
<1>4. CASE InstallerNext /\ ~InstallCut
  <2>1. /\ UNCHANGED <<memLog, lpc>> /\ condInstall' \subseteq condInstall \cup {Installer}
    BY <1>4 DEF InstallerNext, InstallerStart, InstallerExit, InstallerTake, InstallerIdle,
       InstallBlock, InstallBarrier, InstallAdvance, InstallAdvanceBarrier,
       lockvars, stvars, logvars
  <2>2. Logger # Installer
    BY ThreadsDiffer
  <2> QED
    BY <1>0, <1>n, <2>1, <2>2
<1>5. ASSUME NEW c \in Client, Call(c) \/ ClientNext(c)
      PROVE  LoggerStuck'
  <2>1. lpc' = lpc /\ condInstall' = condInstall
    BY <1>5, ClientFrame, ClientSleeps
  <2>2. Len(memLog'.log) >= Len(memLog.log) /\ Len(memLog'.log) \in Nat
    <3>1. CASE MemWriteOne(c)
      <4> DEFINE u == req[c].bufs[req[c].next]
      <4>1. u \in Update /\ memLog' = MemWrite(memLog, u)
        BY <3>1, WriteEffect DEF MemWriteOne
      <4> HIDE DEF u
      <4>2. /\ memLog' \in SlidingType /\ memLog'.start = memLog.start
            /\ End(memLog') \in {End(memLog), End(memLog) + 1}
        BY <1>n, <4>1, MemWriteEffect
      <4>3. /\ End(memLog') = memLog'.start + Len(memLog'.log) /\ Len(memLog'.log) \in Nat
            /\ End(memLog) = memLog.start + Len(memLog.log) /\ memLog.start \in Nat
        BY <1>n, <4>2, LogFacts
      <4> QED
        BY <1>n, <4>2, <4>3
    <3>2. CASE MemAppendFull(c) \/ FlushStart(c)
      <4>1. memLog'.log = memLog.log
        BY <1>n, <3>2 DEF MemAppendFull, FlushStart, FlushRequest, SlidingType
      <4> QED
        BY <1>n, <4>1
    <3>3. CASE ~MemWriteOne(c) /\ ~MemAppendFull(c) /\ ~FlushStart(c)
      <4>1. memLog' = memLog
        BY <1>5, <3>3 DEF Call, CallMemAppend, CallFlush, CallRead, ClientNext, MemAppendFail,
           MemAppendStart, MemAppendDone, FlushSleep, FlushDone, ReadMemHit,
           ReadMemMiss, ReadInstalled, stvars
      <4> QED
        BY <1>n, <4>1
    <3> QED
      BY <3>1, <3>2, <3>3
  <2> QED
    BY <1>0, <2>1, <2>2
<1>6. CASE CallShutdown \/ ShutdownNext \/ Wakeup \/ UNCHANGED vars
  <2>1. UNCHANGED <<memLog, lpc>> /\ condInstall' \subseteq condInstall
    BY <1>6 DEF CallShutdown, ShutdownNext, ShutdownSleep, ShutdownDone, Wakeup, vars, stvars, logvars, lockvars
  <2> QED
    BY <1>0, <1>n, <2>1
<1>7. CASE Crash
  BY <1>7 DEF Crash, Recover, LoggerStuck
<1> QED
  BY <1>1, <1>2, <1>3, <1>4, <1>5, <1>6, <1>7 DEF Next, InstallerNext

(* The installer sleeps with everything durable installed; the logger wakes  *)
(* it when more is durable.                                                  *)
LEMMA InstallerAsleepStep ==
  ASSUME IInv, LogInv, SleepersPlaced, InstallerAsleep, [Next]_vars
  PROVE  InstallerAsleep'
<1>0. ASSUME memLog'.start = memLog.start, diskEnd' = diskEnd, ipc' = ipc,
             Installer \in condInstall' => Installer \in condInstall
      PROVE  InstallerAsleep'
  BY <1>0 DEF InstallerAsleep
<1>s. ~InstallCut /\ ~Crash => memLog'.start = memLog.start
  BY StartFrame
<1>1. CASE InstallerIdle
  <2>1. /\ TakeTillLen(memLog, diskEnd) = 0 /\ UNCHANGED <<memLog, diskEnd, ipc>> /\ ipc = "loop"
    BY <1>1 DEF InstallerIdle, InstallEnd, stvars, instvars
  <2>2. diskEnd = memLog.start
    BY <2>1, Numbers DEF TakeTillLen
  <2> QED
    BY <2>1, <2>2 DEF InstallerAsleep
<1>2. CASE InstallerNext /\ ~InstallerIdle
  <2>1. Installer \notin condInstall
    <3>1. Enter(Installer) \/ ipc # "loop"
      BY <1>2 DEF InstallerNext, InstallerStart, InstallerExit, InstallerTake,
         InstallBlock, InstallBarrier, InstallAdvance, InstallAdvanceBarrier, InstallCut
    <3> QED
      BY <3>1, EntersAwake DEF InstallerAsleep
  <2>2. condInstall' \subseteq condInstall
    BY <1>2 DEF InstallerNext, InstallerStart, InstallerExit, InstallerTake,
       InstallBlock, InstallBarrier, InstallAdvance, InstallAdvanceBarrier, InstallCut, lockvars
  <2> QED
    BY <2>1, <2>2 DEF InstallerAsleep
<1>3. CASE LoggerLogged
  BY <1>3 DEF LoggerLogged, LoggedBroadcasts, InstallerAsleep
<1>4. CASE LoggerNext /\ ~LoggerLogged
  <2>1. /\ UNCHANGED <<diskEnd, ipc>> /\ condInstall' \subseteq condInstall \cup {Logger}
    BY <1>4 DEF LoggerNext, LoggerStart, LoggerLoop, LoggerExit, LoggerWaitForSpace, LoggerTake,
       LoggerIdle, LoggerBlock, LoggerBarrier, LoggerHdr, LoggerHdrBarrier, lockvars, stvars, instvars
  <2>2. Logger # Installer
    BY ThreadsDiffer
  <2>3. memLog'.start = memLog.start
    <3>1. memLog' = memLog \/ memLog' = FlushIfNeeded(memLog)
      BY <1>4 DEF LoggerNext, LoggerStart, LoggerLoop, LoggerExit, LoggerWaitForSpace, LoggerTake,
         LoggerIdle, LoggerBlock, LoggerBarrier, LoggerHdr, LoggerHdrBarrier, stvars
    <3> QED
      BY <3>1, Numbers, FlushIfNeededEffect
  <2> QED
    BY <1>0, <2>1, <2>2, <2>3
<1>5. ASSUME NEW c \in Client, Call(c) \/ ClientNext(c)
      PROVE  InstallerAsleep'
  <2>1. diskEnd' = diskEnd /\ ipc' = ipc /\ condInstall' = condInstall
    BY <1>5, ClientFrame, ClientSleeps
  <2>2. ~InstallCut /\ ~Crash
    <3>1. ipc' = ipc /\ crashes' = crashes /\ crashes \in Nat
      BY <1>5, ClientFrame DEF IInv, TypeOK
    <3> QED
      BY <3>1 DEF InstallCut, Crash
  <2> QED
    BY <1>0, <1>s, <2>1, <2>2
<1>6. CASE CallShutdown \/ ShutdownNext \/ Wakeup \/ UNCHANGED vars
  <2>1. UNCHANGED <<memLog, diskEnd, ipc>> /\ condInstall' \subseteq condInstall
    BY <1>6 DEF CallShutdown, ShutdownNext, ShutdownSleep, ShutdownDone, Wakeup, vars, stvars, instvars, lockvars
  <2> QED
    BY <1>0, <2>1
<1>7. CASE Crash
  BY <1>7 DEF Crash, Recover, InstallerAsleep
<1> QED
  BY <1>1, <1>2, <1>3, <1>4, <1>5, <1>6, <1>7 DEF Next

(* Shutdown sleeps while a thread is left; a thread that exits wakes it, and *)
(* one that starts does not end the wait.                                    *)
LEMMA StopperAsleepStep ==
  ASSUME IInv, SleepersPlaced, StopperAsleep, [Next]_vars
  PROVE  StopperAsleep'
<1>n. nthread \in Nat
  BY DEF IInv, TypeOK
<1>0. ASSUME nthread' = nthread \/ nthread' = nthread + 1, spc' = spc,
             Stopper \in condShut' => Stopper \in condShut
      PROVE  StopperAsleep'
  BY <1>0, <1>n DEF StopperAsleep, AllStopped
<1>1. CASE LoggerExit \/ InstallerExit
  BY <1>1 DEF LoggerExit, InstallerExit, ThreadExit, StopperAsleep
<1>2. CASE LoggerNext /\ ~LoggerExit
  <2>1. (nthread' = nthread \/ nthread' = nthread + 1) /\ spc' = spc /\ condShut' = condShut
    BY <1>2 DEF LoggerNext, LoggerStart, LoggerLoop, LoggerWaitForSpace, LoggerTake, LoggerIdle,
       LoggerBlock, LoggerBarrier, LoggerHdr, LoggerHdrBarrier, LoggerLogged, ThreadStart, lockvars, stvars
  <2> QED
    BY <1>0, <2>1
<1>3. CASE InstallerNext /\ ~InstallerExit
  <2>1. (nthread' = nthread \/ nthread' = nthread + 1) /\ spc' = spc /\ condShut' = condShut
    BY <1>3 DEF InstallerNext, InstallerStart, InstallerTake, InstallerIdle, InstallBlock,
       InstallBarrier, InstallAdvance, InstallAdvanceBarrier, InstallCut, ThreadStart, lockvars, stvars
  <2> QED
    BY <1>0, <2>1
<1>4. ASSUME NEW c \in Client, Call(c) \/ ClientNext(c)
      PROVE  StopperAsleep'
  BY <1>0, <1>4, ClientFrame, ClientSleeps
<1>5. CASE CallShutdown \/ ShutdownDone
  <2>1. Stopper \notin condShut /\ condShut' = condShut
    <3>1. Enter(Stopper) /\ condShut' = condShut
      BY <1>5 DEF CallShutdown, ShutdownDone
    <3> QED
      BY <3>1, EntersAwake
  <2> QED
    BY <2>1 DEF StopperAsleep
<1>6. CASE ShutdownSleep
  BY <1>6 DEF ShutdownSleep, StopperAsleep, AllStopped, stvars
<1>7. CASE Wakeup \/ UNCHANGED vars
  <2>1. UNCHANGED <<nthread, spc>> /\ condShut' \subseteq condShut
    BY <1>7 DEF Wakeup, vars, stvars, lockvars
  <2> QED
    BY <1>0, <2>1
<1>8. CASE Crash
  BY <1>8 DEF Crash, Recover, StopperAsleep
<1> QED
  BY <1>1, <1>2, <1>3, <1>4, <1>5, <1>6, <1>7, <1>8 DEF Next, ShutdownNext

(* A client sleeps in MemAppend for want of space, or in Flush for a position *)
(* that is not durable.                                                       *)
ClientAsleep(c) ==
  c \in condLogger =>
    /\ cpc[c] \in {"append", "flushWait"}
    /\ cpc[c] = "append" => ~MemLogHasSpace(Len(req[c].bufs))
    /\ cpc[c] = "flushWait" => req[c].pos > diskEnd

\* a step that leaves client c where it is, unless it wakes it
SameClient(c) ==
  /\ cpc'[c] = cpc[c] /\ req'[c].pos = req[c].pos /\ req'[c].bufs = req[c].bufs
  /\ c \in condLogger' => c \in condLogger /\ diskEnd' = diskEnd

(* Short of a crash, a client stays where it is, is at a place where nothing *)
(* is asked of the log, or takes one of four steps.                          *)
LEMMA ClientMoves ==
  ASSUME IInv, SleepersPlaced, NEW c \in Client, [Next]_vars, ~Crash
  PROVE  \/ SameClient(c)
         \/ c \notin condLogger' /\ cpc'[c] \notin {"flush", "flushWait"}
         \/ CallFlush(c) \/ FlushStart(c) \/ FlushSleep(c) \/ MemAppendFull(c)
<1>t. TypeOK /\ cpc \in [Client -> ClientPc] /\ DOMAIN req = Client
  BY DEF IInv, TypeOK
<1>d. c # Logger
  BY ThreadsDiffer
<1>1. CASE LoggerNext
  <2>1. UNCHANGED <<cpc, req>>
    BY <1>1, OthersFrame
  <2>2. c \in condLogger' => c \in condLogger /\ diskEnd' = diskEnd
    BY <1>1, <1>d DEF LoggerNext, LoggerStart, LoggerLoop, LoggerExit, LoggerWaitForSpace, LoggerTake,
       LoggerIdle, LoggerBlock, LoggerBarrier, LoggerHdr, LoggerHdrBarrier, LoggerLogged,
       LoggedBroadcasts, lockvars, stvars
  <2> QED
    BY <2>1, <2>2 DEF SameClient
<1>2. CASE InstallerNext \/ CallShutdown \/ ShutdownNext \/ Wakeup
  <2>1. UNCHANGED <<cpc, req>>
    BY <1>2, OthersFrame
  <2>2. condLogger' \subseteq condLogger /\ diskEnd' = diskEnd
    BY <1>2 DEF InstallerNext, InstallerStart, InstallerExit, InstallerTake, InstallerIdle,
       InstallBlock, InstallBarrier, InstallAdvance, InstallAdvanceBarrier, InstallCut,
       CallShutdown, ShutdownNext, ShutdownSleep, ShutdownDone, Wakeup, lockvars, stvars
  <2> QED
    BY <2>1, <2>2 DEF SameClient
<1>3. ASSUME NEW d \in Client, d # c, Call(d) \/ ClientNext(d)
      PROVE  SameClient(c)
  <2>1. cpc'[c] = cpc[c] /\ req'[c] = req[c]
    BY <1>3, <1>t, ClientLocals
  <2>2. condLogger' \subseteq condLogger \cup {d} /\ diskEnd' = diskEnd
    BY <1>3, ClientSleeps, ClientFrame
  <2> QED
    BY <1>3, <2>1, <2>2 DEF SameClient
<1>4. CASE MemAppendFail(c) \/ MemAppendStart(c) \/ FlushDone(c) \/ ReadMemHit(c) \/ ReadMemMiss(c)
  <2>1. Enter(c) /\ condLogger' = condLogger
    BY <1>4 DEF MemAppendFail, MemAppendStart, FlushDone, ReadMemHit, ReadMemMiss
  <2>2. cpc'[c] \in {"idle", "memWrite", "readInstalled"}
    BY <1>4, <1>t DEF MemAppendFail, MemAppendStart, FlushDone, ReadMemHit, ReadMemMiss, Return
  <2>3. c \notin condLogger'
    BY <2>1, EntersAwake
  <2> QED
    BY <2>2, <2>3
<1>5. CASE CallMemAppend(c) \/ CallRead(c) \/ ReadInstalled(c) \/ MemWriteOne(c) \/ MemAppendDone(c)
  <2>1. cpc[c] \in {"idle", "readInstalled", "memWrite"} /\ condLogger' = condLogger
    BY <1>5 DEF CallMemAppend, CallRead, ReadInstalled, MemWriteOne, MemAppendDone, lockvars
  <2>2. cpc'[c] \in {"append", "read", "idle", "memWrite"}
    BY <1>5, <1>t DEF CallMemAppend, CallRead, ReadInstalled, MemWriteOne, MemAppendDone, Return
  <2>3. c \notin condLogger'
    BY <2>1 DEF SleepersPlaced
  <2> QED
    BY <2>2, <2>3
<1>6. CASE Call(c) \/ ClientNext(c)
  BY <1>4, <1>5, <1>6 DEF Call, ClientNext
<1>7. CASE UNCHANGED vars
  BY <1>7 DEF vars, clivars, lockvars, stvars, SameClient
<1> QED
  BY <1>1, <1>2, <1>3, <1>6, <1>7 DEF Next

(* What a client that stays where it is waits for, the logger knows of, and  *)
(* has not yet brought about.                                                *)
LEMMA SameClientStep ==
  ASSUME IInv, IInv', LogInv, NEW c \in Client, ClientAsleep(c), Told(c),
         [Next]_vars, ~Crash, SameClient(c)
  PROVE  ClientAsleep(c)' /\ Told(c)'
<1>g. /\ End(memLog) <= End(memLog') /\ memLog.mutable <= memLog'.mutable
      /\ End(memLog') \in Nat /\ memLog'.mutable \in Nat
      /\ memLog.needFlush => memLog'.needFlush \/ memLog'.mutable = End(memLog')
  BY LogGrows
<1>n. End(memLog) \in Nat /\ memLog.mutable \in Nat /\ diskEnd \in Nat /\ LOGSZ \in Nat
  BY Numbers, LogSzAssumption
<1>r. req[c].pos \in Nat /\ req[c].bufs \in Seq(Update)
      /\ (cpc[c] = "append" => Len(req[c].bufs) <= LOGSZ)
  BY DEF IInv, TypeOK, PositionsInv, AppendReserved, Reserved
<1>p. PICK p \in Nat : p = req[c].pos
  BY <1>r
<1>k. PICK k \in Nat : k = Len(req[c].bufs)
  BY <1>r
<1>c. cpc'[c] = cpc[c] /\ req'[c].pos = p /\ Len(req'[c].bufs) = k
      /\ (c \in condLogger' => c \in condLogger /\ diskEnd' = diskEnd)
  BY <1>p, <1>k DEF SameClient
<1>e. PICK e \in Nat, f \in Nat, m \in Nat, h \in Nat, d \in Nat :
        /\ e = End(memLog) /\ f = End(memLog') /\ m = memLog.mutable /\ h = memLog'.mutable /\ d = diskEnd
  BY <1>g, <1>n
<1>f. /\ e <= f /\ m <= h
      /\ memLog.needFlush => memLog'.needFlush \/ h = f
  BY <1>e, <1>g
<1>1. ASSUME c \in condLogger'
      PROVE  /\ cpc'[c] \in {"append", "flushWait"}
             /\ cpc'[c] = "append" => /\ f - diskEnd' + k > LOGSZ
                                      /\ memLog'.needFlush \/ h > diskEnd'
             /\ cpc'[c] = "flushWait" => p > diskEnd'
  <2>1. diskEnd' = d /\ c \in condLogger
    BY <1>1, <1>c, <1>e
  <2>2. /\ cpc[c] \in {"append", "flushWait"}
        /\ cpc[c] = "append" => ~(e - d + k <= LOGSZ)
        /\ cpc[c] = "flushWait" => p > d
    BY <2>1, <1>p, <1>k, <1>e DEF ClientAsleep, MemLogHasSpace
  <2>3. cpc[c] = "append" => k <= LOGSZ /\ (memLog.needFlush \/ m > d)
    BY <2>1, <1>k, <1>r, <1>e DEF Told
  <2>4. ASSUME cpc[c] = "append"
        PROVE  f - d + k > LOGSZ /\ (memLog'.needFlush \/ h > d)
    <3>1. ~(e - d + k <= LOGSZ) /\ k <= LOGSZ
      BY <2>2, <2>3, <2>4
    <3>2. f - d + k > LOGSZ /\ f > d
      BY ONLY <3>1, <1>f, <1>n
    <3>3. memLog.needFlush \/ m > d
      BY <2>3, <2>4
    <3>4. m > d => h > d
      BY ONLY <1>f
    <3>5. h = f => h > d
      BY <3>2
    <3> QED
      BY ONLY <1>f, <3>2, <3>3, <3>4, <3>5
  <2> QED
    BY ONLY <1>c, <2>1, <2>2, <2>4
<1>2. /\ cpc'[c] \in {"flush", "flushWait"} => p <= f
      /\ cpc'[c] = "flushWait" => memLog'.needFlush \/ p <= h
  <2>1. /\ cpc[c] \in {"flush", "flushWait"} => p <= e
        /\ cpc[c] = "flushWait" => memLog.needFlush \/ p <= m
    BY <1>p, <1>e DEF Told
  <2>2. (p <= e => p <= f) /\ (p <= m => p <= h)
    BY ONLY <1>f
  <2>3. h = f /\ p <= f => p <= h
    OBVIOUS
  <2> QED
    BY ONLY <1>c, <1>f, <2>1, <2>2, <2>3
<1>3. ClientAsleep(c)'
  <2>1. ClientAsleep(c)' <=> (c \in condLogger' =>
          /\ cpc'[c] \in {"append", "flushWait"}
          /\ cpc'[c] = "append" => ~(f - diskEnd' + k <= LOGSZ)
          /\ cpc'[c] = "flushWait" => p > diskEnd')
    BY <1>c, <1>e DEF ClientAsleep, MemLogHasSpace
  <2>2. diskEnd' \in Nat
    BY DEF IInv, TypeOK
  <2>3. f - diskEnd' + k > LOGSZ => ~(f - diskEnd' + k <= LOGSZ)
    <3>1. PICK y \in Nat : y = diskEnd'
      BY <2>2
    <3>2. LOGSZ \in Nat
      BY LogSzAssumption
    <3>3. f - y + k > LOGSZ => ~(f - y + k <= LOGSZ)
      BY ONLY <3>2
    <3> QED
      BY <3>1, <3>3
  <2> QED
    BY ONLY <2>1, <2>3, <1>1
<1>4. Told(c)'
  <2>1. Told(c)' <=>
          /\ cpc'[c] \in {"flush", "flushWait"} => p <= f
          /\ cpc'[c] = "flushWait" => memLog'.needFlush \/ p <= h
          /\ c \in condLogger' /\ cpc'[c] = "append" => memLog'.needFlush \/ h > diskEnd'
    BY <1>c, <1>e DEF Told
  <2> QED
    BY ONLY <2>1, <1>1, <1>2
<1> QED
  BY <1>3, <1>4

(* A client tells the logger before it goes to sleep. *)
LEMMA OwnStep ==
  ASSUME IInv, IInv', DInv, SleepersPlaced, NEW c \in Client, ClientAsleep(c), Told(c),
         CallFlush(c) \/ FlushStart(c) \/ FlushSleep(c) \/ MemAppendFull(c)
  PROVE  ClientAsleep(c)' /\ Told(c)'
<1>n. /\ memLog \in SlidingType /\ End(memLog) \in Nat /\ memLog.mutable \in Nat /\ diskEnd \in Nat
  BY Numbers
<1>t. /\ cpc \in [Client -> ClientPc] /\ req[c].pos \in Nat
      /\ req \in [Client -> [bufs : Seq(Update), next : Nat, pos : Nat, addr : Addr \cup {NoAddr}]]
  BY DEF IInv, TypeOK
<1>1. CASE CallFlush(c)
  <2>1. PICK n \in DOMAIN txns : req' = [req EXCEPT ![c].pos = txns[n].pos]
    BY <1>1 DEF CallFlush
  <2>2. /\ cpc[c] = "idle" /\ cpc'[c] = "flush" /\ memLog' = memLog /\ condLogger' = condLogger
    BY <1>1, <1>t DEF CallFlush, lockvars, stvars
  <2>3. req'[c].pos = txns[n].pos
    BY <2>1, <1>t
  <2>4. txns[n].pos <= End(memLog)
    <3>1. Ordered(txns) /\ txns[Len(txns)].pos <= End(memLog) /\ txns \in Seq(Txn) /\ Len(txns) >= 1
      BY DEF DInv, TxnsInv, Effect, IInv, TypeOK, FirstTxn
    <3>2. n \in DOMAIN txns /\ Len(txns) \in DOMAIN txns /\ n <= Len(txns)
      BY <3>1
    <3>3. txns[n].pos <= txns[Len(txns)].pos
      BY <3>1, <3>2 DEF Ordered
    <3>4. txns[n].pos \in Nat /\ txns[Len(txns)].pos \in Nat
      <4>1. txns[n] \in Txn /\ txns[Len(txns)] \in Txn
        BY <3>1, <3>2
      <4> QED
        BY <4>1 DEF Txn
    <3> QED
      BY <1>n, <3>1, <3>3, <3>4
  <2>5. c \notin condLogger'
    BY <2>2 DEF ClientAsleep
  <2> QED
    BY <2>2, <2>3, <2>4, <2>5 DEF ClientAsleep, Told
<1>2. CASE FlushStart(c)
  <2>1. /\ condLogger' = {} /\ memLog' = FlushRequest(memLog, req[c].pos) /\ req' = req
        /\ cpc[c] = "flush" /\ cpc'[c] = "flushWait"
    BY <1>2, <1>t DEF FlushStart
  <2>2. /\ memLog'.needFlush = (memLog.needFlush \/ req[c].pos > memLog.mutable)
        /\ memLog'.mutable = memLog.mutable /\ End(memLog') = End(memLog)
    BY <1>n, <2>1, RequestEffect DEF FlushRequest
  <2>3. req[c].pos <= End(memLog)
    BY <2>1 DEF Told
  <2>4. memLog'.needFlush \/ req[c].pos <= memLog.mutable
    <3>1. req[c].pos > memLog.mutable \/ req[c].pos <= memLog.mutable
      BY <1>n, <1>t
    <3> QED
      BY ONLY <2>2, <3>1
  <2> QED
    BY <2>1, <2>2, <2>3, <2>4 DEF ClientAsleep, Told
<1>3. CASE FlushSleep(c)
  <2>1. /\ UNCHANGED <<memLog, diskEnd, cpc, req>> /\ cpc[c] = "flushWait" /\ req[c].pos > diskEnd
    BY <1>3 DEF FlushSleep, stvars, clivars
  <2> QED
    BY <2>1 DEF ClientAsleep, Told
<1>4. CASE MemAppendFull(c)
  <2>1. /\ UNCHANGED <<diskEnd, cpc, req>> /\ cpc[c] = "append" /\ ~MemLogHasSpace(Len(req[c].bufs))
        /\ memLog' = [memLog EXCEPT !.needFlush = TRUE]
    BY <1>4 DEF MemAppendFull, clivars
  <2>2. memLog'.needFlush /\ memLog'.mutable = memLog.mutable /\ End(memLog') = End(memLog)
    BY <1>n, <2>1, RequestEffect
  <2> QED
    BY <2>1, <2>2 DEF ClientAsleep, Told, MemLogHasSpace
<1> QED
  BY <1>1, <1>2, <1>3, <1>4

(* A client anywhere else is awake and asks nothing. *)
LEMMA ClientTold ==
  ASSUME IInv, IInv', DInv, SleepersPlaced, NEW c \in Client, ClientAsleep(c), Told(c),
         [Next]_vars, ~Crash
  PROVE  ClientAsleep(c)' /\ Told(c)'
<1>1. CASE SameClient(c)
  BY <1>1, SameClientStep DEF DInv
<1>2. CASE c \notin condLogger' /\ cpc'[c] \notin {"flush", "flushWait"}
  BY <1>2 DEF ClientAsleep, Told
<1>3. CASE CallFlush(c) \/ FlushStart(c) \/ FlushSleep(c) \/ MemAppendFull(c)
  BY <1>3, OwnStep
<1> QED
  BY <1>1, <1>2, <1>3, ClientMoves

(* Who may sleep where, and that a thread only ends after Shutdown.          *)
SleepersNamed ==
  /\ condLogger \subseteq {Logger} \cup Client
  /\ condInstall \subseteq {Logger, Installer}
  /\ condShut \subseteq {Stopper}
  /\ lpc = "done" \/ ipc = "done" => shutdown

(* Every step keeps them. *)
LEMMA SleepersNamedStep ==
  ASSUME SleepersNamed, [Next]_vars
  PROVE  SleepersNamed'
<1>1. CASE LoggerNext
  BY <1>1 DEF SleepersNamed, LoggerNext, LoggerStart, LoggerLoop, LoggerExit, LoggerWaitForSpace,
     LoggerTake, LoggerIdle, LoggerBlock, LoggerBarrier, LoggerHdr, LoggerHdrBarrier, LoggerLogged,
     LoggedBroadcasts, ThreadExit, lockvars, stvars, logvars, instvars
<1>2. CASE InstallerNext
  BY <1>2 DEF SleepersNamed, InstallerNext, InstallerStart, InstallerExit, InstallerTake, InstallerIdle,
     InstallBlock, InstallBarrier, InstallAdvance, InstallAdvanceBarrier, InstallCut,
     ThreadExit, lockvars, stvars, logvars, instvars
<1>3. ASSUME NEW c \in Client, Call(c) \/ ClientNext(c)
      PROVE  SleepersNamed'
  BY <1>3, ClientFrame, ClientSleeps DEF SleepersNamed
<1>4. CASE CallShutdown \/ ShutdownNext \/ Wakeup \/ UNCHANGED vars
  BY <1>4 DEF SleepersNamed, CallShutdown, ShutdownNext, ShutdownSleep, ShutdownDone, Wakeup, vars,
     lockvars, stvars, logvars, instvars
<1>5. CASE Crash
  BY <1>5 DEF Crash, Recover, SleepersNamed
<1> QED
  BY <1>1, <1>2, <1>3, <1>4, <1>5 DEF Next

(* WakeInv, thread by thread. *)
LEMMA WakeParts ==
  WakeInv <=> /\ memLock \notin Asleep /\ SleepersNamed
              /\ LoggerAsleep /\ LoggerStuck /\ InstallerAsleep /\ StopperAsleep
              /\ \A c \in Client : ClientAsleep(c) /\ Told(c)
BY DEF WakeInv, SleepersPlaced, SleepersNamed, LoggerTold, NoLostWakeup, LoggerAsleep, LoggerStuck,
       InstallerAsleep, StopperAsleep, ClientAsleep

(* At the start nobody sleeps. *)
LEMMA InitWake == Init => WakeInv
<1> SUFFICES ASSUME Init PROVE WakeInv
  OBVIOUS
<1>1. memLock = Free /\ condLogger = {} /\ condInstall = {} /\ condShut = {} /\ lpc = "start" /\ ipc = "start"
      /\ \A c \in Client : cpc[c] = "idle"
  BY DEF Init
<1> QED
  BY <1>1, WakeParts DEF Asleep, SleepersNamed, LoggerAsleep, LoggerStuck, InstallerAsleep, StopperAsleep,
     ClientAsleep, Told

(* Every step keeps it. *)
LEMMA NextWake == IInv /\ IInv' /\ DInv /\ WakeInv /\ [Next]_vars => WakeInv'
<1> SUFFICES ASSUME IInv, IInv', DInv, WakeInv, [Next]_vars PROVE WakeInv'
  OBVIOUS
<1>1. /\ SleepersPlaced /\ SleepersNamed /\ LogInv /\ TypeOK'
      /\ LoggerAsleep /\ LoggerStuck /\ InstallerAsleep /\ StopperAsleep
      /\ \A c \in Client : ClientAsleep(c) /\ Told(c)
  BY WakeParts DEF WakeInv, DInv, IInv
<1>2. (memLock \notin Asleep)' /\ SleepersNamed'
  BY <1>1, HolderAwake, SleepersNamedStep
<1>3. LoggerAsleep' /\ LoggerStuck' /\ InstallerAsleep' /\ StopperAsleep'
  BY <1>1, LoggerAsleepStep, LoggerStuckStep, InstallerAsleepStep, StopperAsleepStep
<1>4. \A c \in Client : ClientAsleep(c)' /\ Told(c)'
  <2> SUFFICES ASSUME NEW c \in Client PROVE ClientAsleep(c)' /\ Told(c)'
    OBVIOUS
  <2>1. CASE ~Crash
    BY <1>1, <2>1, ClientTold
  <2>2. CASE Crash
    <3>1. condLogger' = {} /\ cpc'[c] = "idle"
      BY <2>2 DEF Crash, Recover
    <3> QED
      BY <3>1 DEF ClientAsleep, Told
  <2> QED
    BY <2>1, <2>2
<1> QED
  BY ONLY <1>2, <1>3, <1>4 DEF WakeInv, SleepersPlaced, SleepersNamed, LoggerTold, NoLostWakeup,
     LoggerAsleep, LoggerStuck, InstallerAsleep, StopperAsleep, ClientAsleep

(* All three invariants together hold always. *)
LEMMA Sleep == Spec => [](IInv /\ WakeInv)
<1>1. (IInv /\ IInv' /\ DInv /\ WakeInv /\ [Next]_vars) => WakeInv'
  BY NextWake
<1> QED
  BY <1>1, InitWake, Contents, PTL DEF Spec

(* However the threads and the clients interleave, crash and come back, and  *)
(* whenever Shutdown is called, nobody sleeps on a condition variable once   *)
(* what it waits for is there: no Broadcast or Signal of wal.v is missing.   *)
THEOREM WakeupsNeverLost == Spec => []NoLostWakeup
<1>1. WakeInv => NoLostWakeup
  BY DEF WakeInv
<1> QED
  BY <1>1, Sleep, PTL

(* The threads never wait for each other in a circle before Shutdown is      *)
(* called: a sleeping client has a logger that is awake or waits for space,  *)
(* and a logger that waits for space has an installer that is awake.         *)
THEOREM SomebodyAlwaysWorks == Spec => []SomebodyWorks
<1>1. IInv /\ WakeInv => SomebodyWorks
  <2> SUFFICES ASSUME IInv, WakeInv, ~shutdown
               PROVE  /\ condLogger \cap Client # {} => Logger \notin condLogger /\ lpc # "done"
                      /\ Logger \in condInstall => Installer \notin condInstall /\ ipc # "done"
    BY DEF SomebodyWorks
  <2>p. /\ SleepersNamed /\ LoggerAsleep /\ LoggerStuck /\ InstallerAsleep
        /\ \A c \in Client : ClientAsleep(c) /\ Told(c)
    BY WakeParts
  <2>n. /\ memLog \in SlidingType /\ memLog.start \in Nat /\ memLog.mutable \in Nat
        /\ End(memLog) \in Nat /\ diskEnd \in Nat /\ LOGSZ \in Nat
    BY Numbers, LogSzAssumption
  <2>1. lpc # "done" /\ ipc # "done"
    BY <2>p DEF SleepersNamed
  <2>2. ASSUME NEW c \in condLogger \cap Client, Logger \in condLogger
        PROVE  FALSE
    <3>1. ~memLog.needFlush /\ memLog.mutable = diskEnd
      BY <2>2, <2>p DEF LoggerAsleep
    <3>2. ClientAsleep(c) /\ Told(c) /\ c \in condLogger /\ c \in Client
      BY <2>2, <2>p
    <3>3. CASE cpc[c] = "append"
      <4>1. memLog.mutable > diskEnd
        BY <3>1, <3>2, <3>3 DEF Told
      <4> QED
        BY ONLY <2>n, <3>1, <4>1
    <3>4. CASE cpc[c] = "flushWait"
      <4>1. req[c].pos <= memLog.mutable /\ req[c].pos > diskEnd
        BY <3>1, <3>2, <3>4 DEF Told, ClientAsleep
      <4>2. req[c].pos \in Nat
        BY <3>2 DEF IInv, TypeOK
      <4> QED
        BY ONLY <2>n, <3>1, <4>1, <4>2
    <3> QED
      BY <3>2, <3>3, <3>4 DEF ClientAsleep
  <2>3. ASSUME Logger \in condInstall, Installer \in condInstall
        PROVE  FALSE
    <3>1. Len(memLog.log) > LOGSZ /\ diskEnd = memLog.start
      BY <2>3, <2>p DEF LoggerStuck, LogFull, InstallerAsleep
    <3>2. End(memLog) = memLog.start + Len(memLog.log) /\ Len(memLog.log) \in Nat
      BY <2>n, LogFacts
    <3>3. End(memLog) - diskEnd <= LOGSZ
      BY DEF IInv, PositionsInv, UnloggedFits
    <3> QED
      BY ONLY <2>n, <3>1, <3>2, <3>3
  <2> QED
    BY <2>1, <2>2, <2>3
<1> QED
  BY <1>1, Sleep, PTL
=============================================================================
