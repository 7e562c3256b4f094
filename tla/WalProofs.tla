----------------------------- MODULE WalProofs -----------------------------
(* Theorems about the write-ahead log, for every number of clients, log      *)
(* size, width of positions and set of writes.                               *)
EXTENDS WalInv, SequenceTheorems, WellFoundedInduction, TLAPS

-----------------------------------------------------------------------------
(* What the operations of the in-memory log preserve, for every log.         *)

(* A nonempty set of bounded naturals has its maximum as a member: the       *)
(* CHOOSE in Max, on which LastPos and the transaction history rest, is met. *)
LEMMA MaxProperty ==
  ASSUME NEW S, NEW n \in Nat, S \subseteq 0..n, S # {}
  PROVE  Max(S) \in S /\ \A y \in S : y <= Max(S)
<1> DEFINE T == {n - y : y \in S}
<1>1. T \subseteq Nat /\ T # {}
  <2>1. \A y \in S : n - y \in Nat
    OBVIOUS
  <2>2. PICK y \in S : TRUE
    OBVIOUS
  <2>3. n - y \in T
    OBVIOUS
  <2> QED
    BY <2>1, <2>3
<1>2. PICK x \in T : \A y \in T : ~(<<y, x>> \in OpToRel(<, Nat))
  <2> HIDE DEF T
  <2> QED
    BY <1>1, NatLessThanWellFounded, WFMin
<1>3. PICK m \in S : x = n - m
  OBVIOUS
<1>4. \A y \in S : m >= y
  <2> TAKE y \in S
  <2>1. n - y \in T /\ n - y \in Nat /\ x \in Nat
    BY <1>1
  <2>2. ~(n - y < x)
    BY <1>2, <2>1 DEF OpToRel
  <2> QED
    BY <2>2, <1>3
<1> QED
  BY <1>4 DEF Max

(* addrPos of a log is NoPos or a position inside it. *)
LEMMA LastPosType ==
  ASSUME NEW log \in Seq(Update), NEW start \in Nat, NEW a
  PROVE  LastPos(log, start, a) \in Nat \cup {NoPos}
<1> DEFINE at == { i \in DOMAIN log : log[i].Addr = a }
<1>1. CASE at = {}
  BY <1>1 DEF LastPos
<1>2. CASE at # {}
  <2>1. at \subseteq 0 .. Len(log) /\ at \subseteq 1 .. Len(log) /\ Len(log) \in Nat
    OBVIOUS
  <2> HIDE DEF at
  <2>2. Max(at) \in 1 .. Len(log)
    BY <1>2, <2>1, MaxProperty
  <2>3. start + Max(at) - 1 \in Nat
    BY <2>1, <2>2
  <2> QED
    BY <1>2, <2>3 DEF LastPos, at
<1> QED
  BY <1>1, <1>2

(* A recovered log is a well-formed one, read-only throughout. *)
LEMMA MkSlidingType ==
  ASSUME NEW log \in Seq(Update), NEW start \in Nat
  PROVE  /\ MkSliding(log, start) \in SlidingType
         /\ MkSliding(log, start).start = start
         /\ MkSliding(log, start).mutable = start + Len(log)
         /\ End(MkSliding(log, start)) = start + Len(log)
<1>1. [a \in Addr |-> LastPos(log, start, a)] \in [Addr -> Nat \cup {NoPos}]
  BY LastPosType
<1>2. Len(log) \in Nat
  OBVIOUS
<1> HIDE DEF NoPos
<1> QED
  BY <1>1, <1>2 DEF MkSliding, SlidingType, End

(* memWrite of one update: absorbed, or one position longer; the read-only   *)
(* part stays as it was.                                                     *)
LEMMA MemWriteEffect ==
  ASSUME NEW s \in SlidingType, NEW u \in Update,
         s.start <= s.mutable, s.mutable <= End(s)
  PROVE  /\ MemWrite(s, u) \in SlidingType
         /\ MemWrite(s, u).start = s.start
         /\ MemWrite(s, u).mutable = s.mutable
         /\ End(MemWrite(s, u)) \in {End(s), End(s) + 1}
         /\ \A p \in s.start .. s.mutable - 1 : Get(MemWrite(s, u), p) = Get(s, p)
<1>0. /\ s.log \in Seq(Update) /\ Len(s.log) \in Nat
      /\ s.start \in Nat /\ s.mutable \in Nat /\ s.addrPos \in [Addr -> Nat \cup {NoPos}]
      /\ u.Addr \in Addr
  BY DEF SlidingType, Update
<1>1. CASE Absorbable(s, u)
  <2> DEFINE i == s.addrPos[u.Addr] - s.start + 1
             l == [s.log EXCEPT ![i] = u]
  <2>1. i \in Int /\ i > s.mutable - s.start
    BY <1>0, <1>1 DEF Absorbable, NoPos
  <2>2. MemWrite(s, u) = [s EXCEPT !.log = l]
    BY <1>1 DEF MemWrite, UpdateAt
  <2> HIDE DEF i
  <2>3. l \in Seq(Update) /\ Len(l) = Len(s.log) /\ \A j \in 1 .. Len(s.log) : j # i => l[j] = s.log[j]
    <3>1. CASE i \in 1 .. Len(s.log)
      BY <3>1, <1>0, ExceptSeq
    <3>2. CASE i \notin 1 .. Len(s.log)
      <4>1. s.log \in [1 .. Len(s.log) -> Update]
        BY <1>0, LenProperties
      <4>2. l = s.log
        BY <4>1, <3>2
      <4> QED
        BY <4>2, <1>0
    <3> QED
      BY <3>1, <3>2
  <2> HIDE DEF l
  <2>4. MemWrite(s, u) \in SlidingType
    BY <2>2, <2>3 DEF SlidingType
  <2>5. MemWrite(s, u).start = s.start /\ MemWrite(s, u).mutable = s.mutable /\ MemWrite(s, u).log = l
    BY <2>2 DEF SlidingType
  <2>6. \A p \in s.start .. s.mutable - 1 : Get(MemWrite(s, u), p) = Get(s, p)
    <3> TAKE p \in s.start .. s.mutable - 1
    <3>1. p - s.start + 1 \in 1 .. Len(s.log) /\ p - s.start + 1 # i
      <4>1. /\ s.start \in Int /\ s.mutable \in Int /\ Len(s.log) \in Int /\ p \in Int
            /\ s.mutable <= s.start + Len(s.log) /\ s.start <= p /\ p < s.mutable
        BY <1>0 DEF End
      <4> QED
        BY ONLY <4>1, <2>1
    <3> QED
      BY <3>1, <2>3, <2>5 DEF Get
  <2> QED
    BY <2>3, <2>4, <2>5, <2>6 DEF End
<1>2. CASE ~Absorbable(s, u)
  <2> DEFINE l == Append(s.log, u)
             m == [s.addrPos EXCEPT ![u.Addr] = End(s)]
  <2>1. MemWrite(s, u) = [s EXCEPT !.log = l, !.addrPos = m]
    BY <1>2 DEF MemWrite, AppendUpdate
  <2>2. l \in Seq(Update) /\ Len(l) = Len(s.log) + 1 /\ \A j \in 1 .. Len(s.log) : l[j] = s.log[j]
    BY <1>0
  <2>3. m \in [Addr -> Nat \cup {NoPos}]
    BY <1>0 DEF End
  <2> HIDE DEF l, m
  <2>4. MemWrite(s, u) \in SlidingType
    BY <2>1, <2>2, <2>3 DEF SlidingType
  <2>5. MemWrite(s, u).start = s.start /\ MemWrite(s, u).mutable = s.mutable /\ MemWrite(s, u).log = l
    BY <2>1 DEF SlidingType
  <2>6. End(MemWrite(s, u)) = End(s) + 1
    <3>1. End(MemWrite(s, u)) = s.start + Len(l)
      BY <2>5 DEF End
    <3> QED
      BY <1>0, <2>2, <3>1 DEF End
  <2>7. \A p \in s.start .. s.mutable - 1 : Get(MemWrite(s, u), p) = Get(s, p)
    <3> TAKE p \in s.start .. s.mutable - 1
    <3>1. p - s.start + 1 \in 1 .. Len(s.log)
      BY <1>0, SMTT(30) DEF End
    <3> QED
      BY <3>1, <2>2, <2>5 DEF Get
  <2> QED
    BY <2>4, <2>5, <2>6, <2>7
<1> QED
  BY <1>1, <1>2

(* deleteFrom moves the start and leaves the end and the read-only bound.    *)
LEMMA DeleteFromEffect ==
  ASSUME NEW s \in SlidingType, NEW n \in Nat, s.start <= n, n <= End(s)
  PROVE  /\ DeleteFrom(s, n) \in SlidingType
         /\ DeleteFrom(s, n).start = n
         /\ DeleteFrom(s, n).mutable = s.mutable
         /\ End(DeleteFrom(s, n)) = End(s)
         /\ \A p \in n .. End(s) - 1 : Get(DeleteFrom(s, n), p) = Get(s, p)
<1> DEFINE k == n - s.start
           l == SubSeq(s.log, k + 1, Len(s.log))
<1>1. k \in Nat /\ k <= Len(s.log) /\ s.log \in Seq(Update) /\ Len(s.log) \in Nat
  BY DEF SlidingType, End
<1>2. l \in Seq(Update) /\ Len(l) = Len(s.log) - k /\ \A i \in 1 .. Len(s.log) - k : l[i] = s.log[i + k]
  <2> HIDE DEF k
  <2>1. \A i \in k + 1 .. Len(s.log) : s.log[i] \in Update
    BY <1>1
  <2>2. /\ l \in Seq(Update)
        /\ Len(l) = IF k + 1 <= Len(s.log) THEN Len(s.log) - (k + 1) + 1 ELSE 0
        /\ \A i \in 1 .. Len(s.log) - (k + 1) + 1 : l[i] = s.log[k + 1 + i - 1]
    BY <1>1, <2>1, SubSeqProperties
  <2>3. Len(l) = Len(s.log) - k
    BY <1>1, <2>2
  <2>4. \A i \in 1 .. Len(s.log) - k : l[i] = s.log[i + k]
    BY <1>1, <2>2
  <2> QED
    BY <2>2, <2>3, <2>4
<1> DEFINE m == [a \in Addr |->
               IF \E i \in 1..k : s.log[i].Addr = a /\ s.addrPos[a] <= s.start + i - 1
                 THEN NoPos ELSE s.addrPos[a]]
<1>3. m \in [Addr -> Nat \cup {NoPos}]
  BY DEF SlidingType
<1>4. DeleteFrom(s, n) = [s EXCEPT !.log = l, !.start = n, !.addrPos = m]
  BY DEF DeleteFrom
<1> HIDE DEF l, m
<1>5. DeleteFrom(s, n) \in SlidingType
  BY <1>2, <1>3, <1>4 DEF SlidingType
<1>6. /\ DeleteFrom(s, n).start = n
      /\ DeleteFrom(s, n).mutable = s.mutable
      /\ DeleteFrom(s, n).log = l
  BY <1>4 DEF SlidingType
<1>7. End(DeleteFrom(s, n)) = End(s)
  <2>1. End(DeleteFrom(s, n)) = n + Len(l)
    BY <1>6 DEF End
  <2>2. s.start \in Nat
    BY DEF SlidingType
  <2> QED
    BY <1>1, <1>2, <2>1, <2>2 DEF End
<1>8. \A p \in n .. End(s) - 1 : Get(DeleteFrom(s, n), p) = Get(s, p)
  <2> TAKE p \in n .. End(s) - 1
  <2>1. p - n + 1 \in 1 .. Len(s.log) - k /\ p - n + 1 + k = p - s.start + 1
    BY <1>1 DEF End, SlidingType
  <2> QED
    BY <1>2, <1>6, <2>1 DEF Get
<1> QED
  BY <1>5, <1>6, <1>7, <1>8

-----------------------------------------------------------------------------
(* Facts about the operators the actions are built from. *)

(* The numbers a sliding log is made of are numbers. *)
LEMMA LogFacts ==
  ASSUME NEW s \in SlidingType
  PROVE  /\ s.start \in Nat /\ s.mutable \in Nat /\ End(s) \in Nat
         /\ s.log \in Seq(Update) /\ Len(s.log) \in Nat
         /\ End(s) = s.start + Len(s.log)
BY DEF SlidingType, End

(* flushIfNeeded moves the read-only bound to the end or leaves it.          *)
LEMMA FlushIfNeededEffect ==
  ASSUME NEW s \in SlidingType
  PROVE  /\ FlushIfNeeded(s) \in SlidingType
         /\ FlushIfNeeded(s).start = s.start
         /\ FlushIfNeeded(s).log = s.log
         /\ End(FlushIfNeeded(s)) = End(s)
         /\ FlushIfNeeded(s).mutable \in {s.mutable, End(s)}
<1>1. CASE s.needFlush
  <2>1. FlushIfNeeded(s) = [[s EXCEPT !.mutable = End(s)] EXCEPT !.needFlush = FALSE]
    BY <1>1 DEF FlushIfNeeded, ClearMutable
  <2>2. End(s) \in Nat
    BY LogFacts
  <2>3. /\ FlushIfNeeded(s) \in SlidingType
        /\ FlushIfNeeded(s).start = s.start
        /\ FlushIfNeeded(s).log = s.log
        /\ FlushIfNeeded(s).mutable = End(s)
    BY <2>1, <2>2 DEF SlidingType
  <2> QED
    BY <2>3 DEF End
<1>2. CASE ~s.needFlush
  BY <1>2 DEF FlushIfNeeded
<1> QED
  BY <1>1, <1>2

(* endGroupTxn only sets a flag of the log. *)
LEMMA NeedFlushEffect ==
  ASSUME NEW s \in SlidingType, NEW b \in BOOLEAN
  PROVE  LET t == [s EXCEPT !.needFlush = b]
         IN  /\ t \in SlidingType
             /\ t.start = s.start /\ t.mutable = s.mutable /\ t.log = s.log
             /\ End(t) = End(s)
BY DEF SlidingType, End

(* A position has a slot of the circular log. *)
LEMMA SlotRange ==
  ASSUME NEW p \in Nat
  PROVE  SlotOf(p) \in Slot
BY LogSzAssumption DEF SlotOf, Slot

(* An append that updatesOverflowU64 lets through does not overflow.         *)
LEMMA NoOverflow ==
  ASSUME NEW n \in Nat, n <= LOGSZ, memLog \in SlidingType, End(memLog) < U64,
         ~UpdatesOverflow(n)
  PROVE  End(memLog) + n < U64
<1>1. End(memLog) \in Nat
  BY LogFacts
<1> DEFINE e == End(memLog)
<1>2. e \in Nat /\ e < U64 /\ ~((e + n) % U64 < e)
  BY <1>1 DEF UpdatesOverflow
<1> HIDE DEF e
<1>3. U64 \in Nat /\ LOGSZ \in Nat /\ n < U64
  BY U64Assumption, LogSzAssumption
<1>4. e + n < U64
  BY <1>2, <1>3
<1> QED
  BY <1>4 DEF e

-----------------------------------------------------------------------------
(* What a crash can leave on disk. *)

(* Whatever headers survive, the log they span starts where the in-memory    *)
(* log starts or later, and ends inside its read-only part.                  *)
LEMMA CrashHeaders ==
  ASSUME IInv, NEW h1 \in Possible(hdr1), NEW h2 \in Possible(hdr2)
  PROVE  /\ memLog.start <= h2 /\ h2 <= diskEnd /\ diskEnd <= h1.end /\ h1.end <= memLog.mutable
         /\ h1 \in Header1 /\ h2 \in Nat /\ h1.end \in Nat
<1>1. /\ hdr1 \in AsyncOf(Header1) /\ hdr2 \in AsyncOf(Nat)
      /\ memLog \in SlidingType /\ diskEnd \in Nat
      /\ inst \in [end : Nat, next : Nat] /\ lg \in [end : Nat, next : Nat]
  BY DEF IInv, TypeOK
<1>2. Hdr1Agrees /\ Hdr2Agrees /\ PositionsOrdered
  BY DEF IInv, PositionsInv, DiskInv
<1>3. h1 \in Header1 /\ h2 \in Nat /\ h1.end \in Nat
  BY <1>1 DEF Possible, AsyncOf, Header1
<1>4. memLog.start \in Nat /\ memLog.mutable \in Nat /\ lg.end \in Nat /\ inst.end \in Nat
  BY <1>1, LogFacts
<1>5. memLog.start <= h2 /\ h2 <= diskEnd
  <2>1. h2 \in {memLog.start, inst.end} /\ (h2 # memLog.start => InstallerBusy)
    BY <1>2 DEF Hdr2Agrees, Possible, InstallerBusy
  <2> QED
    BY <1>1, <1>2, <1>4, <2>1 DEF PositionsOrdered
<1>6. diskEnd <= h1.end /\ h1.end <= memLog.mutable
  <2>1. h1.end \in {diskEnd, lg.end} /\ (h1.end # diskEnd => LoggerBusy)
    BY <1>2 DEF Hdr1Agrees, Possible, LoggerBusy
  <2> QED
    BY <1>1, <1>2, <1>4, <2>1 DEF PositionsOrdered
<1> QED
  BY <1>3, <1>5, <1>6

(* The log that recovery reads is well formed, and is the part between the   *)
(* two headers.                                                              *)
LEMMA CrashLogType ==
  ASSUME IInv, NEW h1 \in Possible(hdr1), NEW h2 \in Possible(hdr2), NEW lb \in CrashDisks(logblk)
  PROVE  /\ RecoveredLog(h1, h2, lb) \in Seq(Update)
         /\ Len(RecoveredLog(h1, h2, lb)) = h1.end - h2
<1>1. h1 \in Header1 /\ h2 \in Nat /\ h1.end \in Nat /\ h2 <= h1.end
  <2>1. h2 <= diskEnd /\ diskEnd <= h1.end /\ diskEnd \in Nat
    BY CrashHeaders DEF IInv, TypeOK
  <2>2. h1 \in Header1 /\ h2 \in Nat /\ h1.end \in Nat
    BY CrashHeaders
  <2> QED
    BY <2>1, <2>2
<1>2. \A p \in 0 .. h1.end - 1 : h1.addrs[SlotOf(p)] \in Addr
  BY DEF IInv, DiskInv, AddrsKnown
<1>3. \A s \in Slot : lb[s] \in Nat
  <2>1. logblk \in [Slot -> AsyncOf(Nat)]
    BY DEF IInv, TypeOK
  <2>2. \A s \in Slot : lb[s] \in Possible(logblk[s])
    BY <2>1 DEF CrashDisks
  <2> QED
    BY <2>1, <2>2 DEF Possible, AsyncOf
<1>4. ASSUME NEW i \in 1 .. h1.end - h2
      PROVE  [Addr |-> h1.addrs[SlotOf(h2 + i - 1)], Block |-> lb[SlotOf(h2 + i - 1)]] \in Update
  <2>1. h2 + i - 1 \in 0 .. h1.end - 1 /\ h2 + i - 1 \in Nat
    BY <1>1
  <2> QED
    BY <1>2, <1>3, <2>1, SlotRange DEF Update
<1>5. h1.end - h2 \in Nat
  BY <1>1
<1> QED
  BY <1>4, <1>5 DEF RecoveredLog

(* The log recoverCircular hands to mkSliding runs from the recovered start  *)
(* to the recovered end, all of it read-only.                                *)
LEMMA CrashMemLog ==
  ASSUME IInv, NEW h1 \in Possible(hdr1), NEW h2 \in Possible(hdr2), NEW lb \in CrashDisks(logblk),
         NEW db, Recover(h1, h2, lb, db)
  PROVE  /\ memLog' \in SlidingType /\ memLog'.start = h2
         /\ memLog'.mutable = h1.end /\ End(memLog') = h1.end
<1>1. memLog' = MkSliding(RecoveredLog(h1, h2, lb), h2)
  BY DEF Recover
<1>2. h2 \in Nat /\ h1.end \in Nat
  BY CrashHeaders
<1>3. h2 + (h1.end - h2) = h1.end
  BY <1>2
<1>4. PICK log \in Seq(Update) : log = RecoveredLog(h1, h2, lb) /\ Len(log) = h1.end - h2
  BY CrashLogType
<1>5. /\ MkSliding(log, h2) \in SlidingType /\ MkSliding(log, h2).start = h2
      /\ MkSliding(log, h2).mutable = h2 + Len(log) /\ End(MkSliding(log, h2)) = h2 + Len(log)
  BY <1>2, MkSlidingType
<1>6. memLog' = MkSliding(log, h2) /\ h2 + Len(log) = h1.end
  BY <1>1, <1>3, <1>4
<1>7. End(memLog') = h1.end
  BY <1>5, <1>6
<1> QED
  BY <1>5, <1>6, <1>7

-----------------------------------------------------------------------------
(* The order of the positions. *)

(* Room for k more updates leaves room for one. *)
LEMMA RoomForOne ==
  ASSUME NEW e \in Nat, NEW d \in Nat, NEW n \in Nat, NEW k \in Nat, NEW u \in Nat,
         k >= 1, e + k - d <= n, e + k < u
  PROVE  e + 1 - d <= n /\ e + 1 < u
OBVIOUS

(* A part of a range that fits, fits. *)
LEMMA RoomInside ==
  ASSUME NEW lo \in Nat, NEW hi \in Nat, NEW x \in Nat, NEW y \in Nat, NEW d \in Nat,
         NEW e \in Nat, NEW n \in Nat, NEW u \in Nat,
         lo <= x, x <= d, d <= y, y <= hi, hi <= e, e < u, hi - lo <= n
  PROVE  x <= y /\ y < u /\ y - x <= n /\ y - y <= n
OBVIOUS


PositionsCore == PositionsOrdered /\ ReadOnlyFits /\ UnloggedFits /\ BlocksWritten

(* Every step keeps the order of the positions and the room of both logs. *)
LEMMA PositionsStep ==
  ASSUME IInv, [Next]_vars
  PROVE  PositionsCore'
<1> USE DEF PositionsCore, PositionsOrdered, ReadOnlyFits, UnloggedFits, BlocksWritten,
            LoggerBusy, InstallerBusy
<1>a. PositionsCore /\ AppendReserved /\ Hdr1Agrees /\ Hdr2Agrees
  BY DEF IInv, PositionsInv, DiskInv
<1>t. /\ memLog \in SlidingType /\ diskEnd \in Nat
      /\ lpc \in LoggerPc /\ lg \in [end : Nat, next : Nat]
      /\ ipc \in InstallerPc /\ inst \in [end : Nat, next : Nat]
      /\ req \in [Client -> [bufs : Seq(Update), next : Nat, pos : Nat, addr : Addr \cup {NoAddr}]]
      /\ hdr1 \in AsyncOf(Header1) /\ hdr2 \in AsyncOf(Nat)
      /\ logblk \in [Slot -> AsyncOf(Nat)]
      /\ cpc \in [Client -> ClientPc]
  BY DEF IInv, TypeOK
<1>n. /\ LOGSZ \in Nat /\ U64 \in Nat /\ lg.end \in Nat /\ lg.next \in Nat
      /\ inst.end \in Nat /\ inst.next \in Nat /\ diskEnd \in Nat
  BY <1>t, LogSzAssumption, U64Assumption
<1>l. /\ memLog.start \in Nat /\ memLog.mutable \in Nat /\ End(memLog) \in Nat
      /\ Len(memLog.log) \in Nat /\ End(memLog) = memLog.start + Len(memLog.log)
  BY <1>t, LogFacts
<1>0. ASSUME UNCHANGED <<memLog, diskEnd, lpc, lg, ipc, inst>>
      PROVE  PositionsCore'
  BY <1>a, <1>0 DEF End
<1>1. CASE LoggerStart \/ LoggerLoop \/ LoggerExit \/ LoggerWaitForSpace
  <2>1. UNCHANGED <<memLog, diskEnd, lg, ipc, inst>> /\ lpc' \in {"loop", "done", "space"}
    BY <1>1 DEF LoggerStart, LoggerLoop, LoggerExit, LoggerWaitForSpace, stvars, instvars, logvars
  <2> QED
    BY <1>a, <2>1 DEF End
<1>2. CASE LoggerTake \/ LoggerIdle
  <2>1. /\ memLog' = FlushIfNeeded(memLog)
        /\ UNCHANGED <<diskEnd, ipc, inst>>
        /\ Len(memLog.log) <= LOGSZ
    BY <1>2, <1>n, <1>l DEF LoggerTake, LoggerIdle, instvars, LogFull
  <2>2. /\ memLog'.start = memLog.start
        /\ End(memLog)' = End(memLog)
        /\ memLog'.mutable \in {memLog.mutable, End(memLog)}
    BY <1>t, <2>1, FlushIfNeededEffect DEF End
  <2>3. \/ lpc' = "loop"
        \/ /\ lpc' = "logBlocks"
           /\ lg'.next = diskEnd /\ lg'.end = memLog'.mutable /\ lg'.end # diskEnd
    BY <1>2, <1>t, <1>l, <2>2 DEF LoggerTake, LoggerIdle, TakeFromLen
  <2>u. diskEnd' = diskEnd /\ ipc' = ipc /\ inst' = inst /\ Len(memLog.log) <= LOGSZ
    BY <2>1
  <2>4. /\ memLog'.start <= diskEnd' /\ diskEnd' <= memLog'.mutable
        /\ memLog'.mutable <= End(memLog)' /\ End(memLog)' < U64
        /\ memLog'.mutable - memLog'.start <= LOGSZ /\ End(memLog)' - diskEnd' <= LOGSZ
    <3>1. /\ memLog.start <= diskEnd /\ diskEnd <= memLog.mutable /\ memLog.mutable <= End(memLog)
          /\ End(memLog) < U64 /\ End(memLog) - diskEnd <= LOGSZ
          /\ memLog.mutable - memLog.start <= LOGSZ
      BY <1>a
    <3>2. End(memLog) - memLog.start <= LOGSZ /\ diskEnd <= End(memLog)
      BY <1>n, <1>l, <2>u, <3>1, SMTT(30)
    <3>3. CASE memLog'.mutable = memLog.mutable
      BY <2>2, <2>u, <3>1, <3>3
    <3>4. CASE memLog'.mutable = End(memLog)
      BY <1>l, <2>2, <2>u, <3>1, <3>2, <3>4
    <3> QED
      BY <2>2, <3>3, <3>4
  <2>5. LoggerBusy' => diskEnd' <= lg'.next /\ lg'.next <= lg'.end /\ lg'.end <= memLog'.mutable /\ diskEnd' < lg'.end
    <3>1. memLog'.mutable \in Nat /\ diskEnd <= memLog'.mutable
      BY <1>l, <2>2, <2>4, <2>u
    <3>2. LoggerBusy' => lg'.next = diskEnd /\ lg'.end = memLog'.mutable /\ lg'.end # diskEnd
      BY <2>3
    <3> QED
      BY <1>n, <2>u, <3>1, <3>2
  <2>6. InstallerBusy' => memLog'.start <= inst'.next /\ inst'.next <= inst'.end /\ inst'.end <= diskEnd' /\ memLog'.start < inst'.end
    BY <1>a, <2>1, <2>2
  <2>7. BlocksWritten'
    BY <1>a, <2>u, <2>3
  <2> QED
    BY <2>4, <2>5, <2>6, <2>7
<1>3. CASE LoggerBlock
  <2>1. UNCHANGED <<memLog, diskEnd, lpc, ipc, inst>> /\ lpc = "logBlocks" /\ lg.next < lg.end
        /\ lg'.end = lg.end /\ lg'.next = lg.next + 1
    BY <1>3, <1>t DEF LoggerBlock, stvars, instvars
  <2> QED
    BY <1>a, <1>n, <1>l, <1>t, <2>1, SMTT(30) DEF End
<1>4. CASE LoggerBarrier \/ LoggerHdr \/ LoggerHdrBarrier
  <2>1. /\ UNCHANGED <<memLog, diskEnd, lg, ipc, inst>>
        /\ lpc \in {"logBlocks", "hdr", "hdrBarrier"} /\ lpc' \in {"hdr", "hdrBarrier", "logged"}
        /\ lg.next = lg.end
    BY <1>4, <1>a DEF LoggerBarrier, LoggerHdr, LoggerHdrBarrier, stvars, instvars
  <2> QED
    BY <1>a, <2>1 DEF End
<1>5. CASE LoggerLogged
  <2>1. UNCHANGED <<memLog, lg, ipc, inst>> /\ lpc = "logged" /\ lpc' = "loop" /\ diskEnd' = lg.end
    BY <1>5 DEF LoggerLogged, LoggedEnd, instvars
  <2> QED
    BY <1>a, <1>n, <1>l, <1>t, <2>1, SMTT(30) DEF End
<1>6. CASE InstallerStart \/ InstallerExit \/ InstallerIdle
  <2>1. UNCHANGED <<memLog, diskEnd, lpc, lg, inst>> /\ ipc' \in {"loop", "done"}
    BY <1>6 DEF InstallerStart, InstallerExit, InstallerIdle, stvars, instvars, logvars
  <2> QED
    BY <1>a, <2>1 DEF End
<1>7. CASE InstallerTake
  <2>1. /\ UNCHANGED <<memLog, diskEnd, lpc, lg>> /\ ipc' = "install"
        /\ inst'.end = diskEnd /\ inst'.next = memLog.start /\ diskEnd - memLog.start # 0
    BY <1>7 DEF InstallerTake, stvars, logvars, TakeTillLen, InstallEnd
  <2>2. memLog.start <= diskEnd /\ memLog.start < diskEnd
    BY <1>a, <1>n, <1>l, <2>1
  <2>3. memLog.start <= inst'.next /\ inst'.next <= inst'.end /\ inst'.end <= diskEnd /\ memLog.start < inst'.end
    BY <1>n, <1>l, <2>1, <2>2
  <2>4. PositionsOrdered'
    BY <1>a, <2>1, <2>3 DEF End
  <2>5. ReadOnlyFits' /\ UnloggedFits'
    BY <1>a, <2>1 DEF End
  <2>6. BlocksWritten'
    BY <1>a, <2>1
  <2> QED
    BY <2>4, <2>5, <2>6
<1>8. CASE InstallBlock
  <2>1. UNCHANGED <<memLog, diskEnd, lpc, lg, ipc>> /\ inst.next < inst.end
        /\ inst'.end = inst.end /\ inst'.next = inst.next + 1 /\ ipc = "install"
    BY <1>8, <1>t DEF InstallBlock, stvars, logvars
  <2>2. memLog.start <= inst.next /\ inst.next < inst.end /\ inst.end <= diskEnd
    BY <1>a, <2>1
  <2>3. memLog.start <= inst'.next /\ inst'.next <= inst'.end /\ inst'.end <= diskEnd /\ memLog.start < inst'.end
    BY <1>n, <1>l, <2>1, <2>2
  <2>4. PositionsOrdered'
    BY <1>a, <2>1, <2>3 DEF End
  <2>5. ReadOnlyFits' /\ UnloggedFits'
    BY <1>a, <2>1 DEF End
  <2>6. BlocksWritten'
    BY <1>a, <2>1
  <2> QED
    BY <2>4, <2>5, <2>6
<1>9. CASE InstallBarrier \/ InstallAdvance \/ InstallAdvanceBarrier
  <2>1. /\ UNCHANGED <<memLog, diskEnd, lpc, lg, inst>>
        /\ ipc \in {"install", "advance", "advBarrier"} /\ ipc' \in {"advance", "advBarrier", "installed"}
        /\ inst.next = inst.end
    BY <1>9, <1>a DEF InstallBarrier, InstallAdvance, InstallAdvanceBarrier, stvars, logvars
  <2> QED
    BY <1>a, <2>1 DEF End
<1>10. CASE InstallCut
  <2>1. /\ memLog' = DeleteFrom(memLog, inst.end)
        /\ UNCHANGED <<diskEnd, lpc, lg, inst>> /\ ipc = "installed" /\ ipc' = "loop"
    BY <1>10 DEF InstallCut, CutEnd, logvars
  <2>2. memLog.start <= inst.end /\ inst.end <= End(memLog)
    BY <1>a, <1>n, <1>l, <1>t, <2>1
  <2>3. memLog'.start = inst.end /\ memLog'.mutable = memLog.mutable /\ End(memLog)' = End(memLog)
    BY <1>t, <1>n, <2>1, <2>2, DeleteFromEffect DEF End
  <2> QED
    BY <1>a, <1>n, <1>l, <1>t, <2>1, <2>3, SMTT(30)
<1>11. ASSUME NEW c \in Client, Call(c) \/ ClientNext(c)
       PROVE  PositionsCore'
  <2>0. UNCHANGED <<diskEnd, lpc, lg, ipc, inst>>
    BY <1>11 DEF Call, CallMemAppend, CallFlush, CallRead, ClientNext, MemAppendFail, MemAppendFull,
         MemAppendStart, MemWriteOne, MemAppendDone, FlushStart, FlushSleep, FlushDone, ReadMemHit,
         ReadMemMiss, ReadInstalled, stvars, logvars, instvars
  <2>1. CASE MemWriteOne(c)
    <3>1. /\ cpc[c] = "memWrite" /\ req[c].next <= Len(req[c].bufs)
          /\ memLog' = MemWrite(memLog, req[c].bufs[req[c].next])
      BY <2>1 DEF MemWriteOne
    <3>2. req[c].bufs \in Seq(Update) /\ req[c].next \in Nat /\ 1 <= req[c].next
          /\ End(memLog) + Left(c) - diskEnd <= LOGSZ /\ End(memLog) + Left(c) < U64
      BY <3>1, <1>a, <1>t DEF AppendReserved, Reserved
    <3>3. req[c].bufs[req[c].next] \in Update /\ Len(req[c].bufs) \in Nat
      BY <3>1, <3>2
    <3>4. /\ memLog'.start = memLog.start /\ memLog'.mutable = memLog.mutable
          /\ End(memLog)' \in {End(memLog), End(memLog) + 1}
      <4> DEFINE u == req[c].bufs[req[c].next]
      <4>1. /\ memLog' = MemWrite(memLog, u) /\ u \in Update
            /\ memLog.start <= memLog.mutable /\ memLog.mutable <= End(memLog)
        BY <3>1, <3>3, <1>t, <1>a, <1>l, SMTT(30)
      <4> HIDE DEF u
      <4>2. /\ MemWrite(memLog, u).start = memLog.start /\ MemWrite(memLog, u).mutable = memLog.mutable
            /\ End(MemWrite(memLog, u)) \in {End(memLog), End(memLog) + 1}
        BY <4>1, <1>t, MemWriteEffect
      <4> QED
        BY <4>1, <4>2 DEF End
    <3>5. Left(c) >= 1 /\ Left(c) \in Nat
      BY <3>1, <3>2, <3>3 DEF Left
    <3>6. /\ diskEnd' = diskEnd /\ lpc' = lpc /\ lg' = lg /\ ipc' = ipc /\ inst' = inst
      BY <2>0
    <3>7. End(memLog) + 1 - diskEnd <= LOGSZ /\ End(memLog) + 1 < U64
      BY <1>n, <1>l, <3>2, <3>5, RoomForOne
    <3>8. /\ memLog'.mutable <= End(memLog)' /\ End(memLog)' < U64 /\ End(memLog)' - diskEnd' <= LOGSZ
      <4>1. /\ memLog.mutable <= End(memLog) /\ End(memLog) < U64 /\ End(memLog) - diskEnd <= LOGSZ
        BY <1>a
      <4> QED
        BY <1>n, <1>l, <3>4, <3>6, <3>7, <4>1
    <3> QED
      BY <1>a, <3>4, <3>6, <3>8
  <2>2. CASE MemAppendFull(c) \/ FlushStart(c)
    <3>1. PICK b \in BOOLEAN : memLog' = [memLog EXCEPT !.needFlush = b]
      <4>1. CASE MemAppendFull(c)
        BY <4>1 DEF MemAppendFull
      <4>2. CASE FlushStart(c)
        <5>1. (memLog.needFlush \/ req[c].pos > memLog.mutable) \in BOOLEAN
          BY <1>t DEF SlidingType
        <5> QED
          BY <4>2, <5>1 DEF FlushStart, FlushRequest
      <4> QED
        BY <2>2, <4>1, <4>2
    <3>2. memLog'.start = memLog.start /\ memLog'.mutable = memLog.mutable /\ End(memLog)' = End(memLog)
      BY <3>1, <1>t, NeedFlushEffect DEF End
    <3> QED
      BY <1>a, <2>0, <3>2
  <2>3. CASE ~MemWriteOne(c) /\ ~MemAppendFull(c) /\ ~FlushStart(c)
    <3>1. UNCHANGED memLog
      BY <1>11, <2>3 DEF Call, CallMemAppend, CallFlush, CallRead, ClientNext, MemAppendFail,
         MemAppendStart, MemAppendDone, FlushSleep, FlushDone, ReadMemHit,
         ReadMemMiss, ReadInstalled, stvars
    <3> QED
      BY <1>0, <2>0, <3>1
  <2> QED
    BY <2>1, <2>2, <2>3
<1>12. CASE CallShutdown \/ ShutdownNext \/ Wakeup
  <2>1. UNCHANGED <<memLog, diskEnd, lpc, lg, ipc, inst>>
    BY <1>12 DEF CallShutdown, ShutdownNext, ShutdownSleep, ShutdownDone, Wakeup, stvars, logvars, instvars
  <2> QED
    BY <1>0, <2>1
<1>13. CASE Crash
  <2>1. PICK h1 \in Possible(hdr1), h2 \in Possible(hdr2),
             lb \in CrashDisks(logblk), db \in CrashDisks(data) : Recover(h1, h2, lb, db)
    BY <1>13 DEF Crash
  <2>2. /\ memLog.start <= h2 /\ h2 <= diskEnd /\ diskEnd <= h1.end /\ h1.end <= memLog.mutable
        /\ h2 \in Nat /\ h1.end \in Nat
    BY <1>13, <2>1, CrashHeaders
  <2>3. /\ memLog'.start = h2 /\ memLog'.mutable = h1.end /\ End(memLog)' = h1.end
    BY <1>13, <2>1, CrashMemLog DEF End
  <2>4. diskEnd' = h1.end /\ lpc' = "start" /\ ipc' = "start"
    BY <2>1 DEF Recover
  <2>5. /\ memLog.start <= diskEnd /\ End(memLog) < U64 /\ memLog.mutable <= End(memLog)
        /\ memLog.mutable - memLog.start <= LOGSZ
    BY <1>a
  <2>6. /\ h2 <= h1.end /\ h1.end < U64 /\ h1.end - h2 <= LOGSZ /\ h1.end - h1.end <= LOGSZ
    <3> DEFINE lo == memLog.start
               hi == memLog.mutable
               d  == diskEnd
               e  == End(memLog)
               x  == h2
               y  == h1.end
    <3>1. lo \in Nat /\ hi \in Nat /\ d \in Nat /\ e \in Nat /\ x \in Nat /\ y \in Nat
      BY <1>n, <1>l, <2>2
    <3>2. lo <= x /\ x <= d /\ d <= y /\ y <= hi /\ hi <= e /\ e < U64 /\ hi - lo <= LOGSZ
      BY <2>2, <2>5
    <3> HIDE DEF lo, hi, d, e, x, y
    <3>3. x <= y /\ y < U64 /\ y - x <= LOGSZ /\ y - y <= LOGSZ
      BY <1>n, <3>1, <3>2, RoomInside
    <3> QED
      BY <3>3 DEF x, y
  <2> QED
    BY <2>2, <2>3, <2>4, <2>6
<1>14. CASE UNCHANGED vars
  BY <1>0, <1>14 DEF vars, stvars, logvars, instvars
<1> QED
  BY <1>1, <1>2, <1>3, <1>4, <1>5, <1>6, <1>7, <1>8, <1>9, <1>10, <1>11, <1>12, <1>13, <1>14
     DEF Next, LoggerNext, InstallerNext

-----------------------------------------------------------------------------
(* Threads. *)

(* A client's step touches neither the disk nor the other threads. *)
LEMMA ClientFrame ==
  ASSUME NEW c \in Client, Call(c) \/ ClientNext(c)
  PROVE  UNCHANGED <<diskvars, diskAddrs, diskEnd, shutdown, nthread, lpc, lg, ipc, inst, spc, crashes>>
BY DEF Call, CallMemAppend, CallFlush, CallRead, ClientNext, MemAppendFail, MemAppendFull,
       MemAppendStart, MemWriteOne, MemAppendDone, FlushStart, FlushSleep, FlushDone, ReadMemHit,
       ReadMemMiss, ReadInstalled, stvars, logvars, instvars

(* Every step keeps nthread exact and the flag of Shutdown visible. *)
LEMMA ThreadsStep ==
  ASSUME IInv, [Next]_vars
  PROVE  ThreadsInv'
<1> USE DEF ThreadsInv, ThreadsCounted, ShutdownSeen
<1>a. /\ ThreadsInv /\ nthread \in Nat /\ lpc \in LoggerPc /\ ipc \in InstallerPc
      /\ spc \in {"idle", "wait", "done"}
  BY DEF IInv, TypeOK
<1>0. ASSUME UNCHANGED <<nthread, lpc, ipc, spc, shutdown>>
      PROVE  ThreadsInv'
  BY <1>a, <1>0
<1>1. CASE LoggerNext
  <2>1. CASE LoggerStart
    BY <1>a, <2>1 DEF LoggerStart, ThreadStart, instvars
  <2>2. CASE LoggerExit
    BY <1>a, <2>2 DEF LoggerExit, ThreadExit, instvars
  <2>3. CASE LoggerLoop
    BY <1>a, <2>3 DEF LoggerLoop, stvars, instvars
  <2>4. CASE LoggerTake
    BY <1>a, <2>4 DEF LoggerTake, instvars
  <2>5. CASE LoggerIdle
    BY <1>a, <2>5 DEF LoggerIdle, instvars
  <2>6. CASE LoggerLogged
    BY <1>a, <2>6 DEF LoggerLogged, instvars
  <2>7. CASE LoggerBarrier
    BY <1>a, <2>7 DEF LoggerBarrier, stvars, instvars
  <2>8. CASE LoggerHdr
    BY <1>a, <2>8 DEF LoggerHdr, stvars, instvars
  <2>9. CASE LoggerHdrBarrier
    BY <1>a, <2>9 DEF LoggerHdrBarrier, stvars, instvars
  <2>10. CASE LoggerWaitForSpace \/ LoggerBlock
    BY <1>0, <2>10 DEF LoggerWaitForSpace, LoggerBlock, stvars, instvars, logvars
  <2> QED
    BY <1>1, <2>1, <2>2, <2>3, <2>4, <2>5, <2>6, <2>7, <2>8, <2>9, <2>10 DEF LoggerNext
<1>2. CASE InstallerNext
  <2>1. CASE InstallerStart
    BY <1>a, <2>1 DEF InstallerStart, ThreadStart, logvars
  <2>2. CASE InstallerExit
    BY <1>a, <2>2 DEF InstallerExit, ThreadExit, logvars
  <2>3. CASE InstallerTake
    BY <1>a, <2>3 DEF InstallerTake, stvars, logvars
  <2>4. CASE InstallBarrier
    BY <1>a, <2>4 DEF InstallBarrier, stvars, logvars
  <2>5. CASE InstallAdvance
    BY <1>a, <2>5 DEF InstallAdvance, stvars, logvars
  <2>6. CASE InstallAdvanceBarrier
    BY <1>a, <2>6 DEF InstallAdvanceBarrier, stvars, logvars
  <2>7. CASE InstallCut
    BY <1>a, <2>7 DEF InstallCut, logvars
  <2>8. CASE InstallerIdle \/ InstallBlock
    BY <1>0, <2>8 DEF InstallerIdle, InstallBlock, stvars, instvars, logvars
  <2> QED
    BY <1>2, <2>1, <2>2, <2>3, <2>4, <2>5, <2>6, <2>7, <2>8 DEF InstallerNext
<1>3. ASSUME NEW c \in Client, Call(c) \/ ClientNext(c)
      PROVE  ThreadsInv'
  <2>1. UNCHANGED <<nthread, lpc, ipc, spc, shutdown>>
    BY <1>3, ClientFrame
  <2> QED
    BY <1>0, <2>1
<1>4. CASE CallShutdown \/ ShutdownSleep
  BY <1>a, <1>4 DEF CallShutdown, ShutdownSleep, stvars, logvars, instvars
<1>5. CASE ShutdownDone
  <2>1. /\ spc = "wait" /\ nthread = 0 /\ spc' = "done"
        /\ UNCHANGED <<nthread, lpc, ipc, shutdown>>
    BY <1>5 DEF ShutdownDone, AllStopped, stvars, logvars, instvars
  <2>2. lpc \in {"start", "done"} /\ ipc \in {"start", "done"}
    BY <1>a, <2>1
  <2> QED
    BY <1>a, <2>1, <2>2
<1>6. CASE Crash
  <2>1. nthread' = 0 /\ lpc' = "start" /\ ipc' = "start" /\ spc' = "idle"
    BY <1>6 DEF Crash, Recover
  <2> QED
    BY <2>1
<1>7. CASE UNCHANGED vars \/ Wakeup
  BY <1>0, <1>7 DEF vars, Wakeup, stvars, logvars, instvars
<1> QED
  BY <1>1, <1>2, <1>3, <1>4, <1>5, <1>6, <1>7 DEF Next, ShutdownNext

-----------------------------------------------------------------------------
(* What a writing client has reserved. *)

(* While a client holds memLock nobody else changes what it protects. *)
LEMMA LockHeld ==
  ASSUME NEW c \in Client, memLock = c,
         LoggerNext \/ InstallerNext \/ CallShutdown \/ ShutdownNext \/ Wakeup
  PROVE  UNCHANGED <<memLock, memLog, diskEnd, cpc, req>>
<1>1. c # Logger /\ c # Installer /\ c # Stopper /\ c # Free
  BY ClientAssumption
<1>2. ~Enter(Logger) /\ ~Enter(Installer) /\ ~Enter(Stopper)
  BY <1>1 DEF Enter
<1>3. CASE LoggerNext
  <2>1. LoggerBlock \/ LoggerBarrier \/ LoggerHdr \/ LoggerHdrBarrier
    BY <1>2, <1>3 DEF LoggerNext, LoggerStart, LoggerLoop, LoggerExit, LoggerWaitForSpace,
         LoggerTake, LoggerIdle, LoggerLogged
  <2> QED
    BY <2>1 DEF LoggerBlock, LoggerBarrier, LoggerHdr, LoggerHdrBarrier, lockvars, stvars, clivars
<1>4. CASE InstallerNext
  <2>1. InstallBlock \/ InstallBarrier \/ InstallAdvance \/ InstallAdvanceBarrier
    BY <1>2, <1>4 DEF InstallerNext, InstallerStart, InstallerExit, InstallerTake, InstallerIdle,
         InstallCut
  <2> QED
    BY <2>1 DEF InstallBlock, InstallBarrier, InstallAdvance, InstallAdvanceBarrier, lockvars, stvars, clivars
<1>5. CASE CallShutdown \/ ShutdownNext \/ Wakeup
  BY <1>2, <1>5 DEF CallShutdown, ShutdownNext, ShutdownSleep, ShutdownDone, Wakeup, stvars, clivars
<1> QED
  BY <1>3, <1>4, <1>5

(* Nobody but a client touches the clients' locals. *)
LEMMA OthersFrame ==
  ASSUME LoggerNext \/ InstallerNext \/ CallShutdown \/ ShutdownNext \/ Wakeup
  PROVE  UNCHANGED <<cpc, req, appends, txns, acked, seen, crashes>>
<1>1. CASE LoggerNext
  BY <1>1 DEF LoggerNext, LoggerStart, LoggerLoop, LoggerExit, LoggerWaitForSpace, LoggerTake,
       LoggerIdle, LoggerBlock, LoggerBarrier, LoggerHdr, LoggerHdrBarrier, LoggerLogged, clivars, history
<1>2. CASE InstallerNext
  BY <1>2 DEF InstallerNext, InstallerStart, InstallerExit, InstallerTake, InstallerIdle,
       InstallBlock, InstallBarrier, InstallAdvance, InstallAdvanceBarrier, InstallCut, clivars, history
<1>3. CASE CallShutdown \/ ShutdownNext \/ Wakeup
  BY <1>3 DEF CallShutdown, ShutdownNext, ShutdownSleep, ShutdownDone, Wakeup, clivars, history
<1> QED
  BY <1>1, <1>2, <1>3

(* A client's step changes its own locals only. *)
LEMMA ClientLocals ==
  ASSUME NEW c \in Client, Call(c) \/ ClientNext(c), NEW d \in Client, d # c, TypeOK
  PROVE  cpc'[d] = cpc[d] /\ req'[d] = req[d]
<1>1. cpc \in [Client -> ClientPc] /\ DOMAIN req = Client
  BY DEF TypeOK
<1>2. /\ cpc' = cpc \/ \E v : cpc' = [cpc EXCEPT ![c] = v]
      /\ req' = req \/ \E v : req' = [req EXCEPT ![c] = v]
  <2>1. CASE CallMemAppend(c) \/ CallFlush(c) \/ CallRead(c)
    BY <2>1 DEF CallMemAppend, CallFlush, CallRead
  <2>2. CASE MemAppendFail(c) \/ MemAppendDone(c) \/ FlushDone(c) \/ ReadMemHit(c) \/ ReadInstalled(c)
    BY <2>2 DEF MemAppendFail, MemAppendDone, FlushDone, ReadMemHit, ReadInstalled, Return
  <2>3. CASE MemAppendFull(c) \/ MemAppendStart(c) \/ MemWriteOne(c)
    BY <2>3 DEF MemAppendFull, MemAppendStart, MemWriteOne, clivars
  <2>4. CASE FlushStart(c) \/ FlushSleep(c) \/ ReadMemMiss(c)
    BY <2>4 DEF FlushStart, FlushSleep, ReadMemMiss, clivars
  <2> QED
    BY <2>1, <2>2, <2>3, <2>4 DEF Call, ClientNext
<1> QED
  BY <1>1, <1>2

(* While a client holds memLock the others can at most call or read the disk. *)
LEMMA ClientLockHeld ==
  ASSUME NEW c \in Client, NEW d \in Client, memLock = c, d # c, Call(d) \/ ClientNext(d),
         AppendReserved
  PROVE  UNCHANGED <<memLock, memLog, diskEnd>>
<1>1. c # Free
  BY ClientAssumption
<1>2. ~Enter(d) /\ cpc[d] # "memWrite"
  BY <1>1 DEF Enter, AppendReserved, Reserved
<1>3. CallMemAppend(d) \/ CallFlush(d) \/ CallRead(d) \/ ReadInstalled(d)
  BY <1>2 DEF Call, ClientNext, MemAppendFail, MemAppendFull,
       MemAppendStart, MemWriteOne, MemAppendDone, FlushStart, FlushSleep, FlushDone, ReadMemHit,
       ReadMemMiss
<1> QED
  BY <1>3 DEF CallMemAppend, CallFlush, CallRead, ReadInstalled, lockvars, stvars

(* Every step keeps what MemAppend reserved: the other steps a client that   *)
(* writes can meet change neither the end of the log nor move diskEnd back.  *)
LEMMA AppendStep ==
  ASSUME IInv, [Next]_vars
  PROVE  AppendReserved'
<1>a. AppendReserved /\ TypeOK /\ PositionsOrdered
  BY DEF IInv, PositionsInv
<1>t. /\ memLog \in SlidingType /\ diskEnd \in Nat /\ End(memLog) \in Nat
      /\ req \in [Client -> [bufs : Seq(Update), next : Nat, pos : Nat, addr : Addr \cup {NoAddr}]]
      /\ cpc \in [Client -> ClientPc]
      /\ LOGSZ \in Nat /\ U64 \in Nat
  BY LogFacts, LogSzAssumption, U64Assumption DEF IInv, TypeOK
<1>r. \A c \in Client : req[c].bufs \in Seq(Update) /\ Len(req[c].bufs) \in Nat /\ req[c].next \in Nat
  BY <1>t
<1>0. ASSUME NEW c \in Client, cpc'[c] = cpc[c], req'[c] = req[c],
             cpc[c] = "memWrite" => UNCHANGED <<memLock, memLog, diskEnd>>
      PROVE  Reserved(c)'
  <2>1. Reserved(c) /\ Left(c)' = Left(c)
    BY <1>a, <1>0 DEF AppendReserved, Left
  <2>2. CASE cpc[c] = "memWrite"
    <3>1. memLock' = memLock /\ End(memLog)' = End(memLog) /\ diskEnd' = diskEnd
      BY <1>0, <2>2 DEF End
    <3> QED
      BY <1>0, <2>1, <3>1 DEF Reserved
  <2>3. CASE cpc[c] # "memWrite"
    BY <1>0, <2>1, <2>3 DEF Reserved
  <2> QED
    BY <2>2, <2>3
<1>1. CASE LoggerNext \/ InstallerNext \/ CallShutdown \/ ShutdownNext \/ Wakeup
  <2> SUFFICES ASSUME NEW c \in Client PROVE Reserved(c)'
    BY DEF AppendReserved
  <2>1. cpc[c] = "memWrite" => memLock = c
    BY <1>a DEF AppendReserved, Reserved
  <2>2. cpc'[c] = cpc[c] /\ req'[c] = req[c]
    BY <1>1, OthersFrame
  <2> QED
    BY <1>0, <1>1, <2>1, <2>2, LockHeld
<1>2. ASSUME NEW d \in Client, Call(d) \/ ClientNext(d)
      PROVE  AppendReserved'
  <2> SUFFICES ASSUME NEW c \in Client PROVE Reserved(c)'
    BY DEF AppendReserved
  <2>1. CASE c # d
    <3>1. cpc'[c] = cpc[c] /\ req'[c] = req[c]
      BY <1>a, <1>2, <2>1, ClientLocals
    <3>2. cpc[c] = "memWrite" => memLock = c
      BY <1>a DEF AppendReserved, Reserved
    <3> QED
      BY <1>0, <1>a, <1>2, <2>1, <3>1, <3>2, ClientLockHeld
  <2>2. CASE c = d
    <3>r. Reserved(c)
      BY <1>a DEF AppendReserved
    <3>1. CASE CallMemAppend(c)
      <4>1. cpc[c] = "idle" /\ cpc'[c] = "append"
        BY <3>1, <1>t DEF CallMemAppend
      <4>2. PICK w \in WriteSets :
              req' = [req EXCEPT ![c].bufs = [i \in DOMAIN w |-> [Addr |-> w[i], Block |-> appends + 1]]]
        BY <3>1 DEF CallMemAppend
      <4>3. w \in Seq(Addr) /\ Len(w) <= LOGSZ
        BY WriteSetsAssumption
      <4>4. Len([i \in DOMAIN w |-> [Addr |-> w[i], Block |-> appends + 1]]) = Len(w)
        BY <4>3
      <4>5. req'[c].bufs = [i \in DOMAIN w |-> [Addr |-> w[i], Block |-> appends + 1]] /\ req'[c].next = req[c].next
        BY <4>2, <1>t
      <4> QED
        BY <3>r, <4>1, <4>3, <4>4, <4>5 DEF Reserved
    <3>2. CASE CallFlush(c) \/ CallRead(c)
      <4>1. cpc[c] = "idle" /\ cpc'[c] \in {"flush", "read"} /\ req'[c].next = req[c].next
        BY <3>2, <1>t DEF CallFlush, CallRead
      <4> QED
        BY <3>r, <4>1 DEF Reserved
    <3>3. CASE MemAppendFail(c) \/ MemAppendDone(c) \/ FlushDone(c) \/ ReadMemHit(c) \/ ReadInstalled(c)
      <4>1. Return(c)
        BY <3>3 DEF MemAppendFail, MemAppendDone, FlushDone, ReadMemHit, ReadInstalled
      <4>2. cpc'[c] = "idle" /\ req'[c].next = 1
        BY <4>1, <1>t DEF Return, NoReq
      <4> QED
        BY <4>2 DEF Reserved
    <3>4. CASE MemAppendFull(c) \/ FlushStart(c) \/ FlushSleep(c) \/ ReadMemMiss(c)
      <4>1. /\ cpc'[c] \in {"append", "flushWait", "readInstalled"} /\ req' = req
            /\ cpc[c] # "memWrite" /\ (cpc'[c] = "append" => cpc[c] = "append")
        BY <3>4, <1>t DEF MemAppendFull, FlushStart, FlushSleep, ReadMemMiss, clivars
      <4> QED
        BY <3>r, <4>1 DEF Reserved
    <3>5. CASE MemAppendStart(c)
      <4>1. /\ cpc[c] = "append" /\ cpc'[c] = "memWrite" /\ req' = req /\ memLock' = c
            /\ memLog' = memLog /\ diskEnd' = diskEnd
            /\ ~UpdatesOverflow(Len(req[c].bufs)) /\ MemLogHasSpace(Len(req[c].bufs))
        BY <3>5, <1>t DEF MemAppendStart, Keep, stvars
      <4> DEFINE n == Len(req[c].bufs)
      <4>2. n \in Nat /\ n <= LOGSZ /\ req[c].next = 1
        BY <1>r, <3>r, <4>1 DEF Reserved
      <4>3. Left(c)' = n /\ req'[c].next = 1 /\ Len(req'[c].bufs) = n
        BY <4>1, <4>2 DEF Left
      <4>4. End(memLog)' = End(memLog)
        BY <4>1 DEF End
      <4>5. End(memLog) - diskEnd + n <= LOGSZ
        BY <4>1 DEF MemLogHasSpace
      <4>6. End(memLog) < U64 /\ ~UpdatesOverflow(n)
        BY <1>a, <4>1 DEF PositionsOrdered
      <4> HIDE DEF n
      <4>7. End(memLog) + n < U64
        BY <1>t, <4>2, <4>6, NoOverflow
      <4>8. End(memLog) + n - diskEnd <= LOGSZ /\ n >= 0
        BY <1>t, <4>2, <4>5
      <4> QED
        BY <4>1, <4>2, <4>3, <4>4, <4>7, <4>8 DEF Reserved
    <3>6. CASE MemWriteOne(c)
      <4> DEFINE u == req[c].bufs[req[c].next]
      <4>1. /\ cpc[c] = "memWrite" /\ cpc' = cpc /\ req[c].next <= Len(req[c].bufs)
            /\ memLog' = MemWrite(memLog, u) /\ memLock' = memLock /\ diskEnd' = diskEnd
            /\ req' = [req EXCEPT ![c].next = req[c].next + 1]
        BY <3>6 DEF MemWriteOne, lockvars
      <4>2. /\ memLock = c /\ 1 <= req[c].next
            /\ End(memLog) + Left(c) - diskEnd <= LOGSZ /\ End(memLog) + Left(c) < U64
            /\ Len(req[c].bufs) <= LOGSZ
        BY <3>r, <4>1 DEF Reserved
      <4>3. req'[c].bufs = req[c].bufs /\ req'[c].next = req[c].next + 1
        BY <1>t, <4>1
      <4>4. u \in Update
        BY <1>r, <4>1, <4>2
      <4> HIDE DEF u
      <4>5. memLog.start <= memLog.mutable /\ memLog.mutable <= End(memLog)
        <5>1. memLog.start \in Nat /\ memLog.mutable \in Nat
          BY <1>t, LogFacts
        <5> QED
          BY <1>a, <1>t, <5>1 DEF PositionsOrdered
      <4>6. End(memLog)' \in {End(memLog), End(memLog) + 1}
        <5>1. End(MemWrite(memLog, u)) \in {End(memLog), End(memLog) + 1}
          BY <1>t, <4>4, <4>5, MemWriteEffect
        <5> QED
          BY <4>1, <5>1 DEF End
      <4>7. /\ Left(c)' = Left(c) - 1 /\ Left(c) \in Nat /\ Left(c) >= 1
        BY <1>r, <4>1, <4>3 DEF Left
      <4> DEFINE k == Left(c)
                 e == End(memLog)
                 e2 == End(memLog)'
      <4>8. k \in Nat /\ k >= 1 /\ e \in Nat /\ e2 \in {e, e + 1} /\ e + k - diskEnd <= LOGSZ /\ e + k < U64
        BY <1>t, <4>2, <4>6, <4>7
      <4>9. Left(c)' = k - 1
        BY <4>7
      <4>10. 1 <= req'[c].next /\ req'[c].next \in Nat
        BY <1>r, <4>3
      <4> HIDE DEF k, e, e2
      <4>11. e2 + (k - 1) - diskEnd <= LOGSZ /\ e2 + (k - 1) < U64 /\ k - 1 >= 0
        BY <1>t, <4>8
      <4>12. End(memLog)' + Left(c)' - diskEnd' <= LOGSZ /\ End(memLog)' + Left(c)' < U64 /\ Left(c)' >= 0
        BY <4>1, <4>9, <4>11 DEF e2
      <4> QED
        BY <4>1, <4>2, <4>3, <4>10, <4>12 DEF Reserved
    <3> QED
      BY <1>2, <2>2, <3>1, <3>2, <3>3, <3>4, <3>5, <3>6 DEF Call, ClientNext
  <2> QED
    BY <2>1, <2>2
<1>3. CASE Crash
  <2>1. cpc' = [c \in Client |-> "idle"] /\ req' = [c \in Client |-> NoReq]
    BY <1>3 DEF Crash, Recover
  <2>2. ASSUME NEW c \in Client PROVE Reserved(c)'
    <3>1. cpc'[c] = "idle" /\ req'[c].next = 1
      BY <2>1 DEF NoReq
    <3> QED
      BY <3>1 DEF Reserved
  <2> QED
    BY <2>2 DEF AppendReserved
<1>4. CASE UNCHANGED vars
  <2>1. UNCHANGED <<cpc, req, memLock, memLog, diskEnd>>
    BY <1>4 DEF vars, clivars, lockvars, stvars
  <2>2. ASSUME NEW c \in Client PROVE Reserved(c)'
    BY <1>0, <2>1
  <2> QED
    BY <2>2 DEF AppendReserved
<1> QED
  BY <1>1, <1>2, <1>3, <1>4 DEF Next

-----------------------------------------------------------------------------
(* What the headers say. *)

(* A barrier leaves each header its latest value only. *)
LEMMA BarrierEffect ==
  ASSUME Barrier
  PROVE  /\ hdr1'.latest = hdr1.latest /\ hdr1'.pending = {}
         /\ hdr2'.latest = hdr2.latest /\ hdr2'.pending = {}
BY DEF Barrier, FlushBlock, Sync

(* The update a client writes next is one. *)
LEMMA NextUpdate ==
  ASSUME IInv, NEW c \in Client, MemWriteOne(c)
  PROVE  /\ req[c].bufs[req[c].next] \in Update
         /\ memLog \in SlidingType
         /\ memLog.start <= memLog.mutable /\ memLog.mutable <= End(memLog)
<1>1. /\ memLog \in SlidingType /\ diskEnd \in Nat
      /\ req \in [Client -> [bufs : Seq(Update), next : Nat, pos : Nat, addr : Addr \cup {NoAddr}]]
  BY DEF IInv, TypeOK
<1>2. cpc[c] = "memWrite" /\ req[c].next <= Len(req[c].bufs)
  BY DEF MemWriteOne
<1>3. 1 <= req[c].next
  BY <1>2 DEF IInv, PositionsInv, AppendReserved, Reserved
<1>4. req[c].bufs \in Seq(Update) /\ req[c].next \in Nat
  BY <1>1
<1>5. memLog.start <= diskEnd /\ diskEnd <= memLog.mutable /\ memLog.mutable <= End(memLog)
  BY DEF IInv, PositionsInv, PositionsOrdered
<1>6. memLog.start \in Nat /\ memLog.mutable \in Nat
  BY <1>1, LogFacts
<1> QED
  BY <1>1, <1>2, <1>3, <1>4, <1>5, <1>6

(* Only the installer's cut and a crash move the start of the log. *)
LEMMA StartFrame ==
  ASSUME IInv, [Next]_vars, ~InstallCut, ~Crash
  PROVE  memLog'.start = memLog.start
<1>t. memLog \in SlidingType
  BY DEF IInv, TypeOK
<1>1. CASE LoggerNext
  <2>1. memLog' \in {memLog, FlushIfNeeded(memLog)}
    BY <1>1 DEF LoggerNext, LoggerStart, LoggerLoop, LoggerExit, LoggerWaitForSpace, LoggerTake,
       LoggerIdle, LoggerBlock, LoggerBarrier, LoggerHdr, LoggerHdrBarrier, LoggerLogged, stvars
  <2> QED
    BY <1>t, <2>1, FlushIfNeededEffect
<1>2. CASE InstallerNext \/ CallShutdown \/ ShutdownNext \/ Wakeup
  BY <1>2 DEF InstallerNext, InstallerStart, InstallerExit, InstallerTake, InstallerIdle,
       InstallBlock, InstallBarrier, InstallAdvance, InstallAdvanceBarrier, stvars,
       CallShutdown, ShutdownNext, ShutdownSleep, ShutdownDone, Wakeup
<1>3. ASSUME NEW c \in Client, Call(c) \/ ClientNext(c)
      PROVE  memLog'.start = memLog.start
  <2>1. CASE MemWriteOne(c)
    <3> DEFINE u == req[c].bufs[req[c].next]
    <3>1. u \in Update /\ memLog.start <= memLog.mutable /\ memLog.mutable <= End(memLog)
      BY <2>1, NextUpdate
    <3>2. memLog' = MemWrite(memLog, u)
      BY <2>1 DEF MemWriteOne
    <3> HIDE DEF u
    <3> QED
      BY <1>t, <3>1, <3>2, MemWriteEffect
  <2>2. CASE MemAppendFull(c) \/ FlushStart(c)
    BY <1>t, <2>2 DEF MemAppendFull, FlushStart, FlushRequest, SlidingType
  <2>3. CASE ~MemWriteOne(c) /\ ~MemAppendFull(c) /\ ~FlushStart(c)
    BY <1>3, <2>3 DEF Call, CallMemAppend, CallFlush, CallRead, ClientNext, MemAppendFail,
         MemAppendStart, MemAppendDone, FlushSleep, FlushDone, ReadMemHit,
         ReadMemMiss, ReadInstalled, stvars
  <2> QED
    BY <2>1, <2>2, <2>3
<1>4. CASE UNCHANGED vars
  BY <1>4 DEF vars, stvars
<1> QED
  BY <1>1, <1>2, <1>3, <1>4 DEF Next

(* Every step keeps what the first header block can hold after a crash. *)
LEMMA Hdr1Step ==
  ASSUME IInv, [Next]_vars
  PROVE  Hdr1Agrees'
<1>a. Hdr1Agrees /\ lpc \in LoggerPc
  BY DEF IInv, DiskInv, TypeOK
<1>0. ASSUME UNCHANGED <<diskEnd, lpc>>, lg'.end = lg.end,
             UNCHANGED hdr1 \/ Barrier
      PROVE  Hdr1Agrees'
  BY <1>0, <1>a, BarrierEffect DEF Hdr1Agrees
<1>1. CASE LoggerNext
  <2>1. CASE LoggerStart \/ LoggerLoop \/ LoggerExit \/ LoggerTake \/ LoggerIdle \/ LoggerWaitForSpace
    <3>1. /\ UNCHANGED <<diskEnd, hdr1>> /\ lpc \in {"start", "loop", "space"}
          /\ lpc' \in {"loop", "space", "done", "logBlocks"}
      BY <2>1 DEF LoggerStart, LoggerLoop, LoggerExit, LoggerTake, LoggerIdle, LoggerWaitForSpace,
           stvars, diskvars, logvars
    <3> QED
      BY <1>a, <3>1 DEF Hdr1Agrees
  <2>2. CASE LoggerBlock
    <3>1. UNCHANGED <<diskEnd, hdr1, lpc>> /\ lpc = "logBlocks"
      BY <2>2 DEF LoggerBlock, stvars
    <3> QED
      BY <1>a, <3>1 DEF Hdr1Agrees
  <2>3. CASE LoggerBarrier
    <3>1. diskEnd' = diskEnd /\ Barrier /\ lpc = "logBlocks" /\ lpc' = "hdr"
      BY <2>3 DEF LoggerBarrier, LoggedBarrier, stvars
    <3> QED
      BY <1>a, <3>1, BarrierEffect DEF Hdr1Agrees
  <2>4. CASE LoggerHdr
    <3>1. /\ diskEnd' = diskEnd /\ lg' = lg /\ lpc = "hdr" /\ lpc' = "hdrBarrier"
          /\ hdr1'.latest = [end |-> lg.end, addrs |-> diskAddrs]
          /\ hdr1'.pending = Possible(hdr1)
      BY <2>4 DEF LoggerHdr, AsyncPut, stvars
    <3>2. Possible(hdr1) = {hdr1.latest} /\ hdr1.latest.end = diskEnd
      BY <1>a, <3>1 DEF Hdr1Agrees, Possible
    <3> QED
      BY <3>1, <3>2 DEF Hdr1Agrees
  <2>5. CASE LoggerHdrBarrier
    <3>1. diskEnd' = diskEnd /\ lg' = lg /\ Barrier /\ lpc = "hdrBarrier" /\ lpc' = "logged"
      BY <2>5 DEF LoggerHdrBarrier, HdrBarrier, stvars
    <3> QED
      BY <1>a, <3>1, BarrierEffect DEF Hdr1Agrees
  <2>6. CASE LoggerLogged
    <3>1. diskEnd' = lg.end /\ hdr1' = hdr1 /\ lpc = "logged" /\ lpc' = "loop"
      BY <2>6 DEF LoggerLogged, LoggedEnd, diskvars
    <3> QED
      BY <1>a, <3>1 DEF Hdr1Agrees
  <2> QED
    BY <1>1, <2>1, <2>2, <2>3, <2>4, <2>5, <2>6 DEF LoggerNext
<1>2. CASE InstallerNext \/ CallShutdown \/ ShutdownNext \/ Wakeup
  <2>1. UNCHANGED <<diskEnd, lpc, lg>> /\ (UNCHANGED hdr1 \/ Barrier)
    BY <1>2 DEF InstallerNext, InstallerStart, InstallerExit, InstallerTake, InstallerIdle,
       InstallBlock, InstallBarrier, InstalledBarrier, InstallAdvance, InstallAdvanceBarrier, InstallCut,
       CallShutdown, ShutdownNext, ShutdownSleep, ShutdownDone, Wakeup, stvars, logvars, diskvars
  <2> QED
    BY <1>0, <2>1
<1>3. ASSUME NEW c \in Client, Call(c) \/ ClientNext(c)
      PROVE  Hdr1Agrees'
  <2>1. UNCHANGED <<diskEnd, lpc, lg, hdr1>>
    BY <1>3, ClientFrame DEF diskvars
  <2> QED
    BY <1>0, <2>1
<1>4. CASE Crash
  <2>1. PICK h1 \in Possible(hdr1) : hdr1' = Sync(h1) /\ diskEnd' = h1.end /\ lpc' = "start"
    BY <1>4 DEF Crash, Recover
  <2> QED
    BY <2>1 DEF Hdr1Agrees, Sync
<1>5. CASE UNCHANGED vars
  BY <1>0, <1>5 DEF vars, stvars, logvars, diskvars
<1> QED
  BY <1>1, <1>2, <1>3, <1>4, <1>5 DEF Next

(* Every step keeps what the second header block can hold after a crash. *)
LEMMA Hdr2Step ==
  ASSUME IInv, [Next]_vars
  PROVE  Hdr2Agrees'
<1>a. Hdr2Agrees /\ ipc \in InstallerPc
  BY DEF IInv, DiskInv, TypeOK
<1>0. ASSUME memLog'.start = memLog.start, ipc' = ipc, inst'.end = inst.end,
             UNCHANGED hdr2 \/ Barrier
      PROVE  Hdr2Agrees'
  BY <1>0, <1>a, BarrierEffect DEF Hdr2Agrees
<1>s. ~InstallCut /\ ~Crash => memLog'.start = memLog.start
  BY StartFrame
<1>1. CASE InstallerNext /\ ~InstallCut
  <2>1. CASE InstallerStart \/ InstallerExit \/ InstallerTake \/ InstallerIdle
    <3>1. /\ UNCHANGED <<memLog, hdr2>> /\ ipc \in {"start", "loop"}
          /\ ipc' \in {"loop", "done", "install"}
      BY <2>1 DEF InstallerStart, InstallerExit, InstallerTake, InstallerIdle, stvars, diskvars, instvars
    <3> QED
      BY <1>a, <3>1 DEF Hdr2Agrees
  <2>2. CASE InstallBlock
    <3>1. UNCHANGED <<memLog, hdr2, ipc>> /\ ipc = "install"
      BY <2>2 DEF InstallBlock, stvars
    <3> QED
      BY <1>a, <3>1 DEF Hdr2Agrees
  <2>3. CASE InstallBarrier
    <3>1. memLog' = memLog /\ Barrier /\ ipc = "install" /\ ipc' = "advance"
      BY <2>3 DEF InstallBarrier, InstalledBarrier, stvars
    <3> QED
      BY <1>a, <3>1, BarrierEffect DEF Hdr2Agrees
  <2>4. CASE InstallAdvance
    <3>1. /\ memLog' = memLog /\ inst' = inst /\ ipc = "advance" /\ ipc' = "advBarrier"
          /\ hdr2'.latest = inst.end /\ hdr2'.pending = Possible(hdr2)
      BY <2>4 DEF InstallAdvance, AsyncPut, stvars
    <3>2. Possible(hdr2) = {memLog.start}
      BY <1>a, <3>1 DEF Hdr2Agrees, Possible
    <3> QED
      BY <3>1, <3>2 DEF Hdr2Agrees
  <2>5. CASE InstallAdvanceBarrier
    <3>1. memLog' = memLog /\ inst' = inst /\ Barrier /\ ipc = "advBarrier" /\ ipc' = "installed"
      BY <2>5 DEF InstallAdvanceBarrier, stvars
    <3> QED
      BY <1>a, <3>1, BarrierEffect DEF Hdr2Agrees
  <2> QED
    BY <1>1, <2>1, <2>2, <2>3, <2>4, <2>5 DEF InstallerNext
<1>2. CASE InstallCut
  <2>1. /\ memLog' = DeleteFrom(memLog, inst.end) /\ hdr2' = hdr2
        /\ ipc = "installed" /\ ipc' = "loop"
    BY <1>2 DEF InstallCut, CutEnd, diskvars
  <2>2. memLog \in SlidingType
    BY DEF IInv, TypeOK
  <2>3. memLog'.start = inst.end
    BY <2>1, <2>2 DEF DeleteFrom, SlidingType
  <2> QED
    BY <1>a, <2>1, <2>3 DEF Hdr2Agrees
<1>3. CASE LoggerNext \/ CallShutdown \/ ShutdownNext \/ Wakeup
  <2>1. UNCHANGED <<ipc, inst>> /\ (UNCHANGED hdr2 \/ Barrier)
    BY <1>3 DEF LoggerNext, LoggerStart, LoggerLoop, LoggerExit, LoggerWaitForSpace, LoggerTake,
       LoggerIdle, LoggerBlock, LoggerBarrier, LoggedBarrier, LoggerHdr, LoggerHdrBarrier, HdrBarrier,
       LoggerLogged, CallShutdown, ShutdownNext, ShutdownSleep, ShutdownDone, Wakeup, instvars, diskvars
  <2>2. ~InstallCut /\ ~Crash
    <3>1. CASE InstallCut
      <4>1. ipc = "installed" /\ ipc' = "loop"
        BY <3>1 DEF InstallCut
      <4> QED
        BY <2>1, <4>1
    <3>2. CASE Crash
      <4>1. crashes' = crashes + 1 /\ crashes' = crashes /\ crashes \in Nat
        BY <1>3, <3>2, OthersFrame DEF Crash, IInv, TypeOK
      <4> QED
        BY <4>1
    <3> QED
      BY <3>1, <3>2
  <2> QED
    BY <1>0, <1>s, <2>1, <2>2
<1>4. ASSUME NEW c \in Client, Call(c) \/ ClientNext(c)
      PROVE  Hdr2Agrees'
  <2>1. UNCHANGED <<ipc, inst, hdr2, crashes>>
    BY <1>4, ClientFrame DEF diskvars
  <2>2. ~InstallCut
    BY <2>1 DEF InstallCut
  <2>3. ~Crash
    <3>1. crashes \in Nat
      BY DEF IInv, TypeOK
    <3> QED
      BY <2>1, <3>1 DEF Crash
  <2> QED
    BY <1>0, <1>s, <2>1, <2>2, <2>3
<1>5. CASE Crash
  <2>1. PICK h1 \in Possible(hdr1), h2 \in Possible(hdr2), lb \in CrashDisks(logblk),
             db \in CrashDisks(data) : Recover(h1, h2, lb, db)
    BY <1>5 DEF Crash
  <2>2. memLog'.start = h2
    BY <2>1, CrashMemLog
  <2>3. hdr2' = Sync(h2) /\ ipc' = "start"
    BY <2>1 DEF Recover
  <2> QED
    BY <2>2, <2>3 DEF Hdr2Agrees, Sync
<1>6. CASE UNCHANGED vars
  BY <1>0, <1>6 DEF vars, stvars, diskvars, instvars
<1> QED
  BY <1>1, <1>2, <1>3, <1>4, <1>5, <1>6 DEF Next

(* A position's slot, once filled, keeps having an address. *)
Filled(addrs, n) == \A p \in 0 .. n - 1 : addrs[SlotOf(p)] \in Addr

(* Every step keeps an address in each slot of the header that was used. *)
LEMMA AddrsStep ==
  ASSUME IInv, [Next]_vars
  PROVE  AddrsKnown'
<1>t. /\ memLog \in SlidingType /\ diskEnd \in Nat /\ lpc \in LoggerPc
      /\ lg.end \in Nat /\ lg.next \in Nat
      /\ lg \in [end : Nat, next : Nat]
      /\ diskAddrs \in [Slot -> Addr \cup {NoAddr}]
  BY DEF IInv, TypeOK
<1>a. /\ Filled(diskAddrs, diskEnd)
      /\ LoggerBusy => Filled(diskAddrs, lg.next)
      /\ \A h \in Possible(hdr1) : Filled(h.addrs, h.end)
  BY DEF IInv, DiskInv, AddrsKnown, Filled
<1>g. SUFFICES /\ Filled(diskAddrs', diskEnd')
               /\ LoggerBusy' => Filled(diskAddrs', lg'.next)
               /\ \A h \in Possible(hdr1') : Filled(h.addrs, h.end)
  BY DEF AddrsKnown, Filled, Possible
<1>b. ASSUME UNCHANGED hdr1 \/ Barrier
      PROVE  \A h \in Possible(hdr1') : Filled(h.addrs, h.end)
  BY <1>a, <1>b, BarrierEffect DEF Possible
<1>0. ASSUME UNCHANGED <<diskEnd, diskAddrs, lpc, lg>>, UNCHANGED hdr1 \/ Barrier
      PROVE  /\ Filled(diskAddrs', diskEnd')
             /\ LoggerBusy' => Filled(diskAddrs', lg'.next)
             /\ \A h \in Possible(hdr1') : Filled(h.addrs, h.end)
  BY <1>0, <1>a, <1>b DEF LoggerBusy
<1>1. CASE LoggerNext
  <2>1. CASE LoggerStart \/ LoggerLoop \/ LoggerExit \/ LoggerIdle \/ LoggerWaitForSpace
    <3>1. /\ UNCHANGED <<diskEnd, diskAddrs, hdr1>> /\ lpc' \in {"loop", "space", "done"}
      BY <2>1 DEF LoggerStart, LoggerLoop, LoggerExit, LoggerIdle, LoggerWaitForSpace,
           stvars, diskvars, logvars
    <3> QED
      BY <1>a, <1>b, <3>1 DEF LoggerBusy
  <2>2. CASE LoggerTake
    <3>1. UNCHANGED <<diskEnd, diskAddrs, hdr1>> /\ lg'.next = diskEnd
      BY <2>2 DEF LoggerTake, diskvars
    <3> QED
      BY <1>a, <1>b, <3>1
  <2>3. CASE LoggerBlock
    <3> DEFINE a == Get(memLog, lg.next).Addr
    <3>1. /\ UNCHANGED <<diskEnd, hdr1, lpc>> /\ LoggerBusy
          /\ diskAddrs' = [diskAddrs EXCEPT ![SlotOf(lg.next)] = a]
          /\ lg'.next = lg.next + 1 /\ lg.next < lg.end
      BY <1>t, <2>3 DEF LoggerBlock, stvars, LoggerBusy
    <3>2. a \in Addr
      <4>1. memLog.start <= lg.next /\ lg.next < End(memLog)
        <5>1. /\ memLog.start <= diskEnd /\ diskEnd <= lg.next /\ lg.end <= memLog.mutable
              /\ memLog.mutable <= End(memLog)
          BY <3>1 DEF IInv, PositionsInv, PositionsOrdered
        <5>2. memLog.start \in Nat /\ memLog.mutable \in Nat /\ End(memLog) \in Nat
          BY <1>t, LogFacts
        <5> QED
          BY <1>t, <3>1, <5>1, <5>2
      <4>2. lg.next - memLog.start + 1 \in 1 .. Len(memLog.log) /\ memLog.log \in Seq(Update)
        BY <1>t, <4>1, LogFacts
      <4>3. Get(memLog, lg.next) \in Update
        BY <4>2 DEF Get
      <4> QED
        BY <4>3 DEF Update
    <3> HIDE DEF a
    <3>3. ASSUME NEW n \in Nat, Filled(diskAddrs, n)
          PROVE  Filled(diskAddrs', n)
      <4> SUFFICES ASSUME NEW p \in 0 .. n - 1 PROVE diskAddrs'[SlotOf(p)] \in Addr
        BY DEF Filled
      <4>1. SlotOf(p) \in Slot /\ diskAddrs[SlotOf(p)] \in Addr
        BY <3>3, SlotRange DEF Filled
      <4> QED
        BY <1>t, <3>1, <3>2, <4>1
    <3>4. Filled(diskAddrs', lg.next + 1)
      <4> SUFFICES ASSUME NEW p \in 0 .. lg.next PROVE diskAddrs'[SlotOf(p)] \in Addr
        BY <1>t DEF Filled
      <4>1. SlotOf(p) \in Slot /\ SlotOf(lg.next) \in Slot
        BY <1>t, SlotRange
      <4>2. CASE p = lg.next
        BY <1>t, <3>1, <3>2, <4>1, <4>2
      <4>3. CASE p # lg.next
        BY <1>a, <1>t, <3>1, <3>3, <4>3 DEF Filled
      <4> QED
        BY <4>2, <4>3
    <3> QED
      BY <1>a, <1>b, <1>t, <3>1, <3>3, <3>4
  <2>4. CASE LoggerBarrier \/ LoggerHdrBarrier
    <3>1. UNCHANGED <<diskEnd, diskAddrs, lg>> /\ Barrier /\ LoggerBusy
      BY <2>4 DEF LoggerBarrier, LoggedBarrier, LoggerHdrBarrier, HdrBarrier, stvars, LoggerBusy
    <3> QED
      BY <1>a, <1>b, <3>1
  <2>5. CASE LoggerHdr
    <3>1. /\ UNCHANGED <<diskEnd, diskAddrs, lg>> /\ LoggerBusy /\ lg.next = lg.end
          /\ hdr1' = AsyncPut([end |-> lg.end, addrs |-> diskAddrs], hdr1)
      BY <2>5 DEF LoggerHdr, stvars, LoggerBusy, IInv, PositionsInv, BlocksWritten
    <3>2. ASSUME NEW h \in Possible(hdr1')
          PROVE  Filled(h.addrs, h.end)
      <4>1. h = [end |-> lg.end, addrs |-> diskAddrs] \/ h \in Possible(hdr1)
        BY <3>1 DEF AsyncPut, Possible
      <4> QED
        BY <1>a, <3>1, <4>1
    <3> QED
      BY <1>a, <3>1, <3>2
  <2>6. CASE LoggerLogged
    <3>1. /\ UNCHANGED <<diskAddrs, hdr1>> /\ diskEnd' = lg.next /\ lpc' = "loop" /\ LoggerBusy
      BY <2>6 DEF LoggerLogged, LoggedEnd, diskvars, LoggerBusy, IInv, PositionsInv, BlocksWritten
    <3> QED
      BY <1>a, <1>b, <3>1 DEF LoggerBusy
  <2> QED
    BY <1>1, <2>1, <2>2, <2>3, <2>4, <2>5, <2>6 DEF LoggerNext
<1>2. CASE InstallerNext \/ CallShutdown \/ ShutdownNext \/ Wakeup
  <2>1. UNCHANGED <<diskEnd, lpc, lg, diskAddrs>> /\ (UNCHANGED hdr1 \/ Barrier)
    BY <1>2 DEF InstallerNext, InstallerStart, InstallerExit, InstallerTake, InstallerIdle,
       InstallBlock, InstallBarrier, InstalledBarrier, InstallAdvance, InstallAdvanceBarrier, InstallCut,
       CallShutdown, ShutdownNext, ShutdownSleep, ShutdownDone, Wakeup, stvars, logvars, diskvars
  <2> QED
    BY <1>0, <2>1
<1>3. ASSUME NEW c \in Client, Call(c) \/ ClientNext(c)
      PROVE  /\ Filled(diskAddrs', diskEnd')
             /\ LoggerBusy' => Filled(diskAddrs', lg'.next)
             /\ \A h \in Possible(hdr1') : Filled(h.addrs, h.end)
  <2>1. UNCHANGED <<diskEnd, lpc, lg, diskAddrs, hdr1>>
    BY <1>3, ClientFrame DEF diskvars
  <2> QED
    BY <1>0, <2>1
<1>4. CASE Crash
  <2>1. PICK h1 \in Possible(hdr1) :
          hdr1' = Sync(h1) /\ diskEnd' = h1.end /\ diskAddrs' = h1.addrs /\ lpc' = "start"
    BY <1>4 DEF Crash, Recover
  <2>2. Possible(hdr1') = {h1}
    BY <2>1 DEF Sync, Possible
  <2> QED
    BY <1>a, <2>1, <2>2 DEF LoggerBusy
<1>5. CASE UNCHANGED vars
  BY <1>0, <1>5 DEF vars, stvars, logvars, diskvars
<1> QED
  BY <1>1, <1>2, <1>3, <1>4, <1>5 DEF Next

-----------------------------------------------------------------------------
(* Types. *)

(* The operations of the disk keep the type of a block. *)
LEMMA AsyncTypes ==
  ASSUME NEW V, NEW v \in V, NEW ab \in AsyncOf(V)
  PROVE  /\ Sync(v) \in AsyncOf(V)
         /\ AsyncPut(v, ab) \in AsyncOf(V)
         /\ FlushBlock(ab) \in AsyncOf(V)
         /\ Possible(ab) \subseteq V
BY DEF Sync, AsyncPut, FlushBlock, Possible, AsyncOf

DiskType ==
  /\ hdr1 \in AsyncOf(Header1)
  /\ hdr2 \in AsyncOf(Nat)
  /\ logblk \in [Slot -> AsyncOf(Nat)]
  /\ data \in [Addr -> AsyncOf(Nat)]
  /\ diskAddrs \in [Slot -> Addr \cup {NoAddr}]

(* A barrier keeps the type of the disk. *)
LEMMA BarrierType ==
  ASSUME DiskType, Barrier, UNCHANGED diskAddrs
  PROVE  DiskType'
<1>1. hdr1' \in AsyncOf(Header1)
  BY DEF DiskType, Barrier, FlushBlock, Sync, AsyncOf
<1>2. hdr2' \in AsyncOf(Nat)
  BY DEF DiskType, Barrier, FlushBlock, Sync, AsyncOf
<1>3. \A ab \in AsyncOf(Nat) : FlushBlock(ab) \in AsyncOf(Nat)
  BY DEF FlushBlock, Sync, AsyncOf
<1>4. logblk' \in [Slot -> AsyncOf(Nat)]
  BY <1>3 DEF DiskType, Barrier, FlushDisk
<1>5. data' \in [Addr -> AsyncOf(Nat)]
  BY <1>3 DEF DiskType, Barrier, FlushDisk
<1> QED
  BY <1>1, <1>2, <1>4, <1>5 DEF DiskType

(* An update in the log is one, and so can be written to a slot or installed. *)
LEMMA GetType ==
  ASSUME IInv, NEW p \in Nat, memLog.start <= p, p < memLog.mutable
  PROVE  Get(memLog, p) \in Update
<1>1. memLog \in SlidingType /\ memLog.mutable <= End(memLog)
  BY DEF IInv, TypeOK, PositionsInv, PositionsOrdered
<1>2. p - memLog.start + 1 \in 1 .. Len(memLog.log) /\ memLog.log \in Seq(Update)
  BY <1>1, LogFacts
<1> QED
  BY <1>2 DEF Get

(* Every step keeps the type of the disk. *)
LEMMA DiskTypeStep ==
  ASSUME IInv, [Next]_vars
  PROVE  DiskType'
<1>a. /\ DiskType /\ diskEnd \in Nat /\ memLog \in SlidingType
      /\ lg.next \in Nat /\ lg.end \in Nat /\ inst.next \in Nat /\ inst.end \in Nat
      /\ memLog.start \in Nat /\ memLog.mutable \in Nat /\ End(memLog) \in Nat
  BY LogFacts DEF IInv, TypeOK, DiskType
<1>o. PositionsOrdered
  BY DEF IInv, PositionsInv
<1>0. ASSUME UNCHANGED <<diskvars, diskAddrs>> \/ (Barrier /\ UNCHANGED diskAddrs)
      PROVE  DiskType'
  <2>1. CASE UNCHANGED <<diskvars, diskAddrs>>
    BY <1>a, <2>1 DEF DiskType, diskvars
  <2> QED
    BY <1>0, <1>a, <2>1, BarrierType
<1>1. CASE LoggerNext
  <2>1. CASE LoggerBlock
    <3> DEFINE u == Get(memLog, lg.next)
               i == SlotOf(lg.next)
    <3>1. /\ UNCHANGED <<hdr1, hdr2, data>> /\ lpc = "logBlocks" /\ lg.next < lg.end
          /\ logblk' = [logblk EXCEPT ![i] = AsyncPut(u.Block, logblk[i])]
          /\ diskAddrs' = [diskAddrs EXCEPT ![i] = u.Addr]
      BY <2>1 DEF LoggerBlock
    <3>2. memLog.start <= lg.next /\ lg.next < memLog.mutable
      BY <1>a, <1>o, <3>1 DEF PositionsOrdered, LoggerBusy
    <3>3. u \in Update /\ i \in Slot
      BY <1>a, <3>2, GetType, SlotRange
    <3> HIDE DEF u, i
    <3>4. u.Block \in Nat /\ u.Addr \in Addr
      BY <3>3 DEF Update
    <3>5. AsyncPut(u.Block, logblk[i]) \in AsyncOf(Nat)
      BY <1>a, <3>3, <3>4, AsyncTypes DEF DiskType
    <3> QED
      BY <1>a, <3>1, <3>3, <3>4, <3>5 DEF DiskType
  <2>2. CASE LoggerHdr
    <3> DEFINE h == [end |-> lg.end, addrs |-> diskAddrs]
    <3>1. UNCHANGED <<hdr2, logblk, data, diskAddrs>> /\ hdr1' = AsyncPut(h, hdr1)
      BY <2>2 DEF LoggerHdr
    <3>2. h \in Header1
      BY <1>a DEF DiskType, Header1
    <3> HIDE DEF h
    <3>3. hdr1' \in AsyncOf(Header1)
      BY <1>a, <3>1, <3>2, AsyncTypes DEF DiskType
    <3> QED
      BY <1>a, <3>1, <3>3 DEF DiskType
  <2>3. CASE ~LoggerBlock /\ ~LoggerHdr
    <3>1. UNCHANGED <<diskvars, diskAddrs>> \/ (Barrier /\ UNCHANGED diskAddrs)
      BY <1>1, <2>3 DEF LoggerNext, LoggerStart, LoggerLoop, LoggerExit, LoggerWaitForSpace, LoggerTake,
           LoggerIdle, LoggerBarrier, LoggedBarrier, LoggerHdrBarrier, HdrBarrier, LoggerLogged, logvars
    <3> QED
      BY <1>0, <3>1
  <2> QED
    BY <2>1, <2>2, <2>3
<1>2. CASE InstallerNext
  <2>1. CASE InstallBlock
    <3> DEFINE u == Get(memLog, inst.next)
    <3>1. /\ UNCHANGED <<hdr1, hdr2, logblk, diskAddrs>> /\ ipc = "install" /\ inst.next < inst.end
          /\ data' = [data EXCEPT ![u.Addr] = AsyncPut(u.Block, data[u.Addr])]
      BY <2>1 DEF InstallBlock, InstallPos, logvars
    <3>2. memLog.start <= inst.next /\ inst.next < memLog.mutable
      BY <1>a, <1>o, <3>1 DEF PositionsOrdered, InstallerBusy
    <3>3. u \in Update
      BY <1>a, <3>2, GetType
    <3> HIDE DEF u
    <3>4. u.Block \in Nat /\ u.Addr \in Addr
      BY <3>3 DEF Update
    <3>5. AsyncPut(u.Block, data[u.Addr]) \in AsyncOf(Nat)
      BY <1>a, <3>4, AsyncTypes DEF DiskType
    <3> QED
      BY <1>a, <3>1, <3>4, <3>5 DEF DiskType
  <2>2. CASE InstallAdvance
    <3>1. UNCHANGED <<hdr1, logblk, data, diskAddrs>> /\ hdr2' = AsyncPut(inst.end, hdr2)
      BY <2>2 DEF InstallAdvance, logvars
    <3>2. hdr2' \in AsyncOf(Nat)
      BY <1>a, <3>1, AsyncTypes DEF DiskType
    <3> QED
      BY <1>a, <3>1, <3>2 DEF DiskType
  <2>3. CASE ~InstallBlock /\ ~InstallAdvance
    <3>1. UNCHANGED <<diskvars, diskAddrs>> \/ (Barrier /\ UNCHANGED diskAddrs)
      BY <1>2, <2>3 DEF InstallerNext, InstallerStart, InstallerExit, InstallerTake, InstallerIdle,
           InstallBarrier, InstalledBarrier, InstallAdvanceBarrier, InstallCut, logvars
    <3> QED
      BY <1>0, <3>1
  <2> QED
    BY <2>1, <2>2, <2>3
<1>3. ASSUME NEW c \in Client, Call(c) \/ ClientNext(c)
      PROVE  DiskType'
  BY <1>0, <1>3, ClientFrame
<1>4. CASE CallShutdown \/ ShutdownNext \/ Wakeup
  BY <1>0, <1>4 DEF CallShutdown, ShutdownNext, ShutdownSleep, ShutdownDone, Wakeup, logvars
<1>5. CASE Crash
  <2>1. PICK h1 \in Possible(hdr1), h2 \in Possible(hdr2), lb \in CrashDisks(logblk),
             db \in CrashDisks(data) : Recover(h1, h2, lb, db)
    BY <1>5 DEF Crash
  <2>2. h1 \in Header1 /\ h2 \in Nat
    BY <2>1, CrashHeaders
  <2>3. hdr1' \in AsyncOf(Header1) /\ hdr2' \in AsyncOf(Nat)
    BY <1>a, <2>1, <2>2, AsyncTypes DEF Recover, DiskType
  <2>4. diskAddrs' \in [Slot -> Addr \cup {NoAddr}]
    BY <2>1, <2>2 DEF Recover, Header1
  <2>5. logblk' \in [Slot -> AsyncOf(Nat)]
    <3>1. DOMAIN lb = Slot /\ \A i \in Slot : lb[i] \in Possible(logblk[i])
      BY <1>a, <2>1 DEF CrashDisks, DiskType
    <3>2. \A i \in Slot : Sync(lb[i]) \in AsyncOf(Nat)
      BY <1>a, <3>1 DEF DiskType, Possible, Sync, AsyncOf
    <3> QED
      BY <2>1, <3>1, <3>2 DEF Recover, SyncDisk
  <2>6. data' \in [Addr -> AsyncOf(Nat)]
    <3>1. DOMAIN db = Addr /\ \A i \in Addr : db[i] \in Possible(data[i])
      BY <1>a, <2>1 DEF CrashDisks, DiskType
    <3>2. \A i \in Addr : Sync(db[i]) \in AsyncOf(Nat)
      BY <1>a, <3>1 DEF DiskType, Possible, Sync, AsyncOf
    <3> QED
      BY <2>1, <3>1, <3>2 DEF Recover, SyncDisk
  <2> QED
    BY <2>3, <2>4, <2>5, <2>6 DEF DiskType
<1>6. CASE UNCHANGED vars
  BY <1>0, <1>6 DEF vars, logvars
<1> QED
  BY <1>1, <1>2, <1>3, <1>4, <1>5, <1>6 DEF Next

MemLogTyped == memLog \in SlidingType

(* Every step keeps the type of memLog and diskEnd. *)
LEMMA MemLogTypeStep ==
  ASSUME IInv, [Next]_vars
  PROVE  MemLogTyped'
<1> USE DEF MemLogTyped
<1>a. /\ memLog \in SlidingType /\ memLog.start \in Nat /\ memLog.mutable \in Nat /\ End(memLog) \in Nat
      /\ inst.end \in Nat /\ diskEnd \in Nat /\ PositionsOrdered
  BY LogFacts DEF IInv, TypeOK, PositionsInv
<1>1. CASE LoggerNext
  <2>1. memLog' \in {memLog, FlushIfNeeded(memLog)}
    BY <1>1 DEF LoggerNext, LoggerStart, LoggerLoop, LoggerExit, LoggerWaitForSpace, LoggerTake,
       LoggerIdle, LoggerBlock, LoggerBarrier, LoggerHdr, LoggerHdrBarrier, LoggerLogged, stvars
  <2> QED
    BY <1>a, <2>1, FlushIfNeededEffect
<1>2. CASE InstallCut
  <2>1. memLog' = DeleteFrom(memLog, inst.end) /\ ipc = "installed"
    BY <1>2 DEF InstallCut, CutEnd
  <2>2. memLog.start <= inst.end /\ inst.end <= End(memLog)
    BY <1>a, <2>1 DEF PositionsOrdered, InstallerBusy
  <2> QED
    BY <1>a, <2>1, <2>2, DeleteFromEffect
<1>3. CASE (InstallerNext /\ ~InstallCut) \/ CallShutdown \/ ShutdownNext \/ Wakeup
  <2>1. memLog' = memLog
    BY <1>3 DEF InstallerNext, InstallerStart, InstallerExit, InstallerTake, InstallerIdle,
       InstallBlock, InstallBarrier, InstallAdvance, InstallAdvanceBarrier, stvars,
       CallShutdown, ShutdownNext, ShutdownSleep, ShutdownDone, Wakeup
  <2> QED
    BY <1>a, <2>1
<1>4. ASSUME NEW c \in Client, Call(c) \/ ClientNext(c)
      PROVE  MemLogTyped'
  <2>1. CASE MemWriteOne(c)
    <3> DEFINE u == req[c].bufs[req[c].next]
    <3>1. u \in Update /\ memLog.start <= memLog.mutable /\ memLog.mutable <= End(memLog)
      BY <2>1, NextUpdate
    <3>2. memLog' = MemWrite(memLog, u)
      BY <2>1 DEF MemWriteOne
    <3> HIDE DEF u
    <3> QED
      BY <1>a, <3>1, <3>2, MemWriteEffect
  <2>2. CASE MemAppendFull(c)
    <3>1. memLog' = [memLog EXCEPT !.needFlush = TRUE]
      BY <2>2 DEF MemAppendFull
    <3> QED
      BY <1>a, <3>1, NeedFlushEffect
  <2>3. CASE FlushStart(c)
    <3>1. memLog' = [memLog EXCEPT !.needFlush = memLog.needFlush \/ req[c].pos > memLog.mutable]
      BY <2>3 DEF FlushStart, FlushRequest
    <3>2. (memLog.needFlush \/ req[c].pos > memLog.mutable) \in BOOLEAN
      BY <1>a DEF SlidingType
    <3> QED
      BY <1>a, <3>1, <3>2, NeedFlushEffect
  <2>4. CASE ~MemWriteOne(c) /\ ~MemAppendFull(c) /\ ~FlushStart(c)
    <3>1. memLog' = memLog
      BY <1>4, <2>4 DEF Call, CallMemAppend, CallFlush, CallRead, ClientNext, MemAppendFail,
         MemAppendStart, MemAppendDone, FlushSleep, FlushDone, ReadMemHit,
         ReadMemMiss, ReadInstalled, stvars
    <3> QED
      BY <1>a, <3>1
  <2> QED
    BY <2>1, <2>2, <2>3, <2>4
<1>5. CASE Crash
  BY <1>5, CrashMemLog DEF Crash
<1>6. CASE UNCHANGED vars
  BY <1>a, <1>6 DEF vars, stvars
<1> QED
  BY <1>1, <1>2, <1>3, <1>4, <1>5, <1>6 DEF Next

ThreadType ==
  /\ diskEnd \in Nat /\ shutdown \in BOOLEAN /\ nthread \in Nat
  /\ memLock \in Thread \cup {Free}
  /\ condLogger \subseteq Thread /\ condInstall \subseteq Thread /\ condShut \subseteq Thread
  /\ lpc \in LoggerPc /\ lg \in [end : Nat, next : Nat]
  /\ ipc \in InstallerPc /\ inst \in [end : Nat, next : Nat]
  /\ spc \in {"idle", "wait", "done"}

(* Every step keeps the type of the lock, conditions and thread state. *)
LEMMA ThreadTypeStep ==
  ASSUME IInv, [Next]_vars
  PROVE  ThreadType'
<1>a. ThreadType
  BY DEF IInv, TypeOK, ThreadType
<1>t. {Logger, Installer, Stopper} \subseteq Thread /\ Client \subseteq Thread
  BY DEF Thread
<1>n. nthread' \in Nat
  <2>1. ThreadsCounted'
    BY ThreadsStep DEF ThreadsInv
  <2> QED
    BY <2>1 DEF ThreadsCounted
<1>0. ASSUME UNCHANGED <<diskEnd, shutdown, nthread, lockvars, lpc, lg, ipc, inst, spc>>
      PROVE  ThreadType'
  BY <1>a, <1>0 DEF ThreadType, lockvars
<1>1. CASE LoggerNext
  <2>0. UNCHANGED <<ipc, inst, spc, shutdown>>
    BY <1>1 DEF LoggerNext, LoggerStart, LoggerLoop, LoggerExit, LoggerWaitForSpace, LoggerTake,
       LoggerIdle, LoggerBlock, LoggerBarrier, LoggerHdr, LoggerHdrBarrier, LoggerLogged, stvars, instvars
  <2>1. /\ memLock' \in {memLock, Logger, Free}
        /\ condLogger' \in {condLogger, condLogger \cup {Logger}, {}}
        /\ condInstall' \in {condInstall, condInstall \cup {Logger}, {}}
        /\ condShut' \in {condShut, condShut \ {Stopper}}
    BY <1>1 DEF LoggerNext, LoggerStart, LoggerLoop, LoggerExit, LoggerWaitForSpace, LoggerTake,
       LoggerIdle, LoggerBlock, LoggerBarrier, LoggerHdr, LoggerHdrBarrier, LoggerLogged, lockvars,
       Keep, Release, ThreadExit, LoggedBroadcasts
  <2>2. lpc' \in LoggerPc
    BY <1>1, <1>a DEF LoggerNext, LoggerStart, LoggerLoop, LoggerExit, LoggerWaitForSpace, LoggerTake,
       LoggerIdle, LoggerBlock, LoggerBarrier, LoggerHdr, LoggerHdrBarrier, LoggerLogged, logvars,
       LoggerPc, ThreadType
  <2>3. lg' \in [end : Nat, next : Nat]
    <3>1. CASE LoggerTake
      <4>1. /\ memLog' \in SlidingType /\ memLog'.mutable \in Nat /\ diskEnd \in Nat
        <5>1. memLog' \in SlidingType
          BY MemLogTypeStep DEF MemLogTyped
        <5> QED
          BY <5>1, <1>a, LogFacts DEF ThreadType
      <4>2. lg' = [end |-> diskEnd + (memLog'.mutable - diskEnd), next |-> diskEnd]
        BY <3>1 DEF LoggerTake, TakeFromLen
      <4>3. diskEnd + (memLog'.mutable - diskEnd) = memLog'.mutable
        BY <4>1
      <4> QED
        BY <4>1, <4>2, <4>3
    <3>2. CASE LoggerBlock
      BY <1>a, <3>2 DEF LoggerBlock, ThreadType
    <3>3. CASE ~LoggerTake /\ ~LoggerBlock
      <4>1. lg' = lg
        BY <1>1, <3>3 DEF LoggerNext, LoggerStart, LoggerLoop, LoggerExit, LoggerWaitForSpace,
           LoggerIdle, LoggerBarrier, LoggerHdr, LoggerHdrBarrier, LoggerLogged, logvars
      <4> QED
        BY <1>a, <4>1 DEF ThreadType
    <3> QED
      BY <3>1, <3>2, <3>3
  <2>4. diskEnd' \in Nat
    <3>1. diskEnd' \in {diskEnd, lg.end}
      BY <1>1 DEF LoggerNext, LoggerStart, LoggerLoop, LoggerExit, LoggerWaitForSpace, LoggerTake,
         LoggerIdle, LoggerBlock, LoggerBarrier, LoggerHdr, LoggerHdrBarrier, LoggerLogged, stvars, LoggedEnd
    <3> QED
      BY <1>a, <3>1 DEF ThreadType
  <2> QED
    BY <1>a, <1>t, <1>n, <2>0, <2>1, <2>2, <2>3, <2>4 DEF ThreadType
<1>2. CASE InstallerNext
  <2>0. UNCHANGED <<lpc, lg, spc, shutdown, diskEnd>>
    BY <1>2 DEF InstallerNext, InstallerStart, InstallerExit, InstallerTake, InstallerIdle, InstallBlock,
       InstallBarrier, InstallAdvance, InstallAdvanceBarrier, InstallCut, stvars, logvars
  <2>1. /\ memLock' \in {memLock, Installer, Free}
        /\ condLogger' = condLogger
        /\ condInstall' \in {condInstall, condInstall \cup {Installer}, {}}
        /\ condShut' \in {condShut, condShut \ {Stopper}}
    BY <1>2 DEF InstallerNext, InstallerStart, InstallerExit, InstallerTake, InstallerIdle, InstallBlock,
       InstallBarrier, InstallAdvance, InstallAdvanceBarrier, InstallCut, lockvars, Keep, Release, ThreadExit
  <2>2. ipc' \in InstallerPc
    BY <1>2, <1>a DEF InstallerNext, InstallerStart, InstallerExit, InstallerTake, InstallerIdle, InstallBlock,
       InstallBarrier, InstallAdvance, InstallAdvanceBarrier, InstallCut, instvars, InstallerPc, ThreadType
  <2>3. inst' \in [end : Nat, next : Nat]
    <3>1. CASE InstallerTake
      <4>1. inst' = [end |-> diskEnd, next |-> memLog.start] /\ memLog \in SlidingType
        BY <3>1 DEF InstallerTake, InstallEnd, IInv, TypeOK
      <4> QED
        BY <1>a, <4>1, LogFacts DEF ThreadType
    <3>2. CASE InstallBlock
      BY <1>a, <3>2 DEF InstallBlock, ThreadType
    <3>3. CASE ~InstallerTake /\ ~InstallBlock
      <4>1. inst' = inst
        BY <1>2, <3>3 DEF InstallerNext, InstallerStart, InstallerExit, InstallerIdle,
           InstallBarrier, InstallAdvance, InstallAdvanceBarrier, InstallCut, instvars
      <4> QED
        BY <1>a, <4>1 DEF ThreadType
    <3> QED
      BY <3>1, <3>2, <3>3
  <2> QED
    BY <1>a, <1>t, <1>n, <2>0, <2>1, <2>2, <2>3 DEF ThreadType
<1>3. ASSUME NEW c \in Client, Call(c) \/ ClientNext(c)
      PROVE  ThreadType'
  <2>1. UNCHANGED <<diskEnd, shutdown, lpc, lg, ipc, inst, spc>>
    BY <1>3, ClientFrame
  <2>2. /\ memLock' \in {memLock, c, Free}
        /\ condLogger' \in {condLogger, condLogger \cup {c}, {c}, {}}
        /\ condInstall' = condInstall /\ condShut' = condShut
    BY <1>3 DEF Call, CallMemAppend, CallFlush, CallRead, ClientNext, MemAppendFail, MemAppendFull,
       MemAppendStart, MemWriteOne, MemAppendDone, FlushStart, FlushSleep, FlushDone, ReadMemHit,
       ReadMemMiss, ReadInstalled, lockvars, Keep, Release, FullWakesLogger
  <2> QED
    BY <1>a, <1>t, <1>n, <2>1, <2>2 DEF ThreadType
<1>4. CASE CallShutdown \/ ShutdownNext \/ Wakeup
  <2>1. UNCHANGED <<diskEnd, lpc, lg, ipc, inst>> /\ shutdown' \in {shutdown, TRUE} /\ spc' \in {spc, "wait", "done"}
    BY <1>4 DEF CallShutdown, ShutdownNext, ShutdownSleep, ShutdownDone, Wakeup, stvars, logvars, instvars
  <2>2. CASE Wakeup
    <3>1. /\ UNCHANGED <<diskEnd, shutdown, memLock, lpc, lg, ipc, inst, spc>>
          /\ condLogger' \subseteq condLogger /\ condInstall' \subseteq condInstall
          /\ condShut' \subseteq condShut
      BY <2>2 DEF Wakeup, stvars, logvars, instvars
    <3> QED
      BY <1>a, <1>n, <3>1 DEF ThreadType
  <2>3. CASE CallShutdown \/ ShutdownNext
    <3>1. /\ memLock' \in {Stopper, Free}
          /\ condLogger' \in {condLogger, {}} /\ condInstall' \in {condInstall, {}}
          /\ condShut' \in {condShut, condShut \cup {Stopper}}
      BY <2>3 DEF CallShutdown, ShutdownNext, ShutdownSleep, ShutdownDone, Keep, Release
    <3> QED
      BY <1>a, <1>t, <1>n, <2>1, <3>1 DEF ThreadType
  <2> QED
    BY <1>4, <2>2, <2>3
<1>5. CASE Crash
  <2>1. PICK h1 \in Possible(hdr1), h2 \in Possible(hdr2), lb \in CrashDisks(logblk),
             db \in CrashDisks(data) : Recover(h1, h2, lb, db)
    BY <1>5 DEF Crash
  <2>2. h1.end \in Nat
    BY <2>1, CrashHeaders
  <2>3. /\ diskEnd' = h1.end /\ shutdown' = FALSE /\ memLock' = Free
        /\ condLogger' = {} /\ condInstall' = {} /\ condShut' = {}
        /\ lpc' = "start" /\ lg' = [end |-> 0, next |-> 0]
        /\ ipc' = "start" /\ inst' = [end |-> 0, next |-> 0] /\ spc' = "idle"
    BY <2>1 DEF Recover
  <2> QED
    BY <1>n, <2>2, <2>3 DEF ThreadType, LoggerPc, InstallerPc
<1>6. CASE UNCHANGED vars
  BY <1>0, <1>6 DEF vars, stvars, logvars, instvars
<1> QED
  BY <1>1, <1>2, <1>3, <1>4, <1>5, <1>6 DEF Next

(* A position at or above zero has a last transaction that fits below it. *)
LEMMA TxnsUpToRange ==
  ASSUME IInv, NEW pos \in Nat
  PROVE  TxnsUpTo(pos) \in 1 .. Len(txns)
<1> DEFINE T == { n \in DOMAIN txns : txns[n].pos <= pos }
<1>1. txns \in Seq(Txn) /\ Len(txns) \in Nat /\ DOMAIN txns = 1 .. Len(txns)
  BY DEF IInv, TypeOK
<1>2. 1 \in T
  BY <1>1 DEF IInv, FirstTxn
<1>3. T \subseteq 0 .. Len(txns) /\ T \subseteq 1 .. Len(txns)
  BY <1>1
<1> HIDE DEF T
<1>4. Max(T) \in T
  BY <1>1, <1>2, <1>3, MaxProperty
<1> QED
  BY <1>3, <1>4 DEF TxnsUpTo, T

(* What the transactions leave at an address is a block. *)
LEMMA ValueType ==
  ASSUME NEW ts \in Seq(Txn), NEW a
  PROVE  LS!Value(ts, a) \in Nat
<1>1. CASE LS!Writers(ts, a) = {}
  BY <1>1 DEF LS!Value, Block0
<1>2. CASE LS!Writers(ts, a) # {}
  <2> DEFINE W == LS!Writers(ts, a)
             n == Max(W)
             upds == ts[n].upds
             at == { j \in DOMAIN upds : upds[j].Addr = a }
  <2>1. W \subseteq 1 .. Len(ts) /\ W \subseteq 0 .. Len(ts) /\ Len(ts) \in Nat
    BY DEF LS!Writers
  <2>2. n \in W
    <3> HIDE DEF W
    <3> QED
      BY <1>2, <2>1, MaxProperty DEF W
  <2>3. n \in 1 .. Len(ts) /\ \E j \in DOMAIN upds : upds[j].Addr = a
    BY <2>1, <2>2 DEF LS!Writers
  <2>4. LS!Value(ts, a) = upds[Max(at)].Block
    BY <1>2 DEF LS!Value, LS!LastWrite, LS!Max, Max
  <2> HIDE DEF W, n
  <2>5. ts[n] \in Txn
    BY <2>3
  <2>6. upds \in Seq(Update)
    BY <2>5 DEF Txn
  <2> HIDE DEF upds
  <2>7. at # {}
    BY <2>3
  <2>8. at \subseteq 1 .. Len(upds) /\ at \subseteq 0 .. Len(upds) /\ Len(upds) \in Nat
    BY <2>6
  <2> HIDE DEF at
  <2>9. Max(at) \in 1 .. Len(upds)
    BY <2>7, <2>8, MaxProperty
  <2>10. upds[Max(at)] \in Update
    BY <2>6, <2>9
  <2> QED
    BY <2>4, <2>10 DEF Update
<1> QED
  BY <1>1, <1>2

ClientType ==
  /\ cpc \in [Client -> ClientPc]
  /\ req \in [Client -> [bufs : Seq(Update), next : Nat, pos : Nat, addr : Addr \cup {NoAddr}]]
  /\ txns \in Seq(Txn) /\ appends \in Nat /\ acked \in Nat
  /\ seen \in [Client -> SUBSET Nat]
  /\ crashes \in Nat

(* A call that returns leaves its client's locals typed. *)
LEMMA ReturnType ==
  ASSUME ClientType, NEW c \in Client, Return(c)
  PROVE  /\ cpc' \in [Client -> ClientPc]
         /\ req' \in [Client -> [bufs : Seq(Update), next : Nat, pos : Nat, addr : Addr \cup {NoAddr}]]
<1>1. NoReq \in [bufs : Seq(Update), next : Nat, pos : Nat, addr : Addr \cup {NoAddr}]
  BY DEF NoReq
<1> QED
  BY <1>1 DEF Return, ClientType, ClientPc

(* Every step keeps the type of the clients' locals and of the history. *)
LEMMA ClientTypeStep ==
  ASSUME IInv, [Next]_vars
  PROVE  ClientType'
<1> DEFINE ReqType == [bufs : Seq(Update), next : Nat, pos : Nat, addr : Addr \cup {NoAddr}]
<1>a. ClientType
  BY DEF IInv, TypeOK, ClientType
<1>e. memLog \in SlidingType /\ End(memLog) \in Nat
  BY LogFacts DEF IInv, TypeOK
<1>0. ASSUME UNCHANGED <<cpc, req, appends, txns, acked, seen, crashes>>
      PROVE  ClientType'
  BY <1>a, <1>0 DEF ClientType
<1>1. CASE LoggerNext \/ InstallerNext \/ CallShutdown \/ ShutdownNext \/ Wakeup
  BY <1>0, <1>1, OthersFrame
<1>2. ASSUME NEW c \in Client, Call(c) \/ ClientNext(c)
      PROVE  ClientType'
  <2>c. crashes' = crashes
    BY <1>2, ClientFrame
  <2>r. req[c] \in ReqType /\ cpc[c] \in ClientPc
    BY <1>a DEF ClientType
  <2>1. CASE CallMemAppend(c)
    <3>1. PICK w \in WriteSets :
            req' = [req EXCEPT ![c].bufs = [i \in DOMAIN w |-> [Addr |-> w[i], Block |-> appends + 1]]]
      BY <2>1 DEF CallMemAppend
    <3>2. w \in Seq(Addr)
      BY WriteSetsAssumption
    <3>3. appends + 1 \in Nat
      BY <1>a DEF ClientType
    <3>4. [i \in DOMAIN w |-> [Addr |-> w[i], Block |-> appends + 1]] \in Seq(Update)
      <4>1. DOMAIN w = 1 .. Len(w) /\ Len(w) \in Nat
        BY <3>2
      <4>2. \A i \in 1 .. Len(w) : [Addr |-> w[i], Block |-> appends + 1] \in Update
        BY <3>2, <3>3, <4>1 DEF Update
      <4> QED
        BY <4>1, <4>2
    <3>5. req' \in [Client -> ReqType]
      BY <1>a, <2>r, <3>1, <3>4 DEF ClientType
    <3>6. /\ appends' = appends + 1 /\ cpc' = [cpc EXCEPT ![c] = "append"]
          /\ UNCHANGED <<txns, acked, seen>>
      BY <2>1 DEF CallMemAppend, history
    <3> QED
      BY <1>a, <2>c, <3>3, <3>5, <3>6 DEF ClientType, ClientPc
  <2>2. CASE CallFlush(c)
    <3>1. PICK n \in DOMAIN txns : req' = [req EXCEPT ![c].pos = txns[n].pos]
      BY <2>2 DEF CallFlush
    <3>2. txns[n].pos \in Nat
      <4>1. txns[n] \in Txn
        BY <1>a, <3>1 DEF ClientType
      <4> QED
        BY <4>1 DEF Txn
    <3>3. req' \in [Client -> ReqType]
      BY <1>a, <2>r, <3>1, <3>2 DEF ClientType
    <3>4. cpc' = [cpc EXCEPT ![c] = "flush"] /\ UNCHANGED <<appends, txns, acked, seen>>
      BY <2>2 DEF CallFlush, history
    <3> QED
      BY <1>a, <2>c, <3>3, <3>4 DEF ClientType, ClientPc
  <2>3. CASE CallRead(c)
    <3>1. PICK a \in Addr : req' = [req EXCEPT ![c].addr = a]
      BY <2>3 DEF CallRead
    <3>3. req' \in [Client -> ReqType]
      BY <1>a, <2>r, <3>1 DEF ClientType
    <3>4. cpc' = [cpc EXCEPT ![c] = "read"] /\ UNCHANGED <<appends, txns, acked, seen>>
      BY <2>3 DEF CallRead, history
    <3> QED
      BY <1>a, <2>c, <3>3, <3>4 DEF ClientType, ClientPc
  <2>4. CASE MemAppendFail(c) \/ ReadMemHit(c)
    <3>1. Return(c) /\ UNCHANGED <<appends, txns, acked, seen>>
      BY <2>4 DEF MemAppendFail, ReadMemHit, history
    <3> QED
      BY <1>a, <2>c, <3>1, ReturnType DEF ClientType
  <2>5. CASE ReadInstalled(c)
    <3>1. Return(c) /\ UNCHANGED <<appends, txns, acked>> /\ seen' = [seen EXCEPT ![c] = {}]
      BY <2>5 DEF ReadInstalled
    <3> QED
      BY <1>a, <2>c, <3>1, ReturnType DEF ClientType
  <2>6. CASE FlushDone(c)
    <3>1. Return(c) /\ UNCHANGED <<appends, txns, seen>>
          /\ acked' \in {acked, TxnsUpTo(req[c].pos)}
      BY <2>6 DEF FlushDone
    <3>2. TxnsUpTo(req[c].pos) \in Nat
      <4>1. req[c].pos \in Nat
        BY <2>r
      <4>2. TxnsUpTo(req[c].pos) \in 1 .. Len(txns)
        BY <4>1, TxnsUpToRange
      <4>3. Len(txns) \in Nat
        BY <1>a DEF ClientType
      <4> QED
        BY <4>2, <4>3
    <3> QED
      BY <1>a, <2>c, <3>1, <3>2, ReturnType DEF ClientType
  <2>7. CASE MemAppendDone(c)
    <3> DEFINE t == [pos |-> End(memLog), upds |-> req[c].bufs]
    <3>1. Return(c) /\ UNCHANGED <<appends, acked>> /\ txns' = Append(txns, t)
      BY <2>7 DEF MemAppendDone
    <3>2. t \in Txn
      BY <1>e, <2>r DEF Txn
    <3> HIDE DEF t
    <3>3. txns' \in Seq(Txn)
      BY <1>a, <3>1, <3>2 DEF ClientType
    <3>4. \A r \in Client : LS!Value(txns', req[r].addr) \in Nat
      BY <3>3, ValueType
    <3>5. seen' = [r \in Client |->
                IF cpc[r] = "readInstalled" THEN seen[r] \cup {LS!Value(txns', req[r].addr)}
                                            ELSE seen[r]]
      BY <2>7 DEF MemAppendDone
    <3>6. seen' \in [Client -> SUBSET Nat]
      <4> DEFINE v(r) == LS!Value(txns', req[r].addr)
      <4>1. \A r \in Client : v(r) \in Nat /\ seen[r] \subseteq Nat
        BY <1>a, <3>4 DEF ClientType
      <4>2. seen' = [r \in Client |-> IF cpc[r] = "readInstalled" THEN seen[r] \cup {v(r)} ELSE seen[r]]
        BY <3>5
      <4> HIDE DEF v
      <4> QED
        BY <4>1, <4>2
    <3> QED
      BY <1>a, <2>c, <3>1, <3>3, <3>6, ReturnType DEF ClientType
  <2>8. CASE MemAppendFull(c) \/ MemAppendStart(c) \/ FlushStart(c) \/ FlushSleep(c)
    <3>1. /\ UNCHANGED <<req, appends, txns, acked, seen>>
          /\ cpc' = cpc \/ cpc' = [cpc EXCEPT ![c] = "memWrite"] \/ cpc' = [cpc EXCEPT ![c] = "flushWait"]
      BY <2>8 DEF MemAppendFull, MemAppendStart, FlushStart, FlushSleep, clivars, history
    <3> QED
      BY <1>a, <2>c, <3>1 DEF ClientType, ClientPc
  <2>9. CASE MemWriteOne(c)
    <3>1. UNCHANGED <<cpc, appends, txns, acked, seen>> /\ req' = [req EXCEPT ![c].next = req[c].next + 1]
      BY <2>9 DEF MemWriteOne, history
    <3>2. req' \in [Client -> ReqType]
      <4> DEFINE n == req[c].next + 1
      <4>1. n \in Nat /\ req' = [req EXCEPT ![c].next = n] /\ req \in [Client -> ReqType]
        BY <1>a, <2>r, <3>1 DEF ClientType
      <4> HIDE DEF n
      <4> QED
        BY <4>1
    <3> QED
      BY <1>a, <2>c, <3>1, <3>2 DEF ClientType
  <2>10. CASE ReadMemMiss(c)
    <3>1. /\ UNCHANGED <<req, appends, txns, acked>> /\ cpc' = [cpc EXCEPT ![c] = "readInstalled"]
          /\ seen' = [seen EXCEPT ![c] = {LS!Value(txns, req[c].addr)}]
      BY <2>10 DEF ReadMemMiss, Current
    <3>2. LS!Value(txns, req[c].addr) \in Nat
      BY <1>a, ValueType DEF ClientType
    <3> QED
      BY <1>a, <2>c, <3>1, <3>2 DEF ClientType, ClientPc
  <2> QED
    BY <1>2, <2>1, <2>2, <2>3, <2>4, <2>5, <2>6, <2>7, <2>8, <2>9, <2>10 DEF Call, ClientNext
<1>3. CASE Crash
  <2>1. PICK h1 \in Possible(hdr1), h2 \in Possible(hdr2), lb \in CrashDisks(logblk),
             db \in CrashDisks(data) : Recover(h1, h2, lb, db)
    BY <1>3 DEF Crash
  <2>2. h1.end \in Nat
    BY <2>1, CrashHeaders
  <2>3. TxnsUpTo(h1.end) \in 1 .. Len(txns)
    BY <2>2, TxnsUpToRange
  <2>4. txns' = SubSeq(txns, 1, TxnsUpTo(h1.end))
    BY <2>1 DEF Recover
  <2>5. txns' \in Seq(Txn)
    BY <1>a, <2>3, <2>4 DEF ClientType
  <2>6. NoReq \in ReqType
    BY DEF NoReq
  <2>7. /\ cpc' = [d \in Client |-> "idle"] /\ req' = [d \in Client |-> NoReq]
        /\ seen' = [d \in Client |-> {}] /\ crashes' = crashes + 1 /\ UNCHANGED <<appends, acked>>
    BY <1>3, <2>1 DEF Crash, Recover
  <2> QED
    BY <1>a, <2>5, <2>6, <2>7 DEF ClientType, ClientPc
<1>4. CASE UNCHANGED vars
  BY <1>0, <1>4 DEF vars, clivars, history
<1> QED
  BY <1>1, <1>2, <1>3, <1>4 DEF Next

(* No step, a crash included, loses the first, empty transaction. *)
LEMMA FirstTxnStep ==
  ASSUME IInv, [Next]_vars
  PROVE  FirstTxn'
<1>a. FirstTxn /\ txns \in Seq(Txn) /\ Len(txns) \in Nat
  BY DEF IInv, TypeOK
<1>0. ASSUME txns' = txns
      PROVE  FirstTxn'
  BY <1>a, <1>0 DEF FirstTxn
<1>1. CASE LoggerNext \/ InstallerNext \/ CallShutdown \/ ShutdownNext \/ Wakeup
  BY <1>0, <1>1, OthersFrame
<1>2. ASSUME NEW c \in Client, Call(c) \/ ClientNext(c)
      PROVE  FirstTxn'
  <2>1. CASE MemAppendDone(c)
    <3>1. PICK t : txns' = Append(txns, t)
      BY <2>1 DEF MemAppendDone
    <3>2. t \in Txn
      <4>1. txns' \in Seq(Txn)
        BY ClientTypeStep DEF ClientType
      <4>3. txns'[Len(txns) + 1] = t /\ Len(txns') = Len(txns) + 1
        BY <1>a, <3>1
      <4> QED
        BY <1>a, <4>1, <4>3
    <3>3. Len(txns') = Len(txns) + 1 /\ txns'[1] = txns[1]
      BY <1>a, <3>1, <3>2 DEF FirstTxn
    <3> QED
      BY <1>a, <3>3 DEF FirstTxn
  <2>2. CASE ~MemAppendDone(c)
    <3>1. txns' = txns
      BY <1>2, <2>2 DEF Call, CallMemAppend, CallFlush, CallRead, ClientNext, MemAppendFail, MemAppendFull,
         MemAppendStart, MemWriteOne, FlushStart, FlushSleep, FlushDone, ReadMemHit,
         ReadMemMiss, ReadInstalled, history
    <3> QED
      BY <1>0, <3>1
  <2> QED
    BY <2>1, <2>2
<1>3. CASE Crash
  <2>1. PICK h1 \in Possible(hdr1), h2 \in Possible(hdr2), lb \in CrashDisks(logblk),
             db \in CrashDisks(data) : Recover(h1, h2, lb, db)
    BY <1>3 DEF Crash
  <2>2. h1.end \in Nat
    BY <2>1, CrashHeaders
  <2>3. TxnsUpTo(h1.end) \in 1 .. Len(txns)
    BY <2>2, TxnsUpToRange
  <2> DEFINE n == TxnsUpTo(h1.end)
  <2>4. txns' = SubSeq(txns, 1, n) /\ n \in 1 .. Len(txns)
    BY <2>1, <2>3 DEF Recover
  <2> HIDE DEF n
  <2>5. Len(txns') = n /\ txns'[1] = txns[1]
    BY <1>a, <2>4
  <2> QED
    BY <1>a, <2>4, <2>5 DEF FirstTxn
<1>4. CASE UNCHANGED vars
  BY <1>0, <1>4 DEF vars, history
<1> QED
  BY <1>1, <1>2, <1>3, <1>4 DEF Next

-----------------------------------------------------------------------------
(* What a Flush has promised. *)

(* The last transaction at or below a position is one of them. *)
LEMMA UpToMax ==
  ASSUME NEW ts \in Seq(Txn), NEW pos \in Nat, NEW n \in 1 .. Len(ts), ts[n].pos <= pos
  PROVE  LET k == Max({ m \in DOMAIN ts : ts[m].pos <= pos })
         IN  k \in 1 .. Len(ts) /\ n <= k /\ ts[k].pos <= pos
<1> DEFINE T == { m \in DOMAIN ts : ts[m].pos <= pos }
<1>1. n \in T /\ T \subseteq 1 .. Len(ts) /\ T \subseteq 0 .. Len(ts) /\ Len(ts) \in Nat
      /\ \A m \in T : ts[m].pos <= pos
  OBVIOUS
<1> HIDE DEF T
<1>2. Max(T) \in T /\ n <= Max(T)
  BY <1>1, MaxProperty
<1> QED
  BY <1>1, <1>2 DEF T

(* Every step keeps what Flush promised within what is durable: diskEnd only *)
(* grows, and a crash keeps a header that ends no earlier than diskEnd.      *)
LEMMA AckedStep ==
  ASSUME IInv, [Next]_vars
  PROVE  AckedDurable'
<1>t. /\ txns \in Seq(Txn) /\ Len(txns) \in Nat /\ diskEnd \in Nat /\ acked \in Nat
      /\ txns[1].pos = 0 /\ Len(txns) >= 1 /\ acked <= TxnsUpTo(diskEnd)
      /\ lg.end \in Nat
      /\ req \in [Client -> [bufs : Seq(Update), next : Nat, pos : Nat, addr : Addr \cup {NoAddr}]]
  BY DEF IInv, TypeOK, FirstTxn, AckedDurable
<1>p. /\ txns' \in Seq(Txn) /\ diskEnd' \in Nat /\ acked' \in Nat
  BY ClientTypeStep, ThreadTypeStep DEF ClientType, ThreadType
<1>u. ASSUME NEW pos \in Nat
      PROVE  TxnsUpTo(pos) \in 1 .. Len(txns) /\ txns[TxnsUpTo(pos)].pos <= pos
  <2>1. 1 \in 1 .. Len(txns) /\ txns[1].pos <= pos
    BY <1>t
  <2> QED
    BY <1>t, <2>1, UpToMax DEF TxnsUpTo
<1> DEFINE k == TxnsUpTo(diskEnd)
<1>k. k \in 1 .. Len(txns) /\ txns[k].pos <= diskEnd /\ acked <= k
  BY <1>t, <1>u
<1>i. ASSUME NEW n \in 1 .. Len(txns'), txns'[n].pos <= diskEnd', acked' <= n
      PROVE  AckedDurable'
  <2> DEFINE m == Max({ i \in DOMAIN txns' : txns'[i].pos <= diskEnd' })
  <2>1. m \in 1 .. Len(txns') /\ n <= m
    BY <1>p, <1>i, UpToMax
  <2>2. Len(txns') \in Nat
    BY <1>p
  <2>3. AckedDurable' = (acked' <= m)
    BY DEF AckedDurable, TxnsUpTo
  <2> HIDE DEF m
  <2>4. acked' <= m
    BY <1>p, <1>i, <2>1, <2>2
  <2> QED
    BY <2>3, <2>4
<1> HIDE DEF k
<1>pos. \A n \in 1 .. Len(txns) : txns[n].pos \in Nat
  <2> TAKE n \in 1 .. Len(txns)
  <2>1. txns[n] \in Txn
    BY <1>t
  <2> QED
    BY <2>1 DEF Txn
<1>0. ASSUME txns' = txns, acked' = acked, diskEnd <= diskEnd'
      PROVE  AckedDurable'
  <2>1. txns[k].pos <= diskEnd'
    BY <1>0, <1>k, <1>t, <1>p, <1>pos
  <2> QED
    BY <1>0, <1>i, <1>k, <2>1
<1>1. CASE LoggerNext \/ InstallerNext \/ CallShutdown \/ ShutdownNext \/ Wakeup
  <2>1. txns' = txns /\ acked' = acked
    BY <1>1, OthersFrame
  <2>2. diskEnd' = diskEnd \/ (diskEnd' = lg.end /\ lpc = "logged")
    BY <1>1 DEF LoggerNext, LoggerStart, LoggerLoop, LoggerExit, LoggerWaitForSpace, LoggerTake,
       LoggerIdle, LoggerBlock, LoggerBarrier, LoggerHdr, LoggerHdrBarrier, LoggerLogged, LoggedEnd,
       InstallerNext, InstallerStart, InstallerExit, InstallerTake, InstallerIdle, InstallBlock,
       InstallBarrier, InstallAdvance, InstallAdvanceBarrier, InstallCut,
       CallShutdown, ShutdownNext, ShutdownSleep, ShutdownDone, Wakeup, stvars
  <2>3. lpc = "logged" => diskEnd < lg.end
    BY DEF IInv, PositionsInv, PositionsOrdered, LoggerBusy
  <2> QED
    BY <1>0, <1>t, <2>1, <2>2, <2>3
<1>2. ASSUME NEW c \in Client, Call(c) \/ ClientNext(c)
      PROVE  AckedDurable'
  <2>d. diskEnd' = diskEnd
    BY <1>2, ClientFrame
  <2>1. CASE MemAppendDone(c)
    <3>1. PICK t : txns' = Append(txns, t)
      BY <2>1 DEF MemAppendDone
    <3>2. acked' = acked
      BY <2>1 DEF MemAppendDone
    <3>3. Len(txns') = Len(txns) + 1 /\ \A i \in 1 .. Len(txns) : txns'[i] = txns[i]
      BY <1>t, <3>1
    <3>4. k \in 1 .. Len(txns') /\ txns'[k] = txns[k]
      BY <1>t, <1>k, <3>3
    <3> QED
      BY <1>i, <1>k, <2>d, <3>2, <3>4
  <2>2. CASE FlushDone(c)
    <3>1. /\ txns' = txns /\ acked' \in {acked, TxnsUpTo(req[c].pos)} /\ req[c].pos <= diskEnd
      BY <2>2 DEF FlushDone
    <3>2. CASE acked' = acked
      BY <1>0, <1>t, <2>d, <3>1, <3>2
    <3>3. CASE acked' = TxnsUpTo(req[c].pos)
      <4> DEFINE p == req[c].pos
                 j == TxnsUpTo(p)
      <4>1. p \in Nat /\ p <= diskEnd
        BY <1>t, <3>1
      <4>2. j \in 1 .. Len(txns) /\ txns[j].pos <= p
        <5> HIDE DEF p
        <5> QED
          BY <1>u, <4>1
      <4>3. txns' = txns /\ acked' = j
        BY <3>1, <3>3
      <4> HIDE DEF p, j
      <4>4. txns[j].pos <= diskEnd /\ txns'[j].pos <= diskEnd' /\ acked' <= j
        BY <1>pos, <1>t, <2>d, <4>1, <4>2, <4>3
      <4> QED
        BY <1>i, <4>2, <4>3, <4>4
    <3> QED
      BY <3>1, <3>2, <3>3
  <2>3. CASE ~MemAppendDone(c) /\ ~FlushDone(c)
    <3>1. txns' = txns /\ acked' = acked
      BY <1>2, <2>3 DEF Call, CallMemAppend, CallFlush, CallRead, ClientNext, MemAppendFail, MemAppendFull,
         MemAppendStart, MemWriteOne, FlushStart, FlushSleep, ReadMemHit,
         ReadMemMiss, ReadInstalled, history
    <3> QED
      BY <1>0, <1>t, <2>d, <3>1
  <2> QED
    BY <2>1, <2>2, <2>3
<1>3. CASE Crash
  <2>1. PICK h1 \in Possible(hdr1), h2 \in Possible(hdr2), lb \in CrashDisks(logblk),
             db \in CrashDisks(data) : Recover(h1, h2, lb, db)
    BY <1>3 DEF Crash
  <2> DEFINE e == h1.end
             n == TxnsUpTo(e)
  <2>2. e \in Nat /\ diskEnd <= e
    BY <2>1, CrashHeaders
  <2>3. txns' = SubSeq(txns, 1, n) /\ diskEnd' = e /\ acked' = acked
    BY <1>3, <2>1 DEF Crash, Recover
  <2>4. n \in 1 .. Len(txns) /\ txns[n].pos <= e /\ k <= n
    <3> HIDE DEF e
    <3>1. txns[k].pos <= e
      BY <1>k, <1>t, <1>pos, <2>2
    <3> QED
      BY <1>k, <1>t, <2>2, <3>1, UpToMax DEF TxnsUpTo
  <2> HIDE DEF e, n
  <2>5. Len(txns') = n /\ txns'[n] = txns[n] /\ n \in 1 .. Len(txns')
    BY <1>t, <2>3, <2>4
  <2>6. acked <= n
    BY <1>k, <1>t, <2>4
  <2> QED
    BY <1>i, <2>3, <2>4, <2>5, <2>6
<1>4. CASE UNCHANGED vars
  <2>1. txns' = txns /\ acked' = acked /\ diskEnd' = diskEnd
    BY <1>4 DEF vars, history, stvars
  <2> QED
    BY <1>0, <1>t, <2>1
<1> QED
  BY <1>1, <1>2, <1>3, <1>4 DEF Next

-----------------------------------------------------------------------------
(* The inductive invariant. *)

(* A fresh log satisfies the invariant. *)
LEMMA InitInv == Init => IInv
<1> SUFFICES ASSUME Init PROVE IInv
  OBVIOUS
<1>c. LOGSZ \in Nat /\ LOGSZ > 0 /\ U64 \in Nat /\ U64 > 0
  BY LogSzAssumption, U64Assumption
<1>m. /\ memLog \in SlidingType /\ memLog.start = 0 /\ memLog.mutable = 0 /\ End(memLog) = 0
  <2>1. <<>> \in Seq(Update) /\ Len(<<>>) = 0 /\ 0 \in Nat
    OBVIOUS
  <2>2. memLog = MkSliding(<<>>, 0)
    BY DEF Init
  <2> DEFINE l == <<>>
  <2>3. l \in Seq(Update) /\ Len(l) = 0 /\ 0 + Len(l) = 0 /\ memLog = MkSliding(l, 0)
    BY <2>1, <2>2
  <2> HIDE DEF l
  <2>4. /\ MkSliding(l, 0) \in SlidingType /\ MkSliding(l, 0).start = 0
        /\ MkSliding(l, 0).mutable = 0 + Len(l) /\ End(MkSliding(l, 0)) = 0 + Len(l)
    BY <2>1, <2>3, MkSlidingType
  <2> QED
    BY <2>3, <2>4
<1>h. /\ hdr1.latest = EmptyHeader /\ hdr1.pending = {} /\ hdr2.latest = 0 /\ hdr2.pending = {}
      /\ EmptyHeader.end = 0 /\ EmptyHeader \in Header1 /\ Possible(hdr1) = {EmptyHeader}
  BY DEF Init, Sync, EmptyHeader, Header1, Possible
<1>x. txns = <<[pos |-> 0, upds |-> <<>>]>> /\ [pos |-> 0, upds |-> <<>>] \in Txn
  BY DEF Init, Txn
<1>y. txns \in Seq(Txn) /\ Len(txns) = 1 /\ txns[1].pos = 0
  BY <1>x
<1>1. DiskType
  BY <1>h, <1>c DEF Init, DiskType, Sync, AsyncOf, EmptyHeader, Block0
<1>2. ThreadType
  BY DEF Init, ThreadType, LoggerPc, InstallerPc
<1>3. ClientType
  <2>1. NoReq \in [bufs : Seq(Update), next : Nat, pos : Nat, addr : Addr \cup {NoAddr}]
    BY DEF NoReq
  <2>2. /\ cpc = [c \in Client |-> "idle"] /\ req = [c \in Client |-> NoReq]
        /\ seen = [c \in Client |-> {}] /\ crashes = 0 /\ appends = 0 /\ acked = 1
    BY DEF Init
  <2> QED
    BY <1>y, <2>1, <2>2 DEF ClientType, ClientPc
<1>4. TypeOK
  BY <1>1, <1>2, <1>3, <1>m DEF TypeOK, DiskType, ThreadType, ClientType
<1>p. diskEnd = 0 /\ lpc = "start" /\ ipc = "start" /\ spc = "idle" /\ nthread = 0
  BY DEF Init
<1>5. PositionsOrdered /\ ReadOnlyFits /\ UnloggedFits /\ BlocksWritten
  BY <1>c, <1>m, <1>p DEF PositionsOrdered, ReadOnlyFits, UnloggedFits, BlocksWritten,
       LoggerBusy, InstallerBusy
<1>6. AppendReserved
  <2>1. \A c \in Client : cpc[c] = "idle" /\ req[c].next = 1
    BY DEF Init, NoReq
  <2> QED
    BY <2>1 DEF AppendReserved, Reserved
<1>7. Hdr1Agrees /\ Hdr2Agrees /\ AddrsKnown
  BY <1>h, <1>m, <1>p DEF Hdr1Agrees, Hdr2Agrees, AddrsKnown, LoggerBusy
<1>8. ThreadsCounted /\ ShutdownSeen
  BY <1>p DEF ThreadsCounted, ShutdownSeen
<1>9. FirstTxn
  BY <1>y DEF FirstTxn
<1>10. AckedDurable
  <2>1. acked = 1 /\ 1 \in 1 .. Len(txns)
    BY <1>y DEF Init
  <2> DEFINE m == Max({ i \in DOMAIN txns : txns[i].pos <= diskEnd })
  <2>2. 1 <= m
    BY <1>p, <1>y, <2>1, UpToMax
  <2> QED
    BY <2>1, <2>2 DEF AckedDurable, TxnsUpTo
<1> QED
  BY <1>4, <1>5, <1>6, <1>7, <1>8, <1>9, <1>10 DEF IInv, PositionsInv, DiskInv, ThreadsInv

(* Every step keeps the invariant. *)
LEMMA NextInv == IInv /\ [Next]_vars => IInv'
<1> SUFFICES ASSUME IInv, [Next]_vars PROVE IInv'
  OBVIOUS
<1>1. TypeOK'
  BY DiskTypeStep, MemLogTypeStep, ThreadTypeStep, ClientTypeStep
     DEF TypeOK, DiskType, MemLogTyped, ThreadType, ClientType
<1>2. PositionsInv'
  BY PositionsStep, AppendStep DEF PositionsInv, PositionsCore
<1>3. DiskInv'
  BY Hdr1Step, Hdr2Step, AddrsStep DEF DiskInv
<1> QED
  BY <1>1, <1>2, <1>3, ThreadsStep, FirstTxnStep, AckedStep DEF IInv

(* The invariant that carries the theorems below holds always. *)
THEOREM Invariant == Spec => []IInv
BY InitInv, NextInv, PTL DEF Spec

-----------------------------------------------------------------------------
(* What follows from it. *)

(* Every variable of wal.v's structures and threads keeps its type. *)
THEOREM TypeCorrect == Spec => []TypeOK
<1>1. IInv => TypeOK
  BY DEF IInv
<1> QED
  BY <1>1, Invariant, PTL

(* locked_wf: what is being installed is logged, what is being logged is     *)
(* read-only, and no position of memLog leaves its 64 bits.                  *)
THEOREM PositionsAlwaysOrdered == Spec => []PositionsOrdered
<1>1. IInv => PositionsOrdered
  BY DEF IInv, PositionsInv
<1> QED
  BY <1>1, Invariant, PTL

(* memLogHasSpace and waitForSpace together never let the circular log       *)
(* overwrite a live slot, whichever start a crash would bring back.          *)
THEOREM CircularLogAlwaysFits == Spec => []CircularLogFits
<1>1. IInv => CircularLogFits
  <2> SUFFICES ASSUME IInv PROVE CircularLogFits
    OBVIOUS
  <2>1. /\ memLog.start \in Nat /\ memLog.mutable \in Nat /\ LOGSZ \in Nat
        /\ diskEnd \in Nat /\ lg.end \in Nat
    BY LogFacts, LogSzAssumption DEF IInv, TypeOK
  <2>2. /\ End(memLog) - diskEnd <= LOGSZ /\ memLog.mutable - memLog.start <= LOGSZ
        /\ diskEnd <= memLog.mutable /\ (LoggerBusy => lg.end <= memLog.mutable)
    BY DEF IInv, PositionsInv, UnloggedFits, ReadOnlyFits, PositionsOrdered
  <2>3. ASSUME NEW x \in Possible(hdr2)
        PROVE  diskEnd - x <= LOGSZ /\ (LoggerBusy => lg.end - x <= LOGSZ)
    <3>1. PICK h1 \in Possible(hdr1) : TRUE
      BY DEF Possible
    <3>2. memLog.start <= x /\ x \in Nat
      BY <2>3, <3>1, CrashHeaders
    <3> QED
      BY <2>1, <2>2, <3>2
  <2> QED
    BY <2>2, <2>3 DEF CircularLogFits
<1> QED
  BY <1>1, Invariant, PTL

(* nthread is the number of threads between start and exit, so Shutdown      *)
(* waits for exactly those.                                                  *)
THEOREM ThreadsAlwaysCounted == Spec => []ThreadsCounted
<1>1. IInv => ThreadsCounted
  BY DEF IInv, ThreadsInv
<1> QED
  BY <1>1, Invariant, PTL

(* Once Shutdown has returned neither thread touches the disk.               *)
THEOREM AlwaysQuietAfterShutdown == Spec => []QuietAfterShutdown
<1>1. IInv => QuietAfterShutdown
  BY DEF IInv, ThreadsInv, ShutdownSeen, QuietAfterShutdown, LoggerBusy, InstallerBusy
<1> QED
  BY <1>1, Invariant, PTL

(* No transaction a Flush has promised is lost, however many crashes follow. *)
THEOREM AckedAlwaysKept == Spec => []AckedKept
<1>1. IInv => AckedKept
  <2> SUFFICES ASSUME IInv PROVE AckedKept
    OBVIOUS
  <2>1. acked <= TxnsUpTo(diskEnd) /\ diskEnd \in Nat /\ acked \in Nat /\ Len(txns) \in Nat
    BY DEF IInv, AckedDurable, TypeOK
  <2>2. TxnsUpTo(diskEnd) \in 1 .. Len(txns)
    BY <2>1, TxnsUpToRange
  <2> QED
    BY <2>1, <2>2 DEF AckedKept
<1> QED
  BY <1>1, Invariant, PTL

(* The updates the logger and the installer have still to read stay the      *)
(* same under every step of anybody: memWrite, which writes into the array   *)
(* they read without memLock, only overwrites positions above theirs.        *)
THEOREM SharedSlicesAlwaysStable == Spec => SharedSlicesStable
<1> DEFINE A == crashes' = crashes => \A p \in InUse : Get(memLog, p)' = Get(memLog, p)
<1>1. IInv /\ [Next]_vars => A
  <2> SUFFICES ASSUME IInv, [Next]_vars, crashes' = crashes, NEW p \in InUse
               PROVE  Get(memLog, p)' = Get(memLog, p)
    OBVIOUS
  <2>t. /\ memLog \in SlidingType /\ memLog.start \in Nat /\ memLog.mutable \in Nat
        /\ End(memLog) \in Nat /\ diskEnd \in Nat /\ crashes \in Nat
        /\ lg.end \in Nat /\ lg.next \in Nat /\ inst.end \in Nat /\ inst.next \in Nat
    BY LogFacts DEF IInv, TypeOK
  <2>o. PositionsOrdered /\ BlocksWritten
    BY DEF IInv, PositionsInv
  <2>p. /\ p \in memLog.start .. memLog.mutable - 1 /\ p <= End(memLog) - 1
        /\ ipc = "installed" => p \in inst.end .. End(memLog) - 1
    <3>1. CASE LoggerBusy /\ p \in lg.next .. lg.end - 1
      BY <2>o, <2>t, <3>1 DEF PositionsOrdered, InstallerBusy
    <3>2. CASE InstallerBusy /\ p \in inst.next .. inst.end - 1
      BY <2>o, <2>t, <3>2 DEF PositionsOrdered, BlocksWritten
    <3> QED
      BY <3>1, <3>2 DEF InUse
  <2>0. ASSUME memLog'.log = memLog.log, memLog'.start = memLog.start
        PROVE  Get(memLog, p)' = Get(memLog, p)
    BY <2>0 DEF Get
  <2>1. CASE LoggerNext
    <3>1. memLog' \in {memLog, FlushIfNeeded(memLog)}
      BY <2>1 DEF LoggerNext, LoggerStart, LoggerLoop, LoggerExit, LoggerWaitForSpace, LoggerTake,
         LoggerIdle, LoggerBlock, LoggerBarrier, LoggerHdr, LoggerHdrBarrier, LoggerLogged, stvars
    <3> QED
      BY <2>0, <2>t, <3>1, FlushIfNeededEffect
  <2>2. CASE InstallCut
    <3>1. memLog' = DeleteFrom(memLog, inst.end) /\ ipc = "installed"
      BY <2>2 DEF InstallCut, CutEnd
    <3>2. memLog.start <= inst.end /\ inst.end <= End(memLog)
      BY <2>o, <2>t, <3>1 DEF PositionsOrdered, InstallerBusy
    <3>3. Get(DeleteFrom(memLog, inst.end), p) = Get(memLog, p)
      BY <2>p, <2>t, <3>1, <3>2, DeleteFromEffect
    <3> QED
      BY <3>1, <3>3 DEF Get
  <2>3. CASE (InstallerNext /\ ~InstallCut) \/ CallShutdown \/ ShutdownNext \/ Wakeup
    <3>1. memLog' = memLog
      BY <2>3 DEF InstallerNext, InstallerStart, InstallerExit, InstallerTake, InstallerIdle,
         InstallBlock, InstallBarrier, InstallAdvance, InstallAdvanceBarrier, stvars,
         CallShutdown, ShutdownNext, ShutdownSleep, ShutdownDone, Wakeup
    <3> QED
      BY <2>0, <3>1
  <2>4. ASSUME NEW c \in Client, Call(c) \/ ClientNext(c)
        PROVE  Get(memLog, p)' = Get(memLog, p)
    <3>1. CASE MemWriteOne(c)
      <4> DEFINE u == req[c].bufs[req[c].next]
      <4>1. u \in Update /\ memLog.start <= memLog.mutable /\ memLog.mutable <= End(memLog)
        BY <3>1, NextUpdate
      <4>2. memLog' = MemWrite(memLog, u)
        BY <3>1 DEF MemWriteOne
      <4> HIDE DEF u
      <4>3. Get(MemWrite(memLog, u), p) = Get(memLog, p)
        BY <2>p, <2>t, <4>1, MemWriteEffect
      <4> QED
        BY <4>2, <4>3 DEF Get
    <3>2. CASE MemAppendFull(c) \/ FlushStart(c)
      <4>1. memLog'.log = memLog.log /\ memLog'.start = memLog.start
        BY <2>t, <3>2 DEF MemAppendFull, FlushStart, FlushRequest, SlidingType
      <4> QED
        BY <2>0, <4>1
    <3>3. CASE ~MemWriteOne(c) /\ ~MemAppendFull(c) /\ ~FlushStart(c)
      <4>1. memLog' = memLog
        BY <2>4, <3>3 DEF Call, CallMemAppend, CallFlush, CallRead, ClientNext, MemAppendFail,
           MemAppendStart, MemAppendDone, FlushSleep, FlushDone, ReadMemHit,
           ReadMemMiss, ReadInstalled, stvars
      <4> QED
        BY <2>0, <4>1
    <3> QED
      BY <3>1, <3>2, <3>3
  <2>5. CASE Crash
    BY <2>5, <2>t DEF Crash
  <2>6. CASE UNCHANGED vars
    BY <2>0, <2>6 DEF vars, stvars
  <2> QED
    BY <2>1, <2>2, <2>3, <2>4, <2>5, <2>6 DEF Next
<1>2. IInv /\ [Next]_vars => [A]_vars
  BY <1>1
<1> QED
  BY <1>2, Invariant, PTL DEF Spec, SharedSlicesStable
=============================================================================
