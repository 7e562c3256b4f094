----------------------------- MODULE WalDataInv -----------------------------
(* The second inductive invariant of Wal: what the log, the slots on disk    *)
(* and the data region hold, in terms of the transactions appended.  WalInv  *)
(* has the order of the positions, on which it builds.                       *)
EXTENDS WalInv

-----------------------------------------------------------------------------
(* A sliding log: its last update of an address below a position.            *)

LastIn(s, a, p, e) ==
  /\ p \in s.start .. e - 1 /\ Get(s, p).Addr = a
  /\ \A q \in p + 1 .. e - 1 : Get(s, q).Addr # a

Untouched(s, a, e) == \A q \in s.start .. e - 1 : Get(s, q).Addr # a

\* the updates below e, made to a disk with the blocks of base, leave those of now
Shows(s, e, base, now) ==
  \A a \in Addr :
    /\ \A p \in s.start .. e - 1 : LastIn(s, a, p, e) => Get(s, p).Block = now[a]
    /\ Untouched(s, a, e) => now[a] = base[a]

\* addrPos finds the last update of the whole log
Finds(s, a) ==
  IF s.addrPos[a] = NoPos THEN Untouched(s, a, End(s))
                          ELSE LastIn(s, a, s.addrPos[a], End(s))

\* memWrite absorbs, so the mutable part has one update of an address
MutableUnique(s) ==
  \A p, q \in s.mutable .. End(s) - 1 : Get(s, p).Addr = Get(s, q).Addr => p = q

LogInv == (\A a \in Addr : Finds(memLog, a)) /\ MutableUnique(memLog)

-----------------------------------------------------------------------------
(* The slots: those of the logged positions are on disk, those of the        *)
(* positions being logged on their way.                                      *)

SlotIs(p) ==
  /\ Possible(logblk[SlotOf(p)]) = {Get(memLog, p).Block}
  /\ diskAddrs[SlotOf(p)] = Get(memLog, p).Addr

SlotsInv ==
  /\ \A p \in memLog.start .. diskEnd - 1 :
       SlotIs(p) /\ \A h \in Possible(hdr1) : h.addrs[SlotOf(p)] = Get(memLog, p).Addr
  /\ lpc = "logBlocks" =>
       \A p \in diskEnd .. lg.next - 1 :
         /\ logblk[SlotOf(p)].latest = Get(memLog, p).Block
         /\ diskAddrs[SlotOf(p)] = Get(memLog, p).Addr
  /\ lpc \in {"hdr", "hdrBarrier", "logged"} => \A p \in diskEnd .. lg.end - 1 : SlotIs(p)
  /\ lpc = "hdrBarrier" => \A h \in Possible(hdr1) : h.end # diskEnd => h.addrs = diskAddrs
  /\ lpc = "hdrBarrier" => hdr1.latest.addrs = diskAddrs
  /\ lpc = "logged" => hdr1.latest.addrs = diskAddrs

-----------------------------------------------------------------------------
(* The transactions: where the threads cut the log, a transaction ends, and  *)
(* the log up to there has the effect of the transactions up to there.       *)

Bounds ==
  {memLog.start, diskEnd, memLog.mutable}
    \cup (IF LoggerBusy THEN {lg.end} ELSE {})
    \cup (IF InstallerBusy THEN {inst.end} ELSE {})

\* the last of the transactions ts that fits below e, what the first n leave,
\* what those below e leave, what all leave, and all with the updates us on top
UpTo(ts, e)   == Max({ n \in DOMAIN ts : ts[n].pos <= e })
DiskOf(ts, n) == [a \in Addr |-> LS!Value(SubSeq(ts, 1, n), a)]
Disk(ts, e)   == DiskOf(ts, UpTo(ts, e))
Latest(ts)    == [a \in Addr |-> LS!Value(ts, a)]
With(ts, us)  == Latest(Append(ts, [pos |-> 0, upds |-> us]))

Ordered(ts) == \A i, j \in DOMAIN ts : i <= j => ts[i].pos <= ts[j].pos

\* an update that may no longer change is what some transaction left there, one
\* of those that end with it
Known(ts, s, B, p) ==
  \E n \in DOMAIN ts :
    /\ Get(s, p).Block = DiskOf(ts, n)[Get(s, p).Addr]
    /\ ts[n].pos > p
    /\ \A e \in B : e > p => ts[n].pos <= e

\* the log s, cut at the positions B, has the effect of ts
Effect(ts, s, B) ==
  /\ Ordered(ts)
  /\ ts[Len(ts)].pos <= End(s)
  /\ \A e \in B : \E n \in DOMAIN ts : ts[n].pos = e
  /\ \A e \in B : Shows(s, e, Disk(ts, s.start), Disk(ts, e))
  /\ \A p \in s.start .. s.mutable - 1 : Known(ts, s, B, p)

\* to its end, s leaves now
Ends(ts, s, now) == Shows(s, End(s), Disk(ts, s.start), now)

\* what client c has written so far of its transaction
Written(c) == SubSeq(req[c].bufs, 1, req[c].next - 1)

EndShown ==
  /\ \A c \in Client : cpc[c] = "memWrite" =>
       /\ Ends(txns, memLog, With(txns, Written(c)))
       /\ req[c].next > 1 => End(memLog) > memLog.mutable
  /\ (\A c \in Client : cpc[c] # "memWrite") =>
       /\ Ends(txns, memLog, Latest(txns))
       /\ txns[Len(txns)].pos = End(memLog)

TxnsInv == Effect(txns, memLog, Bounds) /\ EndShown

-----------------------------------------------------------------------------
(* The data region: what an installation may have touched is in the log.     *)

InstallBound == IF InstallerBusy THEN inst.end ELSE diskEnd
AllInstalled == ipc \in {"advance", "advBarrier", "installed"}

\* v is at a after some transaction of ts between the positions lo and hi
Within(ts, lo, hi, a, v) == \E n \in UpTo(ts, lo) .. UpTo(ts, hi) : v = DiskOf(ts, n)[a]

DataInv ==
  /\ AllInstalled => \A a \in Addr : Possible(data[a]) = {Disk(txns, inst.end)[a]}
  /\ ~AllInstalled => \A a \in Addr :
       Untouched(memLog, a, InstallBound) => Possible(data[a]) = {Disk(txns, memLog.start)[a]}
  /\ ipc = "install" => \A a \in Addr : \A p \in memLog.start .. inst.next - 1 :
       LastIn(memLog, a, p, inst.next) => data[a].latest = Get(memLog, p).Block
  /\ \A a \in Addr : \A v \in Possible(data[a]) : Within(txns, memLog.start, InstallBound, a, v)

-----------------------------------------------------------------------------
(* Reads: whatever may yet be installed, the reader has seen.                *)

ReaderSaw(c, a) ==
  /\ {data[a].latest, Current(a)} \subseteq seen[c]
  /\ \A p \in memLog.start .. memLog.mutable - 1 :
       Get(memLog, p).Addr = a => Get(memLog, p).Block \in seen[c]

SeenInv ==
  \A c \in Client : cpc[c] \in {"read", "readInstalled"} =>
    LET a == req[c].addr IN
    /\ a \in Addr
    /\ cpc[c] = "readInstalled" => ReaderSaw(c, a)

-----------------------------------------------------------------------------
(* Sleep: who sleeps on which condition variable, and where it went to sleep.*)

SleepersPlaced ==
  /\ memLock \notin Asleep
  /\ condLogger \subseteq {Logger} \cup Client
  /\ condInstall \subseteq {Logger, Installer}
  /\ condShut \subseteq {Stopper}
  /\ Logger \in condLogger => lpc = "loop"
  /\ Logger \in condInstall => lpc = "space"
  /\ Installer \in condInstall => ipc = "loop"
  /\ \A c \in condLogger \cap Client : cpc[c] \in {"append", "flushWait"}
  /\ Stopper \in condShut => spc = "wait"
  /\ lpc = "done" \/ ipc = "done" => shutdown

\* the logger has been told of what client c waits for, or is on its way to it
Told(c) ==
  /\ cpc[c] \in {"flush", "flushWait"} => req[c].pos <= End(memLog)
  /\ cpc[c] = "flushWait" => memLog.needFlush \/ req[c].pos <= memLog.mutable
  /\ c \in condLogger /\ cpc[c] = "append" => memLog.needFlush \/ memLog.mutable > diskEnd

LoggerTold == \A c \in Client : Told(c)

WakeInv == SleepersPlaced /\ LoggerTold /\ NoLostWakeup

DInv == LogInv /\ SlotsInv /\ TxnsInv /\ DataInv /\ SeenInv
=============================================================================
