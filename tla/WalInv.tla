------------------------------ MODULE WalInv ------------------------------
(* The inductive invariant behind the theorems of WalProofs: what the code   *)
(* of go_journal/wal.v relies on at every step, for every value of the       *)
(* constants.  TLC checks it like any other invariant.                       *)
EXTENDS Wal

(* What waitForSpace establishes: everything read-only fits the log slots.   *)
ReadOnlyFits == memLog.mutable - memLog.start <= LOGSZ

(* What memLogHasSpace establishes: everything not yet logged fits, too.     *)
UnloggedFits == End(memLog) - diskEnd <= LOGSZ

(* After its barrier the logger has no update left to write, nor has the     *)
(* installer after its own.                                                  *)
BlocksWritten ==
  /\ lpc \in {"hdr", "hdrBarrier", "logged"} => lg.next = lg.end
  /\ ipc \in {"advance", "advBarrier", "installed"} => inst.next = inst.end

(* A client that is writing holds memLock, and what it has still to write    *)
(* was accounted for when the log was found to have space.                   *)
Left(c) == Len(req[c].bufs) - req[c].next + 1

Reserved(c) ==
  /\ cpc[c] \in {"append", "memWrite"} => Len(req[c].bufs) <= LOGSZ
  /\ cpc[c] # "memWrite" => req[c].next = 1
  /\ cpc[c] = "memWrite" =>
       /\ memLock = c
       /\ 1 <= req[c].next /\ Left(c) >= 0
       /\ End(memLog) + Left(c) - diskEnd <= LOGSZ
       /\ End(memLog) + Left(c) < U64

AppendReserved == \A c \in Client : Reserved(c)

(* Header 1 on disk ends the log at diskEnd, until the logger replaces it.   *)
Hdr1Agrees ==
  IF lpc = "hdrBarrier"
    THEN /\ hdr1.latest.end = lg.end
         /\ \A h \in hdr1.pending : h.end \in {diskEnd, lg.end}
    ELSE /\ hdr1.pending = {}
         /\ hdr1.latest.end = IF lpc = "logged" THEN lg.end ELSE diskEnd

(* Header 2 on disk starts the log at memLog.start, until the installer      *)
(* advances it.                                                              *)
Hdr2Agrees ==
  IF ipc = "advBarrier"
    THEN /\ hdr2.latest = inst.end
         /\ hdr2.pending \subseteq {memLog.start, inst.end}
    ELSE /\ hdr2.pending = {}
         /\ hdr2.latest = IF ipc = "installed" THEN inst.end ELSE memLog.start

(* Every slot that was ever used has an address of the data region. *)
AddrsKnown ==
  /\ \A p \in 0 .. diskEnd - 1 : diskAddrs[SlotOf(p)] \in Addr
  /\ LoggerBusy => \A p \in 0 .. lg.next - 1 : diskAddrs[SlotOf(p)] \in Addr
  /\ \A h \in Possible(hdr1) : \A p \in 0 .. h.end - 1 : h.addrs[SlotOf(p)] \in Addr

(* The first transaction is the empty one at position 0. *)
FirstTxn == Len(txns) >= 1 /\ txns[1].pos = 0

(* What a Flush has promised is durable. *)
AckedDurable == acked <= TxnsUpTo(diskEnd)

(* Shutdown sets the flag before it counts, so a thread it did not count can *)
(* only find its way out.                                                    *)
ShutdownSeen ==
  /\ spc # "idle" => shutdown
  /\ spc = "done" => lpc \in {"start", "loop", "done"} /\ ipc \in {"start", "loop", "done"}

PositionsInv == PositionsOrdered /\ ReadOnlyFits /\ UnloggedFits /\ BlocksWritten /\ AppendReserved
DiskInv      == Hdr1Agrees /\ Hdr2Agrees /\ AddrsKnown
ThreadsInv   == ThreadsCounted /\ ShutdownSeen

IInv == TypeOK /\ PositionsInv /\ DiskInv /\ ThreadsInv /\ FirstTxn /\ AckedDurable
=============================================================================
