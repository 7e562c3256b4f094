------------------------------ MODULE Sliding ------------------------------
(* The in-memory log of the write-ahead log: type `sliding` of               *)
(* go_journal/wal.v.  A sliding log holds the updates of the positions       *)
(* start .. End-1; those below `mutable` are read-only, those from `mutable` *)
(* on may be overwritten in place by a later write to the same address.      *)
(* addrPos is the Go map from an address to the position of its last update; *)
(* NoPos is the answer of a lookup that misses.                              *)
EXTENDS Integers, Sequences, FiniteSetsExt

CONSTANT Addr        \* addresses of the data region

NoPos == -1

(* Updates: an address and the block written there (a number naming it). *)
Update == [Addr : Addr, Block : Nat]

SlidingType ==
  [log : Seq(Update), start : Nat, mutable : Nat, needFlush : BOOLEAN,
   addrPos : [Addr -> Nat \cup {NoPos}]]

End(s) == s.start + Len(s.log)

(* sliding.get: the update at an absolute position. *)
Get(s, pos) == s.log[pos - s.start + 1]

(* What addrPos should be: the last position of the log that writes a. *)
LastPos(log, start, a) ==
  LET at == { i \in DOMAIN log : log[i].Addr = a }
  IN  IF at = {} THEN NoPos ELSE start + Max(at) - 1

(* mkSliding: the loop inserts in order, so the last position wins; the      *)
(* whole log given to it is read-only, and needFlush has its zero value.     *)
MkSliding(log, start) ==
  [log |-> log, start |-> start, mutable |-> start + Len(log),
   needFlush |-> FALSE, addrPos |-> [a \in Addr |-> LastPos(log, start, a)]]

(* Absorb into the whole log, read-only updates included (a wrong variant,   *)
(* as every definition named Bad... is: the checks must notice it).          *)
BadAbsorbable(s, u) == s.addrPos[u.Addr] >= s.start

Absorbable(s, u) ==
  /\ s.addrPos[u.Addr] # NoPos
  /\ s.addrPos[u.Addr] >= s.mutable

(* sliding.update *)
UpdateAt(s, pos, u) == [s EXCEPT !.log[pos - s.start + 1] = u]

(* sliding.append *)
AppendUpdate(s, u) ==
  [s EXCEPT !.log = Append(s.log, u), !.addrPos[u.Addr] = End(s)]

(* One iteration of the loop of sliding.memWrite. *)
MemWrite(s, u) ==
  IF Absorbable(s, u) THEN UpdateAt(s, s.addrPos[u.Addr], u)
                      ELSE AppendUpdate(s, u)

(* Number of updates takeFrom(from) and takeTill(to) return.  Both return a  *)
(* slice of the log's own array, so only its bounds are remembered.          *)
BadTakeFromLen(s, from) == End(s) - from
TakeFromLen(s, from) == s.mutable - from

TakeTillLen(s, to) == to - s.start

(* The positions of the deleted updates are forgotten even when a later      *)
(* update to the same address is still in the log.                           *)
BadDeleteFrom(s, newStart) ==
  [s EXCEPT !.log = SubSeq(s.log, newStart - s.start + 1, Len(s.log)),
            !.start = newStart,
            !.addrPos = [a \in Addr |->
               IF \E i \in 1..(newStart - s.start) : s.log[i].Addr = a
                 THEN NoPos ELSE s.addrPos[a]]]

(* sliding.deleteFrom drops the read-only updates below newStart.  The loop  *)
(* deletes an address whose remembered position is not beyond the update     *)
(* being dropped.                                                            *)
DeleteFrom(s, newStart) ==
  [s EXCEPT !.log = SubSeq(s.log, newStart - s.start + 1, Len(s.log)),
            !.start = newStart,
            !.addrPos = [a \in Addr |->
               IF \E i \in 1..(newStart - s.start) :
                     /\ s.log[i].Addr = a
                     /\ s.addrPos[a] <= s.start + i - 1
                 THEN NoPos ELSE s.addrPos[a]]]

ClearMutable(s) == [s EXCEPT !.mutable = End(s)]
=============================================================================
