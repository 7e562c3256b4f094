-------------------------------- MODULE Paxos -------------------------------
(* The replicated state of gokv/vrsm/paxos: servers that elect a leader by   *)
(* epochs and hold a copy of the state it last released.  A server's         *)
(* paxosState changes in memory under its mutex; a handler answers once the  *)
(* AsyncFile has written what it left.  Messages may be delayed, repeated or *)
(* lost, and a server that crashes comes back with what its file holds.      *)
(* The application's state is represented by the operations that made it.    *)
EXTENDS Integers, Sequences, FiniteSets

CONSTANTS
  Server,       \* the servers, each of which has a clerk for all of them
  Op,           \* operations of the application
  MaxEpoch, MaxIndex, MaxTries, MaxCrashes   \* bounds of a run

ASSUME PaxosAssumption ==
  /\ IsFiniteSet(Server)
  /\ {MaxEpoch, MaxIndex, MaxTries, MaxCrashes} \subseteq Nat

VARIABLES
  ps,         \* paxosState of each server, in memory
  disk,       \* what its file holds
  waiting,    \* messages of a server that wait for a write to its file
  msgs,       \* all messages sent so far
  tries,      \* elections a server is running
  releases,   \* the calls of tryRelease it is in
  acked,      \* what tryRelease returned ENone for
  crashes

vars == <<ps, disk, waiting, msgs, tries, releases, acked, crashes>>

\* half of the servers, rounded down
BadMajority(Q) == Cardinality(Q) >= Cardinality(Server) \div 2
\* more than half of the answers are successes, of a vote and of a release alike
Majority(Q) == 2 * Cardinality(Q) > Cardinality(Server)

Init ==
  /\ ps = [s \in Server |-> [epoch |-> 0, acceptedEpoch |-> 0, nextIndex |-> 0,
                             state |-> <<>>, isLeader |-> FALSE]]
  /\ disk = ps
  /\ waiting = [s \in Server |-> {}]
  /\ msgs = {}
  /\ tries = [s \in Server |-> {}]
  /\ releases = [s \in Server |-> {}]
  /\ acked = {}
  /\ crashes = 0

\* the message is not held back for the write
BadAfterWrite(s, m) == msgs' = msgs \cup {m} /\ UNCHANGED waiting
\* withLock and tryRelease: s sends m when waitFn has returned
AfterWrite(s, m) == waiting' = [waiting EXCEPT ![s] = @ \cup {m}] /\ UNCHANGED msgs

-----------------------------------------------------------------------------
(* TryBecomeLeader, first half: ask every server for its vote.               *)
TryBecomeLeader(s) ==
  LET m == [type |-> "enter", from |-> s, epoch |-> ps[s].epoch + 1,
            no |-> Cardinality({r \in msgs : r.type = "enter" /\ r.from = s}) + 1]
  IN  /\ ~ps[s].isLeader
      /\ m.epoch <= MaxEpoch /\ m.no <= MaxTries
      /\ msgs' = msgs \cup {m}
      /\ tries' = [tries EXCEPT ![s] = @ \cup {m}]
      /\ UNCHANGED <<ps, disk, waiting, releases, acked, crashes>>

\* a second vote in the same epoch
BadStale(s, m) == ps[s].epoch > m.epoch
Stale(s, m) == ps[s].epoch >= m.epoch

EnterNewEpoch(s, m) ==
  /\ m \in msgs /\ m.type = "enter"
  /\ ~Stale(s, m)      \* else the answer is EEpochStale, which no one counts
  /\ ps' = [ps EXCEPT ![s].isLeader = FALSE, ![s].epoch = m.epoch]
  /\ AfterWrite(s, [type |-> "vote", by |-> s, req |-> m, acceptedEpoch |-> ps[s].acceptedEpoch,
                    nextIndex |-> ps[s].nextIndex, state |-> ps[s].state])
  /\ UNCHANGED <<disk, tries, releases, acked, crashes>>

\* any vote will do
BadLatest(V) == V
\* latestReply
Latest(V) ==
  {v \in V : \A u \in V : \/ u.acceptedEpoch < v.acceptedEpoch
                          \/ u.acceptedEpoch = v.acceptedEpoch /\ u.nextIndex <= v.nextIndex}

\* TryBecomeLeader, second half: the votes that have come are enough
BecomeLeader(s, m, V) ==
  /\ m \in tries[s]
  /\ V \subseteq {v \in msgs : v.type = "vote" /\ v.req = m}
  /\ Majority({v.by : v \in V})
  /\ tries' = [tries EXCEPT ![s] = @ \ {m}]
  /\ IF ps[s].epoch <= m.epoch
     THEN \E v \in Latest(V) :
            ps' = [ps EXCEPT ![s] = [epoch |-> m.epoch, acceptedEpoch |-> m.epoch,
                                     nextIndex |-> v.nextIndex, state |-> v.state, isLeader |-> TRUE]]
     ELSE UNCHANGED ps
  /\ UNCHANGED <<disk, waiting, msgs, releases, acked, crashes>>

\* TryAcquire, an operation of the application on the state, and tryRelease up
\* to its calls; the mutex is held all the way
TryAcquire(s, op) ==
  LET m == [type |-> "apply", from |-> s, epoch |-> ps[s].epoch,
            nextIndex |-> ps[s].nextIndex + 1, state |-> Append(ps[s].state, op)]
  IN  /\ ps[s].isLeader
      /\ m.nextIndex <= MaxIndex
      /\ ps' = [ps EXCEPT ![s].nextIndex = m.nextIndex, ![s].state = m.state]
      /\ releases' = [releases EXCEPT ![s] = @ \cup {m}]
      /\ AfterWrite(s, m)
      /\ UNCHANGED <<disk, tries, acked, crashes>>

\* a repeated or delayed message of the same epoch must not set the state back
Older(s, m) == ps[s].nextIndex >= m.nextIndex

ApplyAsFollower(s, m) ==
  /\ m \in msgs /\ m.type = "apply"
  /\ ps[s].epoch <= m.epoch      \* else the answer is EEpochStale
  /\ ps' = [ps EXCEPT ![s] =
              IF @.acceptedEpoch # m.epoch
              THEN [epoch |-> m.epoch, acceptedEpoch |-> m.epoch, nextIndex |-> m.nextIndex,
                    state |-> m.state, isLeader |-> FALSE]
              ELSE IF Older(s, m) THEN @
              ELSE [@ EXCEPT !.nextIndex = m.nextIndex, !.state = m.state]]
  /\ AfterWrite(s, [type |-> "applied", by |-> s, req |-> m])
  /\ UNCHANGED <<disk, tries, releases, acked, crashes>>

\* tryRelease returns ENone
Released(s, m) ==
  /\ m \in releases[s]
  /\ Majority({r.by : r \in {x \in msgs : x.type = "applied" /\ x.req = m}})
  /\ releases' = [releases EXCEPT ![s] = @ \ {m}]
  /\ acked' = acked \cup {m}
  /\ UNCHANGED <<ps, disk, waiting, msgs, tries, crashes>>

\* flushThread writes the latest state; whoever waited for that goes on
Flush(s) ==
  /\ disk[s] # ps[s] \/ waiting[s] # {}
  /\ disk' = [disk EXCEPT ![s] = ps[s]]
  /\ msgs' = msgs \cup waiting[s]
  /\ waiting' = [waiting EXCEPT ![s] = {}]
  /\ UNCHANGED <<ps, tries, releases, acked, crashes>>

\* s is lost, and makeServer reads its file
Crash(s) ==
  /\ crashes < MaxCrashes
  /\ crashes' = crashes + 1
  /\ ps' = [ps EXCEPT ![s] = disk[s]]
  /\ waiting' = [waiting EXCEPT ![s] = {}]
  /\ tries' = [tries EXCEPT ![s] = {}]
  /\ releases' = [releases EXCEPT ![s] = {}]
  /\ UNCHANGED <<disk, msgs, acked>>

ServerNext(s) ==
  \/ TryBecomeLeader(s)
  \/ \E m \in msgs : EnterNewEpoch(s, m) \/ ApplyAsFollower(s, m)
  \/ \E m \in tries[s] : \E V \in SUBSET {v \in msgs : v.type = "vote" /\ v.req = m} : BecomeLeader(s, m, V)
  \/ \E op \in Op : TryAcquire(s, op)
  \/ \E m \in releases[s] : Released(s, m)
  \/ Flush(s)
  \/ Crash(s)

Next == \E s \in Server : ServerNext(s)

Spec == Init /\ [][Next]_vars

-----------------------------------------------------------------------------
(* Two servers never both take themselves for the leader of one epoch, with  *)
(* votes repeated, elections run twice and leaders that crash and come back. *)
OneLeaderPerEpoch ==
  \A s, t \in Server :
    (ps[s].isLeader /\ ps[t].isLeader /\ ps[s].epoch = ps[t].epoch) => s = t

Copies == {ps[s] : s \in Server} \cup {disk[s] : s \in Server}
Prefix(s, t) == Len(s) <= Len(t) /\ SubSeq(t, 1, Len(s)) = s

(* Epoch and index say which state a server holds: applyAsFollower tells     *)
(* messages apart by them alone.                                             *)
SameIndexSameState ==
  \A p, q \in Copies :
    (p.acceptedEpoch = q.acceptedEpoch /\ p.nextIndex <= q.nextIndex) => Prefix(p.state, q.state)

(* Whoever leads an epoch not before that of an acknowledged release has     *)
(* that state as a prefix of its own.                                        *)
LeaderHasAcked ==
  \A m \in acked : \A s \in Server :
    (ps[s].isLeader /\ ps[s].epoch >= m.epoch) => Prefix(m.state, ps[s].state)

(* What has been acknowledged is one log, which only grows.                  *)
Acknowledged ==
  IF acked = {} THEN <<>>
  ELSE (CHOOSE m \in acked : \A n \in acked : n.nextIndex <= m.nextIndex).state
AbstractLog == INSTANCE OneLog WITH log <- Acknowledged
ImplementsOneLog == AbstractLog!Spec
=============================================================================
