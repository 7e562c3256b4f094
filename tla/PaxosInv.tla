------------------------------ MODULE PaxosInv ------------------------------
(* The inductive invariant of Paxos, and what its parts are about.           *)
EXTENDS Paxos

-----------------------------------------------------------------------------
(* Types                                                                     *)

State      == [epoch : Nat, acceptedEpoch : Nat, nextIndex : Nat, state : Seq(Op), isLeader : BOOLEAN]
EnterMsg   == [type : {"enter"}, from : Server, epoch : Nat \ {0}, no : Nat]
VoteMsg    == [type : {"vote"}, by : Server, req : EnterMsg,
               acceptedEpoch : Nat, nextIndex : Nat, state : Seq(Op)]
ApplyMsg   == [type : {"apply"}, from : Server, epoch : Nat, nextIndex : Nat, state : Seq(Op)]
AppliedMsg == [type : {"applied"}, by : Server, req : ApplyMsg]
Message    == EnterMsg \cup VoteMsg \cup ApplyMsg \cup AppliedMsg

\* the elections a server has started
Started(s) == {m \in msgs : m.type = "enter" /\ m.from = s}

TypeOK ==
  /\ ps \in [Server -> State]
  /\ disk \in [Server -> State]
  /\ waiting \in [Server -> SUBSET (VoteMsg \cup ApplyMsg \cup AppliedMsg)]
  /\ msgs \subseteq Message
  /\ tries \in [Server -> SUBSET EnterMsg]
  /\ releases \in [Server -> SUBSET ApplyMsg]
  /\ acked \subseteq ApplyMsg
  /\ crashes \in Nat

\* a server's own messages, numbered in the order of its elections
Owned ==
  \A s \in Server :
    /\ \A m \in waiting[s] : IF m.type = "apply" THEN m.from = s ELSE m.by = s
    /\ tries[s] \subseteq Started(s)
    /\ IsFiniteSet(Started(s))
    /\ \A m \in Started(s) : m.no <= Cardinality(Started(s))

-----------------------------------------------------------------------------
(* Copies of the state: in memory, in files and in messages                  *)

Held == UNION {waiting[s] : s \in Server}
Sent == msgs \cup Held          \* sent, or on the point of it

SaneCopy(p) ==
  /\ p.nextIndex = Len(p.state)
  /\ p.acceptedEpoch <= p.epoch
  /\ p.isLeader => p.acceptedEpoch = p.epoch

Sane ==
  /\ \A s \in Server : SaneCopy(ps[s]) /\ SaneCopy(disk[s]) /\ disk[s].epoch <= ps[s].epoch
  /\ \A m \in Sent : m.type = "vote" => m.nextIndex = Len(m.state) /\ m.acceptedEpoch < m.req.epoch
  /\ \A m \in Sent : m.type = "apply" => m.nextIndex = Len(m.state)

\* a state x that somebody accepted in epoch e
Accepted(p)  == [e |-> p.acceptedEpoch, x |-> p.state]
AcceptedIn(M) == {Accepted(m) : m \in {v \in M : v.type = "vote"}}
                   \cup {[e |-> m.epoch, x |-> m.state] : m \in {a \in M : a.type = "apply"}}
Snaps == {Accepted(p) : p \in Copies} \cup AcceptedIn(Sent)

\* those that outlive a crash of s
Elsewhere(s) ==
  {Accepted(ps[t]) : t \in Server \ {s}} \cup {Accepted(disk[t]) : t \in Server}
    \cup AcceptedIn(msgs \cup UNION {waiting[t] : t \in Server \ {s}})

-----------------------------------------------------------------------------
(* Elections                                                                 *)

Voters(m)  == {v.by : v \in {u \in msgs : u.type = "vote" /\ u.req = m}}
\* m has been won, and cannot be won again
Elected(m) == m \in msgs /\ m.type = "enter" /\ m \notin tries[m.from] /\ Majority(Voters(m))

\* a server votes once in an epoch, and never again in an earlier one
VotesBind ==
  /\ \A v \in Sent : v.type = "vote" => v.req \in msgs /\ ps[v.by].epoch >= v.req.epoch
  /\ \A v \in msgs : v.type = "vote" => disk[v.by].epoch >= v.req.epoch
  /\ \A u, v \in Sent :
       (u.type = "vote" /\ v.type = "vote" /\ u.by = v.by /\ u.req.epoch = v.req.epoch) => u.req = v.req

LeadersElected ==
  \A s \in Server : \A p \in {ps[s], disk[s]} :
    p.isLeader => \E m \in msgs : Elected(m) /\ m.from = s /\ m.epoch = p.epoch

\* nothing is accepted in an epoch before its election is over
AcceptedAfterElection ==
  \A q \in Snaps : IF q.e = 0 THEN q.x = <<>> ELSE \E m \in msgs : Elected(m) /\ m.epoch = q.e

-----------------------------------------------------------------------------
(* One epoch has one line of states, at the end of which is its leader       *)

Comparable(x, y) == Prefix(x, y) \/ Prefix(y, x)

OneLine == \A q, r \in Snaps : q.e = r.e => Comparable(q.x, r.x)

LeaderAhead ==
  \A s \in Server :
    /\ ps[s].isLeader => \A q \in Snaps : q.e = ps[s].epoch => Prefix(q.x, ps[s].state)
    /\ disk[s].isLeader => \A q \in Elsewhere(s) : q.e = disk[s].epoch => Prefix(q.x, disk[s].state)

-----------------------------------------------------------------------------
(* Across epochs                                                             *)

\* the state in p is m's or one that came after it
Covers(p, m) == p.acceptedEpoch > m.epoch \/ (p.acceptedEpoch = m.epoch /\ Prefix(m.state, p.state))

AppliedCovered ==
  /\ \A a \in Sent : a.type = "applied" => a.req \in msgs /\ a.req.type = "apply" /\ Covers(ps[a.by], a.req)
  /\ \A a \in msgs : a.type = "applied" => Covers(disk[a.by], a.req)
  /\ \A a \in Held : a.type = "applied" => disk[a.by].epoch <= a.req.epoch
  /\ \A a, v \in Sent :
       (a.type = "applied" /\ v.type = "vote" /\ a.by = v.by /\ a.req.epoch < v.req.epoch) => Covers(v, a.req)

Appliers(m) == {a.by : a \in {b \in msgs : b.type = "applied" /\ b.req = m}}

\* a majority has applied m, or still may
Choosable(m) ==
  Majority({b \in Server : b \in Appliers(m) \/ disk[b].epoch <= m.epoch})

\* what may be acknowledged is in everything accepted later
Safe ==
  \A m \in msgs : m.type = "apply" =>
    (Choosable(m) => \A q \in Snaps : q.e > m.epoch => Prefix(m.state, q.x))

AckedApplied ==
  /\ \A m \in acked : m \in msgs /\ Majority(Appliers(m))
  /\ acked # {} => \E m \in acked : \A n \in acked : n.nextIndex <= m.nextIndex

IInv ==
  /\ TypeOK /\ Owned /\ Sane
  /\ VotesBind /\ LeadersElected /\ AcceptedAfterElection
  /\ OneLine /\ LeaderAhead
  /\ AppliedCovered /\ Safe /\ AckedApplied
=============================================================================
