---------------------------- MODULE PaxosProofs ----------------------------
(* Theorems about the replicated state, for any finite number of servers,    *)
(* any operations and any bounds.                                            *)
EXTENDS PaxosInv, FiniteSetTheorems, SequenceTheorems, TLAPS

-----------------------------------------------------------------------------
(* Prefixes                                                                  *)

(* Prefix compares element by element. *)
LEMMA PrefixByElement ==
  ASSUME NEW S, NEW s \in Seq(S), NEW t \in Seq(S)
  PROVE  Prefix(s, t) <=> Len(s) <= Len(t) /\ \A i \in 1..Len(s) : s[i] = t[i]
<1>1. Len(s) \in Nat /\ Len(t) \in Nat
  BY LenProperties
<1> SUFFICES ASSUME Len(s) <= Len(t)
             PROVE  SubSeq(t, 1, Len(s)) = s <=> \A i \in 1..Len(s) : s[i] = t[i]
  BY <1>1 DEF Prefix
<1> DEFINE u == SubSeq(t, 1, Len(s))
<1>2. \A i \in 1..Len(s) : t[i] \in S
  BY <1>1, ElementOfSeq
<1>3. u \in Seq(S) /\ Len(u) = Len(s) /\ \A i \in 1..Len(s) : u[i] = t[i]
  <2>1. /\ u \in Seq(S)
        /\ Len(u) = IF 1 <= Len(s) THEN Len(s) - 1 + 1 ELSE 0
        /\ \A i \in 1..(Len(s) - 1 + 1) : u[i] = t[1 + i - 1]
    BY <1>1, <1>2, SubSeqProperties
  <2> QED
    BY <1>1, <2>1
<1> HIDE DEF u
<1>4. (\A i \in 1..Len(s) : s[i] = t[i]) => u = s
  BY <1>3, SeqEqual
<1> QED
  BY <1>3, <1>4 DEF u

(* What is a prefix of a prefix is one. *)
LEMMA PrefixTrans ==
  ASSUME NEW S, NEW s \in Seq(S), NEW t \in Seq(S), NEW u \in Seq(S), Prefix(s, t), Prefix(t, u)
  PROVE  Prefix(s, u)
<1>1. Len(s) \in Nat /\ Len(t) \in Nat /\ Len(u) \in Nat
  BY LenProperties
<1>2. Len(s) <= Len(t) /\ Len(t) <= Len(u)
  BY PrefixByElement
<1>3. \A i \in 1..Len(s) : s[i] = t[i] /\ i \in 1..Len(t)
  BY <1>1, <1>2, PrefixByElement
<1>4. \A i \in 1..Len(t) : t[i] = u[i]
  BY PrefixByElement
<1>5. Len(s) <= Len(u) /\ \A i \in 1..Len(s) : s[i] = u[i]
  BY <1>1, <1>2, <1>3, <1>4
<1> QED
  BY <1>5, PrefixByElement

(* A sequence is a prefix of itself with one more element. *)
LEMMA PrefixAppend ==
  ASSUME NEW S, NEW s \in Seq(S), NEW t \in Seq(S), NEW e \in S, Prefix(s, t)
  PROVE  Prefix(s, Append(t, e))
<1>1. Len(s) \in Nat /\ Len(t) \in Nat
  BY LenProperties
<1>2. /\ Append(t, e) \in Seq(S) /\ Len(Append(t, e)) = Len(t) + 1
      /\ \A i \in 1..Len(t) : Append(t, e)[i] = t[i]
  BY AppendProperties
<1>3. Len(s) <= Len(t) /\ \A i \in 1..Len(s) : s[i] = t[i]
  BY PrefixByElement
<1>4. Len(s) <= Len(t) + 1 /\ \A i \in 1..Len(s) : s[i] = Append(t, e)[i]
  BY <1>1, <1>2, <1>3
<1> QED
  BY <1>2, <1>4, PrefixByElement

(* The empty sequence is a prefix of every other. *)
LEMMA PrefixEmpty ==
  ASSUME NEW S, NEW s \in Seq(S)
  PROVE  Prefix(<<>>, s)
<1>1. Len(s) \in Nat
  BY LenProperties
<1>2. ASSUME NEW z \in Seq(S), Len(z) = 0
      PROVE  Prefix(z, s)
  <2>1. Len(z) <= Len(s) /\ \A i \in 1..Len(z) : z[i] = s[i]
    BY <1>1, <1>2
  <2> QED
    BY <2>1, PrefixByElement
<1>3. <<>> \in Seq(S) /\ Len(<<>>) = 0
  BY EmptySeq
<1> QED
  BY <1>2, <1>3

(* Of two comparable sequences the shorter is the prefix. *)
LEMMA ShorterIsPrefix ==
  ASSUME NEW S, NEW s \in Seq(S), NEW t \in Seq(S), Comparable(s, t), Len(s) <= Len(t)
  PROVE  Prefix(s, t)
<1>1. Len(s) \in Nat /\ Len(t) \in Nat
  BY LenProperties
<1>2. CASE Prefix(t, s)
  <2>1. Len(t) = Len(s) /\ \A i \in 1..Len(t) : t[i] = s[i]
    BY <1>1, <1>2, PrefixByElement
  <2> QED
    BY <2>1, PrefixByElement
<1> QED
  BY <1>2 DEF Comparable

-----------------------------------------------------------------------------
(* Majorities                                                                *)

(* Two majorities have a server in common. *)
LEMMA MajoritiesMeet ==
  ASSUME NEW Q \in SUBSET Server, NEW R \in SUBSET Server, Majority(Q), Majority(R)
  PROVE  \E s \in Server : s \in Q /\ s \in R
<1>1. IsFiniteSet(Server) /\ IsFiniteSet(Q) /\ IsFiniteSet(R)
  BY PaxosAssumption, FS_Subset
<1>2. Cardinality(Server) \in Nat /\ Cardinality(Q) \in Nat /\ Cardinality(R) \in Nat
  BY <1>1, FS_CardinalityType
<1>3. Cardinality(Q) + Cardinality(R) > Cardinality(Server)
  BY <1>2 DEF Majority
<1>4. Q \cap R # {}
  BY <1>1, <1>3, FS_MajoritiesIntersect
<1> QED
  BY <1>4

(* More servers than a majority are a majority. *)
LEMMA MajorityGrows ==
  ASSUME NEW R \in SUBSET Server, NEW Q \in SUBSET R, Majority(Q)
  PROVE  Majority(R)
<1>1. IsFiniteSet(R) /\ IsFiniteSet(Q) /\ IsFiniteSet(Server)
  BY PaxosAssumption, FS_Subset
<1>2. Cardinality(Q) \in Nat /\ Cardinality(R) \in Nat /\ Cardinality(Server) \in Nat
  BY <1>1, FS_CardinalityType
<1>3. Cardinality(Q) <= Cardinality(R)
  BY <1>1, FS_Subset
<1> QED
  BY <1>2, <1>3 DEF Majority

-----------------------------------------------------------------------------
(* Types                                                                     *)

(* A message is of the kind its type says. *)
LEMMA MessageKind ==
  ASSUME NEW m \in Message
  PROVE  /\ m.type = "enter" => m \in EnterMsg
         /\ m.type = "vote" => m \in VoteMsg
         /\ m.type = "apply" => m \in ApplyMsg
         /\ m.type = "applied" => m \in AppliedMsg
BY DEF Message, EnterMsg, VoteMsg, ApplyMsg, AppliedMsg

(* What is sent or waiting to be sent is a message, and a server waits to    *)
(* send votes, states and answers only.                                      *)
LEMMA SentMessages ==
  ASSUME TypeOK
  PROVE  /\ Sent \subseteq Message
         /\ \A s \in Server : \A m \in waiting[s] : m \in Sent /\ m.type # "enter"
         /\ \A m \in Held : m.type # "enter"
         /\ msgs \subseteq Sent /\ Held \subseteq Sent
         /\ \A m \in Held : \E s \in Server : m \in waiting[s]
         /\ \A m \in Sent : m \in msgs \/ m \in Held
BY DEF TypeOK, Sent, Held, Message, VoteMsg, ApplyMsg, AppliedMsg

(* The number of elections a server has started grows with each.             *)
LEMMA StartedFresh ==
  ASSUME TypeOK, Owned, NEW s \in Server, TryBecomeLeader(s)
  PROVE  \E m \in EnterMsg :
           /\ m.from = s /\ m.epoch = ps[s].epoch + 1 /\ m \notin msgs
           /\ msgs' = msgs \cup {m}
           /\ tries' = [tries EXCEPT ![s] = @ \cup {m}]
           /\ Started(s)' = Started(s) \cup {m}
           /\ \A t \in Server \ {s} : Started(t)' = Started(t)
           /\ IsFiniteSet(Started(s)') /\ Cardinality(Started(s)') = Cardinality(Started(s)) + 1
           /\ m.no = Cardinality(Started(s)) + 1 /\ Cardinality(Started(s)) \in Nat
<1> DEFINE m == [type |-> "enter", from |-> s, epoch |-> ps[s].epoch + 1,
                 no |-> Cardinality(Started(s)) + 1]
<1>1. IsFiniteSet(Started(s)) /\ Cardinality(Started(s)) \in Nat
  BY FS_CardinalityType DEF Owned
<1>2. ps[s].epoch \in Nat
  BY DEF TypeOK, State
<1>3. m \in EnterMsg
  BY <1>1, <1>2 DEF EnterMsg
<1>4. msgs' = msgs \cup {m} /\ tries' = [tries EXCEPT ![s] = @ \cup {m}]
  BY DEF TryBecomeLeader, Started
<1>5. m \notin Started(s)
  BY <1>1 DEF Owned
<1>6. m.type = "enter" /\ m.from = s /\ m.epoch = ps[s].epoch + 1 /\ m.no = Cardinality(Started(s)) + 1
  OBVIOUS
<1> HIDE DEF m
<1>7. m \notin msgs
  BY <1>5, <1>6 DEF Started
<1>8. Started(s)' = Started(s) \cup {m} /\ \A t \in Server \ {s} : Started(t)' = Started(t)
  BY <1>4, <1>6 DEF Started
<1>9. /\ IsFiniteSet(Started(s) \cup {m})
      /\ Cardinality(Started(s) \cup {m}) = Cardinality(Started(s)) + 1
  BY <1>1, <1>5, FS_AddElement
<1> QED
  BY <1>1, <1>3, <1>4, <1>6, <1>7, <1>8, <1>9

(* Apart from that, messages are added to the waiting ones and then sent.    *)
LEMMA WriteEffect ==
  ASSUME TypeOK, NEW s \in Server, NEW m, AfterWrite(s, m)
  PROVE  /\ Held' = Held \cup {m} /\ Sent' = Sent \cup {m} /\ msgs' = msgs
         /\ waiting'[s] = waiting[s] \cup {m}
         /\ \A t \in Server \ {s} : waiting'[t] = waiting[t]
<1>1. waiting \in [Server -> SUBSET (VoteMsg \cup ApplyMsg \cup AppliedMsg)]
  BY DEF TypeOK
<1>2. /\ waiting'[s] = waiting[s] \cup {m} /\ msgs' = msgs
      /\ \A t \in Server \ {s} : waiting'[t] = waiting[t]
  BY <1>1 DEF AfterWrite
<1>3. Held' = Held \cup {m}
  <2>1. Held' \subseteq Held \cup {m}
    BY <1>2 DEF Held
  <2>2. Held \cup {m} \subseteq Held'
    BY <1>2 DEF Held
  <2> QED
    BY <2>1, <2>2
<1> QED
  BY <1>2, <1>3 DEF Sent

(* A write sends what waited for it and loses nothing.                       *)
LEMMA FlushEffect ==
  ASSUME TypeOK, NEW s \in Server, Flush(s)
  PROVE  /\ Sent' \subseteq Sent /\ Held' \subseteq Held
         /\ msgs' = msgs \cup waiting[s] /\ waiting'[s] = {}
         /\ disk'[s] = ps[s] /\ ps' = ps
         /\ \A t \in Server \ {s} : waiting'[t] = waiting[t] /\ disk'[t] = disk[t]
<1>1. /\ waiting \in [Server -> SUBSET (VoteMsg \cup ApplyMsg \cup AppliedMsg)]
      /\ disk \in [Server -> State]
  BY DEF TypeOK
<1>2. /\ msgs' = msgs \cup waiting[s] /\ waiting'[s] = {}
      /\ disk'[s] = ps[s] /\ ps' = ps
      /\ \A t \in Server \ {s} : waiting'[t] = waiting[t] /\ disk'[t] = disk[t]
  BY <1>1 DEF Flush
<1>3. Held' \subseteq Held /\ waiting[s] \subseteq Held
  BY <1>2 DEF Held
<1> QED
  BY <1>2, <1>3 DEF Sent

(* A crash loses what waited, and the file becomes the state.                *)
LEMMA CrashEffect ==
  ASSUME TypeOK, NEW s \in Server, Crash(s)
  PROVE  /\ Sent' \subseteq Sent /\ Held' \subseteq Held
         /\ msgs' = msgs /\ waiting'[s] = {}
         /\ ps'[s] = disk[s] /\ disk' = disk
         /\ \A t \in Server \ {s} : waiting'[t] = waiting[t] /\ ps'[t] = ps[t]
<1>1. /\ waiting \in [Server -> SUBSET (VoteMsg \cup ApplyMsg \cup AppliedMsg)]
      /\ ps \in [Server -> State]
  BY DEF TypeOK
<1>2. /\ msgs' = msgs /\ waiting'[s] = {}
      /\ ps'[s] = disk[s] /\ disk' = disk
      /\ \A t \in Server \ {s} : waiting'[t] = waiting[t] /\ ps'[t] = ps[t]
  BY <1>1 DEF Crash
<1>3. Held' \subseteq Held
  BY <1>2 DEF Held
<1> QED
  BY <1>2, <1>3 DEF Sent

(* Every step keeps the types. *)
LEMMA TypeStep ==
  ASSUME TypeOK, Owned, [Next]_vars
  PROVE  TypeOK'
<1>t. /\ ps \in [Server -> State]
      /\ disk \in [Server -> State]
      /\ waiting \in [Server -> SUBSET (VoteMsg \cup ApplyMsg \cup AppliedMsg)]
      /\ msgs \subseteq Message
      /\ tries \in [Server -> SUBSET EnterMsg]
      /\ releases \in [Server -> SUBSET ApplyMsg]
      /\ acked \subseteq ApplyMsg
      /\ crashes \in Nat
  BY DEF TypeOK
<1>1. ASSUME NEW s \in Server, TryBecomeLeader(s)
      PROVE  TypeOK'
  <2>1. PICK m \in EnterMsg : msgs' = msgs \cup {m} /\ tries' = [tries EXCEPT ![s] = @ \cup {m}]
    BY <1>1, StartedFresh
  <2>2. m \in Message
    BY DEF Message
  <2> QED
    BY <1>t, <1>1, <2>1, <2>2 DEF TryBecomeLeader, TypeOK
<1>2. ASSUME NEW s \in Server, NEW m \in msgs, EnterNewEpoch(s, m)
      PROVE  TypeOK'
  <2>1. m \in EnterMsg /\ m.epoch \in Nat
    BY <1>t, <1>2, MessageKind DEF EnterNewEpoch, EnterMsg
  <2>2. ps[s] \in State
    BY <1>t
  <2>3. ps' \in [Server -> State]
    BY <1>t, <1>2, <2>1 DEF EnterNewEpoch, State
  <2>4. [type |-> "vote", by |-> s, req |-> m, acceptedEpoch |-> ps[s].acceptedEpoch,
         nextIndex |-> ps[s].nextIndex, state |-> ps[s].state] \in VoteMsg
    BY <2>1, <2>2 DEF State, VoteMsg
  <2>5. waiting' \in [Server -> SUBSET (VoteMsg \cup ApplyMsg \cup AppliedMsg)]
    BY <1>t, <1>2, <2>4 DEF EnterNewEpoch, AfterWrite
  <2> QED
    BY <1>t, <1>2, <2>3, <2>5 DEF EnterNewEpoch, AfterWrite, TypeOK
<1>3. ASSUME NEW s \in Server, NEW m \in tries[s],
             NEW V \in SUBSET {v \in msgs : v.type = "vote" /\ v.req = m}, BecomeLeader(s, m, V)
      PROVE  TypeOK'
  <2>1. m.epoch \in Nat
    BY <1>t DEF EnterMsg
  <2>2. \A v \in Latest(V) : v.nextIndex \in Nat /\ v.state \in Seq(Op)
    BY <1>t, MessageKind DEF Latest, VoteMsg
  <2>3. \A v \in Latest(V) :
          [epoch |-> m.epoch, acceptedEpoch |-> m.epoch, nextIndex |-> v.nextIndex,
           state |-> v.state, isLeader |-> TRUE] \in State
    BY <2>1, <2>2 DEF State
  <2>5. ps' \in [Server -> State]
    <3>1. CASE ps' = ps
      BY <1>t, <3>1
    <3>2. CASE \E v \in Latest(V) : ps' = [ps EXCEPT ![s] =
                 [epoch |-> m.epoch, acceptedEpoch |-> m.epoch, nextIndex |-> v.nextIndex,
                  state |-> v.state, isLeader |-> TRUE]]
      BY <1>t, <2>3, <3>2
    <3> QED
      BY <1>3, <3>1, <3>2 DEF BecomeLeader
  <2>4. tries' \in [Server -> SUBSET EnterMsg]
    BY <1>t, <1>3 DEF BecomeLeader
  <2> QED
    BY <1>t, <1>3, <2>5, <2>4 DEF BecomeLeader, TypeOK
<1>4. ASSUME NEW s \in Server, NEW op \in Op, TryAcquire(s, op)
      PROVE  TypeOK'
  <2> DEFINE m == [type |-> "apply", from |-> s, epoch |-> ps[s].epoch,
                   nextIndex |-> ps[s].nextIndex + 1, state |-> Append(ps[s].state, op)]
  <2>1. ps[s] \in State
    BY <1>t
  <2>2. Append(ps[s].state, op) \in Seq(Op)
    BY <2>1, AppendProperties DEF State
  <2>3. m \in ApplyMsg
    BY <2>1, <2>2 DEF State, ApplyMsg
  <2>4. /\ ps' = [ps EXCEPT ![s].nextIndex = m.nextIndex, ![s].state = m.state]
        /\ releases' = [releases EXCEPT ![s] = @ \cup {m}]
        /\ waiting' = [waiting EXCEPT ![s] = @ \cup {m}]
        /\ UNCHANGED <<disk, msgs, tries, acked, crashes>>
    BY <1>4 DEF TryAcquire, AfterWrite
  <2>5. m.nextIndex \in Nat /\ m.state \in Seq(Op)
    BY <2>1, <2>2 DEF State
  <2> HIDE DEF m
  <2>6. ps' \in [Server -> State]
    BY <1>t, <2>4, <2>5 DEF State
  <2> QED
    BY <1>t, <2>3, <2>4, <2>6 DEF TypeOK
<1>5. ASSUME NEW s \in Server, NEW m \in msgs, ApplyAsFollower(s, m)
      PROVE  TypeOK'
  <2>1. m \in ApplyMsg /\ m.epoch \in Nat /\ m.nextIndex \in Nat /\ m.state \in Seq(Op)
    BY <1>t, <1>5, MessageKind DEF ApplyAsFollower, ApplyMsg
  <2>2. ps' \in [Server -> State]
    <3>1. ps[s] \in State
      BY <1>t
    <3>2. /\ [epoch |-> m.epoch, acceptedEpoch |-> m.epoch, nextIndex |-> m.nextIndex,
              state |-> m.state, isLeader |-> FALSE] \in State
          /\ [ps[s] EXCEPT !.nextIndex = m.nextIndex, !.state = m.state] \in State
      BY <2>1, <3>1 DEF State
    <3> QED
      BY <1>t, <1>5, <3>1, <3>2 DEF ApplyAsFollower
  <2>3. [type |-> "applied", by |-> s, req |-> m] \in AppliedMsg
    BY <2>1 DEF AppliedMsg
  <2>4. waiting' \in [Server -> SUBSET (VoteMsg \cup ApplyMsg \cup AppliedMsg)]
    BY <1>t, <1>5, <2>3 DEF ApplyAsFollower, AfterWrite
  <2> QED
    BY <1>t, <1>5, <2>2, <2>4 DEF ApplyAsFollower, AfterWrite, TypeOK
<1>6. ASSUME NEW s \in Server, NEW m \in releases[s], Released(s, m)
      PROVE  TypeOK'
  BY <1>t, <1>6 DEF Released, TypeOK
<1>7. ASSUME NEW s \in Server, Flush(s)
      PROVE  TypeOK'
  <2>1. waiting[s] \subseteq Message /\ ps[s] \in State
    BY <1>t DEF Message
  <2> QED
    BY <1>t, <1>7, <2>1 DEF Flush, TypeOK
<1>8. ASSUME NEW s \in Server, Crash(s)
      PROVE  TypeOK'
  BY <1>t, <1>8 DEF Crash, TypeOK
<1>9. CASE UNCHANGED vars
  BY <1>t, <1>9 DEF vars, TypeOK
<1> QED
  BY <1>1, <1>2, <1>3, <1>4, <1>5, <1>6, <1>7, <1>8, <1>9 DEF Next, ServerNext

(* Every step keeps a server's messages its own and its elections numbered.  *)
LEMMA OwnedStep ==
  ASSUME TypeOK, Owned, [Next]_vars
  PROVE  Owned'
<1>t. /\ waiting \in [Server -> SUBSET (VoteMsg \cup ApplyMsg \cup AppliedMsg)]
      /\ tries \in [Server -> SUBSET EnterMsg]
  BY DEF TypeOK
<1>o. \A t \in Server :
        /\ \A m \in waiting[t] : IF m.type = "apply" THEN m.from = t ELSE m.by = t
        /\ tries[t] \subseteq Started(t)
        /\ IsFiniteSet(Started(t))
        /\ \A m \in Started(t) : m.no <= Cardinality(Started(t))
  BY DEF Owned
<1>1. ASSUME NEW s \in Server, TryBecomeLeader(s)
      PROVE  Owned'
  <2>1. PICK m \in EnterMsg :
          /\ tries' = [tries EXCEPT ![s] = @ \cup {m}]
          /\ Started(s)' = Started(s) \cup {m}
          /\ \A t \in Server \ {s} : Started(t)' = Started(t)
          /\ IsFiniteSet(Started(s)') /\ Cardinality(Started(s)') = Cardinality(Started(s)) + 1
          /\ m.no = Cardinality(Started(s)) + 1 /\ Cardinality(Started(s)) \in Nat
    BY <1>1, StartedFresh
  <2>2. \A n \in Started(s) : n.no \in Nat
    BY MessageKind DEF Started, EnterMsg, TypeOK
  <2>3. \A n \in Started(s)' : n.no <= Cardinality(Started(s)')
    BY <1>o, <2>1, <2>2
  <2>4. waiting' = waiting
    BY <1>1 DEF TryBecomeLeader
  <2>5. \A t \in Server : tries'[t] \subseteq Started(t)'
    BY <1>t, <1>o, <2>1
  <2>6. ASSUME NEW t \in Server
        PROVE  IsFiniteSet(Started(t)') /\ \A n \in Started(t)' : n.no <= Cardinality(Started(t)')
    <3>1. CASE t = s
      BY <3>1, <2>1, <2>3
    <3>2. CASE t # s
      BY <3>2, <2>1, <1>o
    <3> QED
      BY <3>1, <3>2
  <2> QED
    BY <1>o, <2>4, <2>5, <2>6 DEF Owned
<1>2. ASSUME msgs' = msgs, NEW s \in Server, NEW m,
             IF m.type = "apply" THEN m.from = s ELSE m.by = s, AfterWrite(s, m), tries' = tries
      PROVE  Owned'
  <2>1. \A t \in Server : Started(t)' = Started(t)
    BY <1>2 DEF Started
  <2>2. \A t \in Server : \A n \in waiting'[t] : IF n.type = "apply" THEN n.from = t ELSE n.by = t
    BY <1>2, <1>o, WriteEffect
  <2> QED
    BY <1>2, <1>o, <2>1, <2>2 DEF Owned
<1>3. ASSUME msgs' = msgs, \A t \in Server : waiting'[t] \subseteq waiting[t] /\ tries'[t] \subseteq tries[t]
      PROVE  Owned'
  <2>1. \A t \in Server : Started(t)' = Started(t)
    BY <1>3 DEF Started
  <2> QED
    BY <1>3, <1>o, <2>1 DEF Owned
<1>4. ASSUME NEW s \in Server, NEW m \in msgs, EnterNewEpoch(s, m)
      PROVE  Owned'
  <2> DEFINE v == [type |-> "vote", by |-> s, req |-> m, acceptedEpoch |-> ps[s].acceptedEpoch,
                   nextIndex |-> ps[s].nextIndex, state |-> ps[s].state]
  <2>1. AfterWrite(s, v) /\ tries' = tries /\ msgs' = msgs
    BY <1>4 DEF EnterNewEpoch, AfterWrite
  <2>2. v.type = "vote" /\ v.by = s
    OBVIOUS
  <2> HIDE DEF v
  <2> QED
    BY <1>2, <2>1, <2>2
<1>5. ASSUME NEW s \in Server, NEW m \in tries[s],
             NEW V \in SUBSET {v \in msgs : v.type = "vote" /\ v.req = m}, BecomeLeader(s, m, V)
      PROVE  Owned'
  BY <1>3, <1>5, <1>t DEF BecomeLeader
<1>6. ASSUME NEW s \in Server, NEW op \in Op, TryAcquire(s, op)
      PROVE  Owned'
  <2> DEFINE m == [type |-> "apply", from |-> s, epoch |-> ps[s].epoch,
                   nextIndex |-> ps[s].nextIndex + 1, state |-> Append(ps[s].state, op)]
  <2>1. AfterWrite(s, m) /\ tries' = tries /\ msgs' = msgs
    BY <1>6 DEF TryAcquire, AfterWrite
  <2>2. m.type = "apply" /\ m.from = s
    OBVIOUS
  <2> HIDE DEF m
  <2> QED
    BY <1>2, <2>1, <2>2
<1>7. ASSUME NEW s \in Server, NEW m \in msgs, ApplyAsFollower(s, m)
      PROVE  Owned'
  <2> DEFINE a == [type |-> "applied", by |-> s, req |-> m]
  <2>1. AfterWrite(s, a) /\ tries' = tries /\ msgs' = msgs
    BY <1>7 DEF ApplyAsFollower, AfterWrite
  <2>2. a.type = "applied" /\ a.by = s
    OBVIOUS
  <2> HIDE DEF a
  <2> QED
    BY <1>2, <2>1, <2>2
<1>8. ASSUME NEW s \in Server, NEW m \in releases[s], Released(s, m)
      PROVE  Owned'
  BY <1>3, <1>8 DEF Released
<1>9. ASSUME NEW s \in Server, Flush(s)
      PROVE  Owned'
  <2>1. /\ msgs' = msgs \cup waiting[s] /\ tries' = tries
        /\ \A t \in Server : waiting'[t] \subseteq waiting[t]
    BY <1>9, <1>t DEF Flush
  <2>2. \A m \in waiting[s] : m.type # "enter"
    BY SentMessages
  <2>3. \A t \in Server : Started(t)' = Started(t)
    BY <2>1, <2>2 DEF Started
  <2> QED
    BY <1>o, <2>1, <2>3 DEF Owned
<1>10. ASSUME NEW s \in Server, Crash(s)
       PROVE  Owned'
  BY <1>3, <1>10, <1>t DEF Crash
<1>11. CASE UNCHANGED vars
  BY <1>3, <1>11 DEF vars
<1> QED
  BY <1>1, <1>4, <1>5, <1>6, <1>7, <1>8, <1>9, <1>10, <1>11 DEF Next, ServerNext

-----------------------------------------------------------------------------
(* What the handlers do to the state of their server and the messages        *)

(* A vote tells the state of a server that has left its epoch for a later one. *)
LEMMA EnterEffect ==
  ASSUME TypeOK, NEW s \in Server, NEW m \in msgs, EnterNewEpoch(s, m)
  PROVE  /\ m \in EnterMsg /\ m.epoch \in Nat /\ ps[s].epoch < m.epoch
         /\ ps'[s] = [ps[s] EXCEPT !.isLeader = FALSE, !.epoch = m.epoch]
         /\ ps'[s].epoch = m.epoch /\ ~ps'[s].isLeader
         /\ ps'[s].acceptedEpoch = ps[s].acceptedEpoch
         /\ ps'[s].nextIndex = ps[s].nextIndex /\ ps'[s].state = ps[s].state
         /\ \A t \in Server \ {s} : ps'[t] = ps[t] /\ waiting'[t] = waiting[t]
         /\ UNCHANGED <<disk, msgs, tries, releases, acked>>
         /\ \E v \in VoteMsg :
              /\ v.by = s /\ v.req = m /\ v.acceptedEpoch = ps[s].acceptedEpoch
              /\ v.nextIndex = ps[s].nextIndex /\ v.state = ps[s].state
              /\ v.type = "vote"
              /\ Held' = Held \cup {v} /\ Sent' = Sent \cup {v}
              /\ waiting'[s] = waiting[s] \cup {v}
<1>1. ps \in [Server -> State] /\ ps[s] \in State
  BY DEF TypeOK
<1>2. m \in EnterMsg
  BY MessageKind DEF EnterNewEpoch, TypeOK
<1>3. m.epoch \in Nat /\ ps[s].epoch \in Nat
  BY <1>1, <1>2 DEF State, EnterMsg
<1>4. ps[s].epoch < m.epoch
  BY <1>3 DEF EnterNewEpoch, Stale
<1>5. /\ ps'[s] = [ps[s] EXCEPT !.isLeader = FALSE, !.epoch = m.epoch]
      /\ \A t \in Server \ {s} : ps'[t] = ps[t]
  BY <1>1 DEF EnterNewEpoch
<1> DEFINE v == [type |-> "vote", by |-> s, req |-> m, acceptedEpoch |-> ps[s].acceptedEpoch,
                 nextIndex |-> ps[s].nextIndex, state |-> ps[s].state]
<1>6. v \in VoteMsg
  BY <1>1, <1>2 DEF State, VoteMsg
<1>7. AfterWrite(s, v) /\ UNCHANGED <<disk, msgs, tries, releases, acked>>
  BY DEF EnterNewEpoch, AfterWrite
<1>8. /\ v.by = s /\ v.req = m /\ v.acceptedEpoch = ps[s].acceptedEpoch
      /\ v.nextIndex = ps[s].nextIndex /\ v.state = ps[s].state /\ v.type = "vote"
  OBVIOUS
<1> HIDE DEF v
<1>9. /\ Held' = Held \cup {v} /\ Sent' = Sent \cup {v}
      /\ waiting'[s] = waiting[s] \cup {v}
      /\ \A t \in Server \ {s} : waiting'[t] = waiting[t]
  BY <1>7, WriteEffect
<1>10. /\ ps'[s].epoch = m.epoch /\ ~ps'[s].isLeader
       /\ ps'[s].acceptedEpoch = ps[s].acceptedEpoch
       /\ ps'[s].nextIndex = ps[s].nextIndex /\ ps'[s].state = ps[s].state
  BY <1>1, <1>5 DEF State
<1> QED
  BY <1>2, <1>3, <1>4, <1>5, <1>6, <1>7, <1>8, <1>9, <1>10

(* An election that is won and not too late makes a leader of the state in   *)
(* the latest vote.                                                          *)
LEMMA BecomeEffect ==
  ASSUME TypeOK, NEW s \in Server, NEW m, NEW V, BecomeLeader(s, m, V)
  PROVE  /\ m \in EnterMsg /\ m \in tries[s] /\ m.epoch \in Nat /\ m.epoch # 0
         /\ tries'[s] = tries[s] \ {m}
         /\ \A t \in Server \ {s} : tries'[t] = tries[t] /\ ps'[t] = ps[t]
         /\ UNCHANGED <<disk, waiting, msgs, releases, acked>>
         /\ Held' = Held /\ Sent' = Sent
         /\ \/ ps' = ps
            \/ /\ ps[s].epoch <= m.epoch
               /\ \E v \in Latest(V) :
                    /\ ps'[s].epoch = m.epoch /\ ps'[s].acceptedEpoch = m.epoch
                    /\ ps'[s].nextIndex = v.nextIndex /\ ps'[s].state = v.state /\ ps'[s].isLeader
                    /\ v \in VoteMsg /\ v.type = "vote" /\ v \in msgs /\ v.req = m /\ v \in V
<1>1. ps \in [Server -> State] /\ tries \in [Server -> SUBSET EnterMsg]
  BY DEF TypeOK
<1>2. \A v \in Latest(V) : v \in VoteMsg /\ v.type = "vote" /\ v \in msgs /\ v.req = m /\ v \in V
  BY MessageKind DEF Latest, TypeOK, BecomeLeader
<1>3. m \in EnterMsg /\ m \in tries[s] /\ tries'[s] = tries[s] \ {m} /\ \A t \in Server \ {s} : tries'[t] = tries[t]
  BY <1>1 DEF BecomeLeader
<1>4. \/ ps' = ps
      \/ /\ ps[s].epoch <= m.epoch
         /\ \E v \in Latest(V) :
              ps' = [ps EXCEPT ![s] = [epoch |-> m.epoch, acceptedEpoch |-> m.epoch,
                       nextIndex |-> v.nextIndex, state |-> v.state, isLeader |-> TRUE]]
  BY DEF BecomeLeader
<1>5. \/ ps' = ps
      \/ /\ ps[s].epoch <= m.epoch
         /\ \E v \in Latest(V) :
              /\ ps'[s].epoch = m.epoch /\ ps'[s].acceptedEpoch = m.epoch
              /\ ps'[s].nextIndex = v.nextIndex /\ ps'[s].state = v.state /\ ps'[s].isLeader
         /\ \A t \in Server \ {s} : ps'[t] = ps[t]
  BY <1>1, <1>4
<1>6. UNCHANGED <<disk, waiting, msgs, releases, acked>>
  BY DEF BecomeLeader
<1>7. Held' = Held /\ Sent' = Sent
  BY <1>6 DEF Held, Sent
<1>8. m.epoch \in Nat /\ m.epoch # 0
  BY <1>3 DEF EnterMsg
<1> QED
  BY <1>2, <1>3, <1>5, <1>6, <1>7, <1>8

(* Every majority has a server whose vote was counted.                       *)
LEMMA BecomeVotes ==
  ASSUME TypeOK, NEW s \in Server, NEW m, NEW V, BecomeLeader(s, m, V)
  PROVE  /\ V \subseteq msgs
         /\ \A v \in V : v \in VoteMsg /\ v.type = "vote" /\ v.req = m
         /\ Majority(Voters(m))
         /\ \A Q \in SUBSET Server : Majority(Q) => \E v \in V : v.by \in Q
<1> DEFINE W == {v.by : v \in V}
<1>1. Majority(W) /\ V \subseteq msgs /\ \A v \in V : v.type = "vote" /\ v.req = m
  BY DEF BecomeLeader
<1>2. \A v \in V : v \in VoteMsg
  BY <1>1, MessageKind DEF TypeOK
<1>3. W \in SUBSET Server
  BY <1>2 DEF VoteMsg
<1>4. Voters(m) \in SUBSET Server
  BY MessageKind DEF Voters, TypeOK, VoteMsg
<1>5. W \in SUBSET Voters(m)
  BY <1>1 DEF Voters
<1>6. \A b \in W : \E v \in V : v.by = b
  OBVIOUS
<1> HIDE DEF W
<1>7. Majority(Voters(m))
  BY <1>1, <1>4, <1>5, MajorityGrows
<1>8. ASSUME NEW Q \in SUBSET Server, Majority(Q)
      PROVE  \E v \in V : v.by \in Q
  BY <1>1, <1>3, <1>6, <1>8, MajoritiesMeet
<1> QED
  BY <1>1, <1>2, <1>7, <1>8

(* An operation extends the state of a leader, who waits to send it.         *)
LEMMA AcquireEffect ==
  ASSUME TypeOK, NEW s \in Server, NEW op \in Op, TryAcquire(s, op)
  PROVE  /\ ps[s].isLeader /\ ps'[s].isLeader
         /\ ps'[s].epoch = ps[s].epoch /\ ps'[s].acceptedEpoch = ps[s].acceptedEpoch
         /\ ps'[s].nextIndex = ps[s].nextIndex + 1 /\ ps'[s].state = Append(ps[s].state, op)
         /\ \A t \in Server \ {s} : ps'[t] = ps[t] /\ waiting'[t] = waiting[t]
         /\ UNCHANGED <<disk, msgs, tries, acked>>
         /\ \E m \in ApplyMsg :
              /\ m.epoch = ps[s].epoch /\ m.from = s /\ m.type = "apply"
              /\ m.nextIndex = ps[s].nextIndex + 1 /\ m.state = Append(ps[s].state, op)
              /\ Held' = Held \cup {m} /\ Sent' = Sent \cup {m}
              /\ waiting'[s] = waiting[s] \cup {m}
<1>1. ps \in [Server -> State] /\ ps[s] \in State
  BY DEF TypeOK
<1> DEFINE m == [type |-> "apply", from |-> s, epoch |-> ps[s].epoch,
                 nextIndex |-> ps[s].nextIndex + 1, state |-> Append(ps[s].state, op)]
<1>2. Append(ps[s].state, op) \in Seq(Op)
  BY <1>1, AppendProperties DEF State
<1>3. m \in ApplyMsg
  BY <1>1, <1>2 DEF State, ApplyMsg
<1>4. /\ m.epoch = ps[s].epoch /\ m.from = s /\ m.type = "apply"
      /\ m.nextIndex = ps[s].nextIndex + 1 /\ m.state = Append(ps[s].state, op)
  OBVIOUS
<1>5. /\ ps[s].isLeader /\ AfterWrite(s, m)
      /\ ps' = [ps EXCEPT ![s].nextIndex = m.nextIndex, ![s].state = m.state]
      /\ UNCHANGED <<disk, msgs, tries, acked>>
  BY DEF TryAcquire, AfterWrite
<1> HIDE DEF m
<1>6. /\ ps'[s].isLeader = ps[s].isLeader
      /\ ps'[s].epoch = ps[s].epoch /\ ps'[s].acceptedEpoch = ps[s].acceptedEpoch
      /\ ps'[s].nextIndex = m.nextIndex /\ ps'[s].state = m.state
      /\ \A t \in Server \ {s} : ps'[t] = ps[t]
  BY <1>1, <1>5 DEF State
<1>7. /\ Held' = Held \cup {m} /\ Sent' = Sent \cup {m}
      /\ waiting'[s] = waiting[s] \cup {m}
      /\ \A t \in Server \ {s} : waiting'[t] = waiting[t]
  BY <1>5, WriteEffect
<1> QED
  BY <1>3, <1>4, <1>5, <1>6, <1>7

(* A follower takes the state of a message of an epoch that is new to it, or *)
(* of a later index of the same epoch.                                       *)
LEMMA ApplyState ==
  ASSUME TypeOK, NEW s \in Server, NEW m \in msgs, ApplyAsFollower(s, m)
  PROVE  \/ /\ ps[s].acceptedEpoch # m.epoch
            /\ ps'[s].epoch = m.epoch /\ ps'[s].acceptedEpoch = m.epoch
            /\ ps'[s].nextIndex = m.nextIndex /\ ps'[s].state = m.state
            /\ ~ps'[s].isLeader
         \/ /\ ps[s].acceptedEpoch = m.epoch /\ m.nextIndex <= ps[s].nextIndex
            /\ ps'[s] = ps[s]
         \/ /\ ps[s].acceptedEpoch = m.epoch /\ ps[s].nextIndex < m.nextIndex
            /\ ps'[s].epoch = ps[s].epoch /\ ps'[s].acceptedEpoch = m.epoch
            /\ ps'[s].nextIndex = m.nextIndex /\ ps'[s].state = m.state
            /\ ps'[s].isLeader = ps[s].isLeader
<1>1. ps \in [Server -> State] /\ ps[s] \in State
  BY DEF TypeOK
<1>2. m \in ApplyMsg
  BY MessageKind DEF ApplyAsFollower, TypeOK
<1>3. m.nextIndex \in Nat /\ ps[s].nextIndex \in Nat
  BY <1>1, <1>2 DEF State, ApplyMsg
<1>4. ps'[s] = IF ps[s].acceptedEpoch # m.epoch
               THEN [epoch |-> m.epoch, acceptedEpoch |-> m.epoch, nextIndex |-> m.nextIndex,
                     state |-> m.state, isLeader |-> FALSE]
               ELSE IF Older(s, m) THEN ps[s]
               ELSE [ps[s] EXCEPT !.nextIndex = m.nextIndex, !.state = m.state]
  BY <1>1 DEF ApplyAsFollower
<1>5. LET n == [ps[s] EXCEPT !.nextIndex = m.nextIndex, !.state = m.state]
      IN  /\ n.epoch = ps[s].epoch /\ n.acceptedEpoch = ps[s].acceptedEpoch
          /\ n.nextIndex = m.nextIndex /\ n.state = m.state /\ n.isLeader = ps[s].isLeader
  BY <1>1 DEF State
<1>6. CASE ps[s].acceptedEpoch # m.epoch
  <2>1. ps'[s] = [epoch |-> m.epoch, acceptedEpoch |-> m.epoch, nextIndex |-> m.nextIndex,
                  state |-> m.state, isLeader |-> FALSE]
    BY <1>4, <1>6
  <2>2. /\ ps'[s].epoch = m.epoch /\ ps'[s].acceptedEpoch = m.epoch
        /\ ps'[s].nextIndex = m.nextIndex /\ ps'[s].state = m.state
    BY <2>1
  <2>3. ~ps'[s].isLeader
    BY <2>1
  <2> QED
    BY <1>6, <2>2, <2>3
<1>7. CASE ps[s].acceptedEpoch = m.epoch /\ Older(s, m)
  BY <1>3, <1>4, <1>7 DEF Older
<1>8. CASE ps[s].acceptedEpoch = m.epoch /\ ~Older(s, m)
  <2>1. ps[s].nextIndex < m.nextIndex
    BY <1>3, <1>8 DEF Older
  <2> QED
    BY <1>4, <1>5, <1>8, <2>1
<1> QED
  BY <1>6, <1>7, <1>8

(* A follower answers a message that is not of an earlier epoch.             *)
LEMMA ApplyEffect ==
  ASSUME TypeOK, NEW s \in Server, NEW m \in msgs, ApplyAsFollower(s, m)
  PROVE  /\ m \in ApplyMsg /\ ps[s].epoch <= m.epoch
         /\ m.epoch \in Nat /\ m.nextIndex \in Nat /\ m.state \in Seq(Op)
         /\ m.type = "apply" /\ m \in Sent
         /\ \A t \in Server \ {s} : ps'[t] = ps[t] /\ waiting'[t] = waiting[t]
         /\ UNCHANGED <<disk, msgs, tries, releases, acked>>
         /\ \E a \in AppliedMsg :
              /\ a.by = s /\ a.req = m /\ a.type = "applied"
              /\ Held' = Held \cup {a} /\ Sent' = Sent \cup {a}
              /\ waiting'[s] = waiting[s] \cup {a}
<1>1. ps \in [Server -> State]
  BY DEF TypeOK
<1>2. m \in ApplyMsg
  BY MessageKind DEF ApplyAsFollower, TypeOK
<1>3. /\ m.epoch \in Nat /\ m.nextIndex \in Nat /\ m.state \in Seq(Op)
      /\ m.type = "apply" /\ m \in Sent
  BY <1>2 DEF ApplyMsg, Sent
<1>4. ps[s].epoch <= m.epoch /\ \A t \in Server \ {s} : ps'[t] = ps[t]
  BY <1>1 DEF ApplyAsFollower
<1> DEFINE a == [type |-> "applied", by |-> s, req |-> m]
<1>5. a \in AppliedMsg /\ a.by = s /\ a.req = m /\ a.type = "applied"
  BY <1>2 DEF AppliedMsg
<1>6. AfterWrite(s, a) /\ UNCHANGED <<disk, msgs, tries, releases, acked>>
  BY DEF ApplyAsFollower, AfterWrite
<1> HIDE DEF a
<1>7. /\ Held' = Held \cup {a} /\ Sent' = Sent \cup {a}
      /\ waiting'[s] = waiting[s] \cup {a}
      /\ \A t \in Server \ {s} : waiting'[t] = waiting[t]
  BY <1>6, WriteEffect
<1> QED
  BY <1>2, <1>3, <1>4, <1>5, <1>6, <1>7

(* The steps that leave copies and messages alone, but for the requests of   *)
(* an election.                                                              *)
LEMMA QuietEffect ==
  ASSUME TypeOK, Owned, NEW s \in Server,
         \/ TryBecomeLeader(s)
         \/ \E m \in releases[s] : Released(s, m)
         \/ UNCHANGED vars
  PROVE  /\ ps' = ps /\ disk' = disk /\ waiting' = waiting /\ Held' = Held
         /\ msgs \subseteq msgs'
         /\ \A m \in msgs' : m \notin msgs => m.type = "enter"
         /\ \A m \in Sent' : m \notin Sent => m.type = "enter"
<1>1. CASE TryBecomeLeader(s)
  <2>1. PICK m \in EnterMsg : msgs' = msgs \cup {m}
    BY <1>1, StartedFresh
  <2>2. ps' = ps /\ disk' = disk /\ waiting' = waiting
    BY <1>1 DEF TryBecomeLeader
  <2> QED
    BY <2>1, <2>2 DEF EnterMsg, Sent, Held
<1>2. CASE (\E m \in releases[s] : Released(s, m)) \/ UNCHANGED vars
  BY <1>2 DEF Released, vars, Sent, Held
<1> QED
  BY <1>1, <1>2

-----------------------------------------------------------------------------
(* Copies                                                                    *)

(* Every step keeps the index of a state its length, and the epoch it was    *)
(* accepted in not after the one its server is in.                           *)
LEMMA SaneStep ==
  ASSUME TypeOK, Owned, Sane, [Next]_vars
  PROVE  Sane'
<1>t. \A t \in Server :
        /\ ps[t] \in State /\ disk[t] \in State
        /\ ps[t].epoch \in Nat /\ ps[t].acceptedEpoch \in Nat
        /\ disk[t].epoch \in Nat /\ disk[t].acceptedEpoch \in Nat
        /\ ps[t].nextIndex \in Nat /\ ps[t].state \in Seq(Op)
  BY DEF TypeOK, State
<1>s. /\ \A t \in Server : SaneCopy(ps[t]) /\ SaneCopy(disk[t]) /\ disk[t].epoch <= ps[t].epoch
      /\ \A n \in Sent : n.type = "vote" => n.nextIndex = Len(n.state) /\ n.acceptedEpoch < n.req.epoch
      /\ \A n \in Sent : n.type = "apply" => n.nextIndex = Len(n.state)
  BY DEF Sane
<1>0. SUFFICES /\ \A t \in Server : SaneCopy(ps'[t]) /\ SaneCopy(disk'[t]) /\ disk'[t].epoch <= ps'[t].epoch
               /\ \A n \in Sent' : n.type = "vote" => n.nextIndex = Len(n.state) /\ n.acceptedEpoch < n.req.epoch
               /\ \A n \in Sent' : n.type = "apply" => n.nextIndex = Len(n.state)
  BY DEF Sane, SaneCopy
<1>1. ASSUME NEW s \in Server, NEW m \in msgs, EnterNewEpoch(s, m)
      PROVE  <1>0!1
  <2>1. PICK v \in VoteMsg :
          /\ v.by = s /\ v.req = m /\ v.acceptedEpoch = ps[s].acceptedEpoch
          /\ v.nextIndex = ps[s].nextIndex /\ v.state = ps[s].state
          /\ v.type = "vote" /\ Sent' = Sent \cup {v}
    BY <1>1, EnterEffect
  <2>2. /\ m \in EnterMsg /\ m.epoch \in Nat /\ ps[s].epoch < m.epoch
        /\ ps'[s].epoch = m.epoch /\ ~ps'[s].isLeader
        /\ ps'[s].acceptedEpoch = ps[s].acceptedEpoch
        /\ ps'[s].nextIndex = ps[s].nextIndex /\ ps'[s].state = ps[s].state
        /\ \A t \in Server \ {s} : ps'[t] = ps[t]
        /\ disk' = disk
    BY <1>1, EnterEffect
  <2>3. v.nextIndex = Len(v.state) /\ v.acceptedEpoch < v.req.epoch
    BY <1>s, <1>t, <2>1, <2>2 DEF SaneCopy
  <2>4. \A t \in Server : SaneCopy(ps'[t]) /\ disk'[t].epoch <= ps'[t].epoch
    <3>1. SaneCopy(ps'[s]) /\ disk[s].epoch <= ps'[s].epoch
      BY <1>s, <1>t, <2>2 DEF SaneCopy
    <3> QED
      BY <1>s, <2>2, <3>1
  <2> QED
    BY <1>s, <2>1, <2>2, <2>3, <2>4
<1>2. ASSUME NEW s \in Server, NEW m, NEW V, BecomeLeader(s, m, V)
      PROVE  <1>0!1
  <2>1. /\ m \in EnterMsg /\ m.epoch \in Nat
        /\ \A t \in Server \ {s} : ps'[t] = ps[t]
        /\ disk' = disk /\ Sent' = Sent
    BY <1>2, BecomeEffect
  <2>2. CASE ps' = ps
    BY <1>s, <2>1, <2>2
  <2>3. ASSUME ps[s].epoch <= m.epoch, NEW v \in Latest(V), v \in VoteMsg, v \in msgs,
               v.type = "vote", ps'[s].epoch = m.epoch, ps'[s].acceptedEpoch = m.epoch,
               ps'[s].nextIndex = v.nextIndex, ps'[s].state = v.state
        PROVE  <1>0!1
    <3>1. v.nextIndex = Len(v.state)
      BY <1>s, <2>3 DEF Sent
    <3>2. SaneCopy(ps'[s]) /\ disk[s].epoch <= ps'[s].epoch
      BY <1>s, <1>t, <2>1, <2>3, <3>1 DEF SaneCopy
    <3> QED
      BY <1>s, <2>1, <3>2
  <2> QED
    BY <1>2, <2>2, <2>3, BecomeEffect
<1>3. ASSUME NEW s \in Server, NEW op \in Op, TryAcquire(s, op)
      PROVE  <1>0!1
  <2>1. PICK m \in ApplyMsg :
          /\ m.nextIndex = ps[s].nextIndex + 1 /\ m.state = Append(ps[s].state, op)
          /\ m.type = "apply" /\ Sent' = Sent \cup {m}
    BY <1>3, AcquireEffect
  <2>2. /\ ps[s].isLeader /\ ps'[s].isLeader
        /\ ps'[s].epoch = ps[s].epoch /\ ps'[s].acceptedEpoch = ps[s].acceptedEpoch
        /\ ps'[s].nextIndex = ps[s].nextIndex + 1 /\ ps'[s].state = Append(ps[s].state, op)
        /\ \A t \in Server \ {s} : ps'[t] = ps[t]
        /\ disk' = disk
    BY <1>3, AcquireEffect
  <2>3. Len(Append(ps[s].state, op)) = Len(ps[s].state) + 1
    BY <1>t, AppendProperties
  <2>4. SaneCopy(ps'[s]) /\ m.nextIndex = Len(m.state)
    BY <1>s, <1>t, <2>1, <2>2, <2>3 DEF SaneCopy
  <2>5. \A t \in Server : SaneCopy(ps'[t]) /\ disk'[t].epoch <= ps'[t].epoch
    BY <1>s, <2>2, <2>4
  <2> QED
    BY <1>s, <2>1, <2>2, <2>4, <2>5
<1>4. ASSUME NEW s \in Server, NEW m \in msgs, ApplyAsFollower(s, m)
      PROVE  <1>0!1
  <2>1. PICK a \in AppliedMsg : a.type = "applied" /\ Sent' = Sent \cup {a}
    BY <1>4, ApplyEffect
  <2>2. /\ m \in ApplyMsg /\ m.epoch \in Nat /\ ps[s].epoch <= m.epoch
        /\ \A t \in Server \ {s} : ps'[t] = ps[t]
        /\ disk' = disk
    BY <1>4, ApplyEffect
  <2>3. m.nextIndex = Len(m.state)
    BY <1>4, <1>s, ApplyEffect
  <2>4. SaneCopy(ps'[s]) /\ disk[s].epoch <= ps'[s].epoch
    <3>1. CASE /\ ps'[s].epoch = m.epoch /\ ps'[s].acceptedEpoch = m.epoch
               /\ ps'[s].nextIndex = m.nextIndex /\ ps'[s].state = m.state
      BY <1>s, <1>t, <2>2, <2>3, <3>1 DEF SaneCopy
    <3>2. CASE ps'[s] = ps[s]
      BY <1>s, <3>2
    <3>3. CASE /\ ps[s].acceptedEpoch = m.epoch
               /\ ps'[s].epoch = ps[s].epoch /\ ps'[s].acceptedEpoch = m.epoch
               /\ ps'[s].nextIndex = m.nextIndex /\ ps'[s].state = m.state
               /\ ps'[s].isLeader = ps[s].isLeader
      BY <1>s, <1>t, <2>2, <2>3, <3>3 DEF SaneCopy
    <3> QED
      BY <1>4, <3>1, <3>2, <3>3, ApplyState
  <2> QED
    BY <1>s, <2>1, <2>2, <2>4
<1>5. ASSUME NEW s \in Server, Flush(s)
      PROVE  <1>0!1
  <2>1. /\ Sent' \subseteq Sent /\ disk'[s] = ps[s] /\ ps' = ps
        /\ \A t \in Server \ {s} : disk'[t] = disk[t]
    BY <1>5, FlushEffect
  <2> QED
    BY <1>s, <1>t, <2>1
<1>6. ASSUME NEW s \in Server, Crash(s)
      PROVE  <1>0!1
  <2>1. /\ Sent' \subseteq Sent /\ ps'[s] = disk[s] /\ disk' = disk
        /\ \A t \in Server \ {s} : ps'[t] = ps[t]
    BY <1>6, CrashEffect
  <2> QED
    BY <1>s, <1>t, <2>1
<1>7. ASSUME NEW s \in Server,
             \/ TryBecomeLeader(s)
             \/ \E m \in releases[s] : Released(s, m)
             \/ UNCHANGED vars
      PROVE  <1>0!1
  BY <1>s, <1>7, QuietEffect
<1>8. CASE UNCHANGED vars
  BY <1>s, <1>8 DEF vars, Sent, Held
<1> QED
  BY <1>1, <1>2, <1>3, <1>4, <1>5, <1>6, <1>7, <1>8 DEF Next, ServerNext

-----------------------------------------------------------------------------
(* Elections                                                                 *)

(* What was sent stays sent, and an election that was started before does    *)
(* not start again.                                                          *)
LEMMA MsgsGrow ==
  ASSUME TypeOK, Owned, [Next]_vars
  PROVE  /\ msgs \subseteq msgs'
         /\ \A m \in msgs : \A s \in Server : m \in tries'[s] => m \in tries[s]
<1>t. tries \in [Server -> SUBSET EnterMsg]
  BY DEF TypeOK
<1>1. ASSUME NEW s \in Server, TryBecomeLeader(s)
      PROVE  /\ msgs \subseteq msgs'
             /\ \A m \in msgs : \A t \in Server : m \in tries'[t] => m \in tries[t]
  <2>1. PICK m \in EnterMsg : /\ m \notin msgs /\ msgs' = msgs \cup {m}
                              /\ tries' = [tries EXCEPT ![s] = @ \cup {m}]
    BY <1>1, StartedFresh
  <2> QED
    BY <1>t, <2>1
<1>2. ASSUME msgs' = msgs, tries' = tries
      PROVE  /\ msgs \subseteq msgs'
             /\ \A m \in msgs : \A t \in Server : m \in tries'[t] => m \in tries[t]
  BY <1>2
<1>3. ASSUME NEW s \in Server, NEW m, NEW V, BecomeLeader(s, m, V)
      PROVE  /\ msgs \subseteq msgs'
             /\ \A n \in msgs : \A t \in Server : n \in tries'[t] => n \in tries[t]
  BY <1>t, <1>3 DEF BecomeLeader
<1>4. ASSUME NEW s \in Server, Flush(s) \/ Crash(s)
      PROVE  /\ msgs \subseteq msgs'
             /\ \A n \in msgs : \A t \in Server : n \in tries'[t] => n \in tries[t]
  BY <1>t, <1>4 DEF Flush, Crash
<1>5. ASSUME NEW s \in Server,
             \/ \E m \in msgs : EnterNewEpoch(s, m) \/ ApplyAsFollower(s, m)
             \/ \E op \in Op : TryAcquire(s, op)
             \/ \E m \in releases[s] : Released(s, m)
      PROVE  msgs' = msgs /\ tries' = tries
  BY <1>5 DEF EnterNewEpoch, ApplyAsFollower, TryAcquire, Released, AfterWrite
<1>6. CASE UNCHANGED vars
  BY <1>2, <1>6 DEF vars
<1> QED
  BY <1>1, <1>2, <1>3, <1>4, <1>5, <1>6 DEF Next, ServerNext

(* Only servers vote. *)
LEMMA VotersAreServers ==
  ASSUME TypeOK
  PROVE  \A m : Voters(m) \in SUBSET Server
BY MessageKind DEF Voters, TypeOK, VoteMsg

(* A won election stays won. *)
LEMMA ElectedStays ==
  ASSUME TypeOK, Owned, [Next]_vars
  PROVE  \A m : Elected(m) => Elected(m)' /\ m \in msgs'
<1> SUFFICES ASSUME NEW m, Elected(m)
             PROVE  Elected(m)' /\ m \in msgs'
  OBVIOUS
<1>1. m \in msgs /\ m.type = "enter" /\ m \notin tries[m.from] /\ Majority(Voters(m))
  BY DEF Elected
<1>2. m.from \in Server
  BY <1>1, MessageKind DEF TypeOK, EnterMsg
<1>3. msgs \subseteq msgs' /\ m \notin tries'[m.from]
  BY <1>1, <1>2, MsgsGrow
<1>4. TypeOK'
  BY TypeStep
<1>5. \A v \in msgs' : v.type = "vote" => v \in VoteMsg
  BY <1>4, MessageKind DEF TypeOK
<1>6. Voters(m)' \in SUBSET Server
  BY <1>5 DEF Voters, VoteMsg
<1>7. Voters(m) \in SUBSET Voters(m)'
  BY <1>3 DEF Voters
<1>8. Majority(Voters(m)')
  BY <1>1, <1>6, <1>7, MajorityGrows
<1> QED
  BY <1>1, <1>3, <1>8 DEF Elected, Majority

(* Two won elections of one epoch are the same one: they have a voter in     *)
(* common.                                                                   *)
LEMMA VotedOnce ==
  ASSUME TypeOK, VotesBind, NEW m, NEW n, m.epoch = n.epoch,
         Majority(Voters(m)), Majority(Voters(n))
  PROVE  m = n
<1>1. PICK b \in Server : b \in Voters(m) /\ b \in Voters(n)
  BY VotersAreServers, MajoritiesMeet
<1>2. PICK u \in msgs : u.type = "vote" /\ u.req = m /\ u.by = b
  BY <1>1 DEF Voters
<1>3. PICK v \in msgs : v.type = "vote" /\ v.req = n /\ v.by = b
  BY <1>1 DEF Voters
<1> QED
  BY <1>2, <1>3 DEF VotesBind, Sent

(* Every step keeps a server to the votes it gave: none is sent before the   *)
(* file has the epoch, so that a crash does not undo it.                     *)
LEMMA VotesBindStep ==
  ASSUME TypeOK, Owned, Sane, VotesBind, [Next]_vars
  PROVE  VotesBind'
<1>t. \A t \in Server : ps[t].epoch \in Nat /\ disk[t].epoch \in Nat
  BY DEF TypeOK, State
<1>m. \A v \in Sent : v.type = "vote" => v.by \in Server /\ v.req.epoch \in Nat
  BY SentMessages, MessageKind DEF VoteMsg, EnterMsg
<1>v. /\ \A v \in Sent : v.type = "vote" => v.req \in msgs /\ ps[v.by].epoch >= v.req.epoch
      /\ \A v \in msgs : v.type = "vote" => disk[v.by].epoch >= v.req.epoch
      /\ \A u, v \in Sent :
           (u.type = "vote" /\ v.type = "vote" /\ u.by = v.by /\ u.req.epoch = v.req.epoch) => u.req = v.req
  BY DEF VotesBind
<1>s. \A t \in Server : disk[t].epoch <= ps[t].epoch
  BY DEF Sane
<1>g. msgs \subseteq msgs'
  BY MsgsGrow
<1>1. ASSUME \A v \in Sent' : v.type = "vote" => v \in Sent,
             \A v \in msgs' : v.type = "vote" => v \in msgs,
             \A t \in Server : ps[t].epoch <= ps'[t].epoch /\ ps'[t].epoch \in Nat, disk' = disk
      PROVE  VotesBind'
  <2>1. \A v \in Sent' : v.type = "vote" => v.req \in msgs' /\ ps'[v.by].epoch >= v.req.epoch
    <3> TAKE v \in Sent'
    <3> HAVE v.type = "vote"
    <3>1. v.by \in Server /\ v.req.epoch \in Nat /\ v.req \in msgs' /\ ps[v.by].epoch >= v.req.epoch
      BY <1>1, <1>m, <1>v, <1>g
    <3> QED
      BY <1>1, <1>t, <3>1
  <2> QED
    BY <1>1, <1>v, <2>1 DEF VotesBind
<1>2. ASSUME NEW s \in Server, NEW m \in msgs, EnterNewEpoch(s, m)
      PROVE  VotesBind'
  <2>1. PICK v \in VoteMsg :
          v.by = s /\ v.req = m /\ v.type = "vote" /\ Sent' = Sent \cup {v}
    BY <1>2, EnterEffect
  <2>2. /\ m.epoch \in Nat /\ ps[s].epoch < m.epoch /\ ps'[s].epoch = m.epoch
        /\ \A t \in Server \ {s} : ps'[t] = ps[t]
        /\ disk' = disk /\ msgs' = msgs
    BY <1>2, EnterEffect
  <2>3. \A u \in Sent : u.type = "vote" /\ u.by = s => u.req.epoch < m.epoch
    BY <1>t, <1>m, <1>v, <2>2
  <2>4. \A u \in Sent' : u.type = "vote" => u.req \in msgs' /\ ps'[u.by].epoch >= u.req.epoch
    <3> TAKE u \in Sent'
    <3> HAVE u.type = "vote"
    <3>1. CASE u = v
      BY <2>1, <2>2, <3>1
    <3>2. CASE u \in Sent /\ u.by = s
      BY <1>m, <1>v, <2>2, <2>3, <3>2
    <3>3. CASE u \in Sent /\ u.by # s
      BY <1>m, <1>v, <2>2, <3>3
    <3> QED
      BY <2>1, <3>1, <3>2, <3>3
  <2>5. \A u, w \in Sent' :
          (u.type = "vote" /\ w.type = "vote" /\ u.by = w.by /\ u.req.epoch = w.req.epoch) => u.req = w.req
    <3> TAKE u, w \in Sent'
    <3> HAVE u.type = "vote" /\ w.type = "vote" /\ u.by = w.by /\ u.req.epoch = w.req.epoch
    <3>1. CASE u = v /\ w = v
      BY <3>1
    <3>2. CASE u = v /\ w \in Sent
      BY <1>m, <2>1, <2>2, <2>3, <3>2
    <3>3. CASE u \in Sent /\ w = v
      BY <1>m, <2>1, <2>2, <2>3, <3>3
    <3>4. CASE u \in Sent /\ w \in Sent
      BY <1>v, <3>4
    <3> QED
      BY <2>1, <3>1, <3>2, <3>3, <3>4
  <2> QED
    BY <1>v, <2>2, <2>4, <2>5 DEF VotesBind
<1>3. ASSUME NEW s \in Server, NEW m, NEW V, BecomeLeader(s, m, V)
      PROVE  VotesBind'
  <2>1. disk' = disk /\ msgs' = msgs /\ Sent' = Sent
    BY <1>3, BecomeEffect
  <2>2. \A t \in Server : ps[t].epoch <= ps'[t].epoch /\ ps'[t].epoch \in Nat
    BY <1>t, <1>3, BecomeEffect
  <2> QED
    BY <1>1, <2>1, <2>2
<1>4. ASSUME NEW s \in Server, NEW op \in Op, TryAcquire(s, op)
      PROVE  VotesBind'
  <2>1. PICK m \in ApplyMsg : m.type = "apply" /\ Sent' = Sent \cup {m}
    BY <1>4, AcquireEffect
  <2>2. disk' = disk /\ msgs' = msgs
    BY <1>4, AcquireEffect
  <2>3. \A t \in Server : ps[t].epoch <= ps'[t].epoch /\ ps'[t].epoch \in Nat
    BY <1>t, <1>4, AcquireEffect
  <2> QED
    BY <1>1, <2>1, <2>2, <2>3
<1>5. ASSUME NEW s \in Server, NEW m \in msgs, ApplyAsFollower(s, m)
      PROVE  VotesBind'
  <2>1. PICK a \in AppliedMsg : a.type = "applied" /\ Sent' = Sent \cup {a}
    BY <1>5, ApplyEffect
  <2>2. /\ disk' = disk /\ msgs' = msgs /\ ps[s].epoch <= m.epoch /\ m.epoch \in Nat
        /\ \A t \in Server \ {s} : ps'[t] = ps[t]
    BY <1>5, ApplyEffect
  <2>3. ps'[s].epoch \in {m.epoch, ps[s].epoch}
    BY <1>5, ApplyState
  <2>4. \A t \in Server : ps[t].epoch <= ps'[t].epoch /\ ps'[t].epoch \in Nat
    BY <1>t, <2>2, <2>3
  <2> QED
    BY <1>1, <2>1, <2>2, <2>4
<1>6. ASSUME NEW s \in Server, Flush(s)
      PROVE  VotesBind'
  <2>1. /\ Sent' \subseteq Sent /\ disk'[s] = ps[s] /\ ps' = ps /\ msgs' = msgs \cup waiting[s]
        /\ \A t \in Server \ {s} : disk'[t] = disk[t]
    BY <1>6, FlushEffect
  <2>2. \A v \in waiting[s] : v.type = "vote" => v.by = s /\ v \in Sent
    BY SentMessages DEF Owned
  <2>3. \A v \in msgs' : v.type = "vote" => disk'[v.by].epoch >= v.req.epoch
    <3> TAKE v \in msgs'
    <3> HAVE v.type = "vote"
    <3>1. v \in Sent /\ v.by \in Server
      BY <1>m, <2>1, <2>2, SentMessages
    <3>2. CASE v.by = s
      BY <1>v, <2>1, <3>1, <3>2
    <3>3. CASE v.by # s
      BY <1>v, <2>1, <2>2, <3>1, <3>3
    <3> QED
      BY <3>2, <3>3
  <2> QED
    BY <1>v, <1>g, <2>1, <2>3 DEF VotesBind
<1>7. ASSUME NEW s \in Server, Crash(s)
      PROVE  VotesBind'
  <2>1. /\ Sent' \subseteq Sent /\ ps'[s] = disk[s] /\ disk' = disk /\ msgs' = msgs /\ waiting'[s] = {}
        /\ \A t \in Server \ {s} : ps'[t] = ps[t] /\ waiting'[t] = waiting[t]
    BY <1>7, CrashEffect
  <2>2. \A v \in Sent' : v.type = "vote" /\ v.by = s => v \in msgs
    <3> TAKE v \in Sent'
    <3> HAVE v.type = "vote" /\ v.by = s
    <3> SUFFICES ASSUME v \in Held' PROVE FALSE
      BY <2>1 DEF Sent
    <3>1. PICK t \in Server : v \in waiting'[t]
      BY DEF Held
    <3>2. t # s /\ v \in waiting[t]
      BY <2>1, <3>1
    <3> QED
      BY <3>2 DEF Owned
  <2>3. \A v \in Sent' : v.type = "vote" => v.req \in msgs' /\ ps'[v.by].epoch >= v.req.epoch
    <3> TAKE v \in Sent'
    <3> HAVE v.type = "vote"
    <3>1. CASE v.by = s
      BY <1>v, <2>1, <2>2, <3>1
    <3>2. CASE v.by # s
      BY <1>m, <1>v, <2>1, <3>2
    <3> QED
      BY <3>1, <3>2
  <2> QED
    BY <1>v, <2>1, <2>3 DEF VotesBind
<1>8. ASSUME NEW s \in Server,
             \/ TryBecomeLeader(s)
             \/ \E m \in releases[s] : Released(s, m)
             \/ UNCHANGED vars
      PROVE  VotesBind'
  <2>1. /\ ps' = ps /\ disk' = disk
        /\ \A m \in msgs' : m \notin msgs => m.type = "enter"
        /\ \A m \in Sent' : m \notin Sent => m.type = "enter"
    BY <1>8, QuietEffect
  <2> QED
    BY <1>1, <1>t, <2>1
<1>9. CASE UNCHANGED vars
  BY <1>1, <1>t, <1>9 DEF vars, Sent, Held
<1> QED
  BY <1>2, <1>3, <1>4, <1>5, <1>6, <1>7, <1>8, <1>9 DEF Next, ServerNext

(* A server that has become the leader won its election and has left it.     *)
LEMMA WinnerElected ==
  ASSUME TypeOK, Owned, NEW s \in Server, NEW m, NEW V, BecomeLeader(s, m, V)
  PROVE  /\ m \in msgs /\ m.type = "enter" /\ m.from = s /\ m \in tries[s]
         /\ Majority(Voters(m)) /\ Elected(m)'
<1>1. m \in Started(s) /\ m \in tries[s]
  BY BecomeEffect DEF Owned
<1>2. m \in msgs /\ m.type = "enter" /\ m.from = s
  BY <1>1 DEF Started
<1>3. Majority(Voters(m))
  BY BecomeVotes
<1>4. msgs' = msgs /\ m \notin tries'[s]
  BY BecomeEffect
<1>5. Majority(Voters(m)')
  BY <1>3, <1>4 DEF Voters
<1> QED
  BY <1>1, <1>2, <1>3, <1>4, <1>5 DEF Elected, Majority

(* Every step keeps each leader, also one that came back from a crash, the   *)
(* winner of an election.                                                    *)
LEMMA LeadersElectedStep ==
  ASSUME TypeOK, Owned, LeadersElected, [Next]_vars
  PROVE  LeadersElected'
<1>e. \A m : Elected(m) => Elected(m)' /\ m \in msgs'
  BY ElectedStays
<1>l. \A t \in Server :
        /\ ps[t].isLeader => \E m \in msgs : Elected(m) /\ m.from = t /\ m.epoch = ps[t].epoch
        /\ disk[t].isLeader => \E m \in msgs : Elected(m) /\ m.from = t /\ m.epoch = disk[t].epoch
  BY DEF LeadersElected
<1> DEFINE New(t, p) == p.isLeader => \E m \in msgs' : Elected(m)' /\ m.from = t /\ m.epoch = p.epoch
<1>0. SUFFICES \A t \in Server : New(t, ps'[t]) /\ New(t, disk'[t])
  BY DEF LeadersElected
<1>o. \A t \in Server : New(t, ps[t]) /\ New(t, disk[t])
  BY <1>e, <1>l
<1>n. \A t \in Server : \A p, q : p.epoch = q.epoch /\ (p.isLeader => q.isLeader) /\ New(t, q) => New(t, p)
  OBVIOUS
<1> HIDE DEF New
<1>1. ASSUME NEW s \in Server, NEW m \in msgs, EnterNewEpoch(s, m)
      PROVE  \A t \in Server : New(t, ps'[t]) /\ New(t, disk'[t])
  <2>1. ~ps'[s].isLeader /\ disk' = disk /\ \A t \in Server \ {s} : ps'[t] = ps[t]
    BY <1>1, EnterEffect
  <2>2. New(s, ps'[s])
    BY <2>1 DEF New
  <2> QED
    BY <1>o, <2>1, <2>2
<1>2. ASSUME NEW s \in Server, NEW m, NEW V, BecomeLeader(s, m, V)
      PROVE  \A t \in Server : New(t, ps'[t]) /\ New(t, disk'[t])
  <2>1. disk' = disk /\ msgs' = msgs /\ \A t \in Server \ {s} : ps'[t] = ps[t]
    BY <1>2, BecomeEffect
  <2>2. ps' = ps \/ ps'[s].epoch = m.epoch
    BY <1>2, BecomeEffect
  <2>3. Elected(m)' /\ m \in msgs' /\ m.from = s
    BY <1>2, <2>1, WinnerElected
  <2>4. New(s, ps'[s])
    BY <1>o, <2>2, <2>3 DEF New
  <2> QED
    BY <1>o, <2>1, <2>4
<1>3. ASSUME NEW s \in Server, NEW op \in Op, TryAcquire(s, op)
      PROVE  \A t \in Server : New(t, ps'[t]) /\ New(t, disk'[t])
  <2>1. /\ disk' = disk /\ ps[s].isLeader /\ ps'[s].epoch = ps[s].epoch
        /\ \A t \in Server \ {s} : ps'[t] = ps[t]
    BY <1>3, AcquireEffect
  <2>2. New(s, ps'[s])
    BY <1>o, <1>n, <2>1
  <2> QED
    BY <1>o, <2>1, <2>2
<1>4. ASSUME NEW s \in Server, NEW m \in msgs, ApplyAsFollower(s, m)
      PROVE  \A t \in Server : New(t, ps'[t]) /\ New(t, disk'[t])
  <2>1. disk' = disk /\ \A t \in Server \ {s} : ps'[t] = ps[t]
    BY <1>4, ApplyEffect
  <2>2. \/ ~ps'[s].isLeader
        \/ ps'[s] = ps[s]
        \/ ps'[s].epoch = ps[s].epoch /\ ps'[s].isLeader = ps[s].isLeader
    BY <1>4, ApplyState, Zenon
  <2>3. New(s, ps'[s])
    <3>1. CASE ~ps'[s].isLeader
      BY <3>1 DEF New
    <3>2. CASE ps'[s] = ps[s]
      BY <1>o, <3>2
    <3>3. CASE ps'[s].epoch = ps[s].epoch /\ ps'[s].isLeader = ps[s].isLeader
      BY <1>o, <1>n, <3>3
    <3> QED
      BY <2>2, <3>1, <3>2, <3>3
  <2> QED
    BY <1>o, <2>1, <2>3
<1>5. ASSUME NEW s \in Server, Flush(s) \/ Crash(s)
      PROVE  \A t \in Server : New(t, ps'[t]) /\ New(t, disk'[t])
  <2>1. \A t \in Server : ps'[t] \in {ps[t], disk[t]} /\ disk'[t] \in {ps[t], disk[t]}
    BY <1>5, FlushEffect, CrashEffect
  <2> QED
    BY <1>o, <2>1
<1>6. ASSUME NEW s \in Server,
             \/ TryBecomeLeader(s)
             \/ \E m \in releases[s] : Released(s, m)
             \/ UNCHANGED vars
      PROVE  \A t \in Server : New(t, ps'[t]) /\ New(t, disk'[t])
  BY <1>o, <1>6, QuietEffect
<1>7. CASE UNCHANGED vars
  BY <1>o, <1>7 DEF vars
<1> QED
  BY <1>1, <1>2, <1>3, <1>4, <1>5, <1>6, <1>7 DEF Next, ServerNext

(* One server leads an epoch, in memory or after a crash. *)
LEMMA OneLeader ==
  ASSUME TypeOK, VotesBind, LeadersElected
  PROVE  \A s, t \in Server : \A p \in {ps[s], disk[s]}, q \in {ps[t], disk[t]} :
           p.isLeader /\ q.isLeader /\ p.epoch = q.epoch => s = t
<1> SUFFICES ASSUME NEW s \in Server, NEW t \in Server,
                    NEW p \in {ps[s], disk[s]}, NEW q \in {ps[t], disk[t]},
                    p.isLeader, q.isLeader, p.epoch = q.epoch
             PROVE  s = t
  OBVIOUS
<1>1. PICK m \in msgs : Elected(m) /\ m.from = s /\ m.epoch = p.epoch
  BY DEF LeadersElected
<1>2. PICK n \in msgs : Elected(n) /\ n.from = t /\ n.epoch = q.epoch
  BY DEF LeadersElected
<1>3. m = n
  BY <1>1, <1>2, VotedOnce DEF Elected
<1> QED
  BY <1>1, <1>2, <1>3

(* When an election is won, nothing was accepted in its epoch and nobody     *)
(* leads it.                                                                 *)
LEMMA NothingYet ==
  ASSUME TypeOK, Owned, VotesBind, LeadersElected, AcceptedAfterElection,
         NEW s \in Server, NEW m, NEW V, BecomeLeader(s, m, V)
  PROVE  /\ \A q \in Snaps : q.e # m.epoch
         /\ \A t \in Server : \A p \in {ps[t], disk[t]} : p.isLeader => p.epoch # m.epoch
<1>1. m.epoch # 0 /\ m \in tries[s] /\ m.from = s /\ Majority(Voters(m))
  BY BecomeEffect, WinnerElected
<1>2. \A n \in msgs : Elected(n) => n.epoch # m.epoch
  <2> SUFFICES ASSUME NEW n \in msgs, Elected(n), n.epoch = m.epoch
               PROVE  FALSE
    OBVIOUS
  <2>1. n = m
    BY <1>1, VotedOnce DEF Elected
  <2> QED
    BY <1>1, <2>1 DEF Elected
<1>3. \A q \in Snaps : q.e # m.epoch
  BY <1>1, <1>2 DEF AcceptedAfterElection
<1>4. \A t \in Server : \A p \in {ps[t], disk[t]} : p.isLeader => p.epoch # m.epoch
  BY <1>2 DEF LeadersElected
<1> QED
  BY <1>3, <1>4

-----------------------------------------------------------------------------
(* What has been accepted                                                    *)

\* message m carries the state q
Carries(m, q) ==
  \/ m.type = "vote" /\ q = Accepted(m)
  \/ m.type = "apply" /\ q = [e |-> m.epoch, x |-> m.state]

IsSnap(q) ==
  \/ \E t \in Server : q = Accepted(ps[t]) \/ q = Accepted(disk[t])
  \/ \E m \in msgs : Carries(m, q)
  \/ \E t \in Server : \E m \in waiting[t] : Carries(m, q)

IsElsewhere(s, q) ==
  \/ \E t \in Server \ {s} : q = Accepted(ps[t])
  \/ \E t \in Server : q = Accepted(disk[t])
  \/ \E m \in msgs : Carries(m, q)
  \/ \E t \in Server \ {s} : \E m \in waiting[t] : Carries(m, q)

SnapsAre == /\ \A q : q \in Snaps <=> IsSnap(q)
            /\ \A s \in Server : \A q : q \in Elsewhere(s) <=> IsElsewhere(s, q)

(* Where to find what has been accepted. *)
LEMMA SnapsAreThese == SnapsAre
<1>1. \A M : \A q : q \in AcceptedIn(M) <=> \E m \in M : Carries(m, q)
  BY DEF AcceptedIn, Carries
<1>2. \A q : q \in Snaps <=> IsSnap(q)
  <2> TAKE q
  <2>1. q \in Snaps <=> q \in {Accepted(p) : p \in Copies} \/ q \in AcceptedIn(Sent)
    BY DEF Snaps
  <2>2. q \in {Accepted(p) : p \in Copies} <=> \E t \in Server : q = Accepted(ps[t]) \/ q = Accepted(disk[t])
    BY DEF Copies
  <2>3. q \in AcceptedIn(Sent) <=> \E m \in Sent : Carries(m, q)
    BY <1>1
  <2>4. \A m : m \in Sent <=> m \in msgs \/ \E t \in Server : m \in waiting[t]
    BY DEF Sent, Held
  <2> QED
    BY <2>1, <2>2, <2>3, <2>4 DEF IsSnap
<1>3. \A s \in Server : \A q : q \in Elsewhere(s) <=> IsElsewhere(s, q)
  <2> TAKE s \in Server
  <2> TAKE q
  <2> DEFINE M == msgs \cup UNION {waiting[t] : t \in Server \ {s}}
  <2>1. q \in Elsewhere(s) <=> \/ q \in {Accepted(ps[t]) : t \in Server \ {s}}
                               \/ q \in {Accepted(disk[t]) : t \in Server}
                               \/ q \in AcceptedIn(M)
    BY DEF Elsewhere
  <2>2. \A m : m \in M <=> m \in msgs \/ \E t \in Server \ {s} : m \in waiting[t]
    OBVIOUS
  <2> HIDE DEF M
  <2>3. q \in AcceptedIn(M) <=> \E m \in M : Carries(m, q)
    BY <1>1
  <2> QED
    BY <2>1, <2>2, <2>3 DEF IsElsewhere
<1> QED
  BY <1>2, <1>3 DEF SnapsAre

(* The same after a step. *)
LEMMA SnapsAreTheseThen == SnapsAre'
BY SnapsAreThese, PTL

(* Epochs are numbers and states are sequences. *)
LEMMA SnapTypes ==
  ASSUME TypeOK
  PROVE  \A q \in Snaps : q.e \in Nat /\ q.x \in Seq(Op)
<1> SUFFICES ASSUME NEW q, IsSnap(q)
             PROVE  q.e \in Nat /\ q.x \in Seq(Op)
  BY SnapsAreThese DEF SnapsAre
<1>1. ASSUME NEW p \in State, q = Accepted(p)
      PROVE  q.e \in Nat /\ q.x \in Seq(Op)
  BY <1>1 DEF State, Accepted
<1>2. ASSUME NEW m \in Sent, Carries(m, q)
      PROVE  q.e \in Nat /\ q.x \in Seq(Op)
  <2>1. m \in Message
    BY SentMessages
  <2>2. CASE m.type = "vote"
    BY <1>2, <2>1, <2>2, MessageKind DEF Carries, Accepted, VoteMsg
  <2>3. CASE m.type = "apply"
    BY <1>2, <2>1, <2>3, MessageKind DEF Carries, ApplyMsg
  <2> QED
    BY <1>2, <2>2, <2>3 DEF Carries
<1>3. \A t \in Server : ps[t] \in State /\ disk[t] \in State
  BY DEF TypeOK
<1> QED
  BY <1>1, <1>2, <1>3, SentMessages DEF IsSnap

(* The copies and messages there are have been accepted. *)
LEMMA SnapMembers ==
  ASSUME TypeOK
  PROVE  /\ \A t \in Server : Accepted(ps[t]) \in Snaps /\ Accepted(disk[t]) \in Snaps
         /\ \A m \in Sent : m.type = "vote" => Accepted(m) \in Snaps
         /\ \A m \in Sent : m.type = "apply" => [e |-> m.epoch, x |-> m.state] \in Snaps
<1>1. \A t \in Server : IsSnap(Accepted(ps[t])) /\ IsSnap(Accepted(disk[t]))
  BY DEF IsSnap
<1>2. \A m \in Sent : \A q : Carries(m, q) => IsSnap(q)
  BY SentMessages DEF IsSnap
<1> QED
  BY <1>1, <1>2, SnapsAreThese DEF SnapsAre, Carries

(* A step of s in memory adds to what has been accepted nothing but its new  *)
(* state, and nothing at all to what would outlive its crash.                *)
LEMMA SnapsGrow ==
  ASSUME TypeOK, NEW s \in Server, disk' = disk, msgs' = msgs,
         \A t \in Server \ {s} : ps'[t] = ps[t] /\ waiting'[t] = waiting[t],
         NEW n, waiting'[s] \subseteq waiting[s] \cup {n},
         n.type = "vote" => Accepted(n) = Accepted(ps[s]),
         n.type = "apply" => [e |-> n.epoch, x |-> n.state] = Accepted(ps'[s])
  PROVE  /\ \A q \in Snaps' : q \in Snaps \/ q = Accepted(ps'[s])
         /\ \A q \in Elsewhere(s)' : q \in Elsewhere(s)
         /\ \A t \in Server \ {s} : \A q \in Elsewhere(t)' : q \in Elsewhere(t) \/ q = Accepted(ps'[s])
<1>1. \A q : Carries(n, q) => q = Accepted(ps[s]) \/ q = Accepted(ps'[s])
  BY DEF Carries
<1>2. \A q : IsSnap(q)' => IsSnap(q) \/ q = Accepted(ps'[s])
  <2> TAKE q
  <2>1. CASE \E t \in Server : q = Accepted(ps'[t]) \/ q = Accepted(disk'[t])
    BY <2>1 DEF IsSnap
  <2>2. CASE \E m \in msgs' : Carries(m, q)
    BY <2>2 DEF IsSnap
  <2>3. ASSUME NEW t \in Server, NEW m \in waiting'[t], Carries(m, q)
        PROVE  IsSnap(q) \/ q = Accepted(ps'[s])
    <3>1. CASE m \in waiting[t]
      BY <2>3, <3>1 DEF IsSnap
    <3>2. CASE m \notin waiting[t]
      <4>1. m = n
        BY <3>2
      <4> QED
        BY <1>1, <2>3, <4>1 DEF IsSnap
    <3> QED
      BY <3>1, <3>2
  <2>4. IsSnap(q)' => \/ \E t \in Server : q = Accepted(ps'[t]) \/ q = Accepted(disk'[t])
                      \/ \E m \in msgs' : Carries(m, q)
                      \/ \E t \in Server : \E m \in waiting'[t] : Carries(m, q)
    BY DEF IsSnap, Accepted, Carries
  <2> QED
    BY <2>1, <2>2, <2>3, <2>4
<1>3. \A q : IsElsewhere(s, q)' => IsElsewhere(s, q)
  BY DEF IsElsewhere, Accepted, Carries
<1>4. ASSUME NEW t \in Server \ {s}, NEW q, IsElsewhere(t, q)'
      PROVE  IsElsewhere(t, q) \/ q = Accepted(ps'[s])
  <2>0. s \in Server \ {t}
    OBVIOUS
  <2>1. CASE \E u \in Server \ {t} : q = Accepted(ps'[u])
    BY <2>1 DEF IsElsewhere
  <2>2. CASE (\E u \in Server : q = Accepted(disk'[u])) \/ \E m \in msgs' : Carries(m, q)
    BY <2>2 DEF IsElsewhere
  <2>3. ASSUME NEW u \in Server \ {t}, NEW m \in waiting'[u], Carries(m, q)
        PROVE  IsElsewhere(t, q) \/ q = Accepted(ps'[s])
    <3>1. CASE m \in waiting[u]
      BY <2>3, <3>1 DEF IsElsewhere
    <3>2. CASE m \notin waiting[u]
      <4>1. m = n
        BY <3>2
      <4> QED
        BY <1>1, <2>0, <2>3, <4>1 DEF IsElsewhere
    <3> QED
      BY <3>1, <3>2
  <2>4. \/ \E u \in Server \ {t} : q = Accepted(ps'[u])
        \/ \E u \in Server : q = Accepted(disk'[u])
        \/ \E m \in msgs' : Carries(m, q)
        \/ \E u \in Server \ {t} : \E m \in waiting'[u] : Carries(m, q)
    BY <1>4 DEF IsElsewhere, Accepted, Carries
  <2> QED
    BY <2>1, <2>2, <2>3, <2>4
<1> QED
  BY <1>2, <1>3, <1>4, SnapsAreThese, SnapsAreTheseThen DEF SnapsAre

(* What outlives a crash has been accepted. *)
LEMMA ElsewhereIsAccepted == \A s \in Server : \A q \in Elsewhere(s) : q \in Snaps
BY SnapsAreThese DEF SnapsAre, IsSnap, IsElsewhere

(* Joining an epoch or following a leader makes nothing new.                 *)
LEMMA FollowerSnaps ==
  ASSUME TypeOK, NEW s \in Server, NEW m \in msgs, EnterNewEpoch(s, m) \/ ApplyAsFollower(s, m)
  PROVE  /\ \A q \in Snaps' : q \in Snaps
         /\ \A t \in Server : \A q \in Elsewhere(t)' : q \in Elsewhere(t)
<1>1. CASE EnterNewEpoch(s, m)
  <2>1. PICK v \in VoteMsg :
          /\ v.type = "vote" /\ v.acceptedEpoch = ps[s].acceptedEpoch /\ v.state = ps[s].state
          /\ waiting'[s] = waiting[s] \cup {v}
    BY <1>1, EnterEffect
  <2>2. /\ ps'[s].acceptedEpoch = ps[s].acceptedEpoch /\ ps'[s].state = ps[s].state
        /\ \A t \in Server \ {s} : ps'[t] = ps[t] /\ waiting'[t] = waiting[t]
        /\ disk' = disk /\ msgs' = msgs
    BY <1>1, EnterEffect
  <2>3. Accepted(v) = Accepted(ps[s]) /\ Accepted(ps'[s]) = Accepted(ps[s])
    BY <2>1, <2>2 DEF Accepted
  <2>4. /\ \A q \in Snaps' : q \in Snaps \/ q = Accepted(ps'[s])
        /\ \A q \in Elsewhere(s)' : q \in Elsewhere(s)
        /\ \A t \in Server \ {s} : \A q \in Elsewhere(t)' : q \in Elsewhere(t) \/ q = Accepted(ps'[s])
    BY <2>1, <2>2, <2>3, SnapsGrow
  <2>5. IsSnap(Accepted(ps[s])) /\ \A t \in Server \ {s} : IsElsewhere(t, Accepted(ps[s]))
    BY DEF IsSnap, IsElsewhere
  <2> QED
    BY <2>3, <2>4, <2>5, SnapsAreThese DEF SnapsAre
<1>2. CASE ApplyAsFollower(s, m)
  <2>1. PICK a \in AppliedMsg : a.type = "applied" /\ waiting'[s] = waiting[s] \cup {a}
    BY <1>2, ApplyEffect
  <2>2. /\ m.type = "apply"
        /\ \A t \in Server \ {s} : ps'[t] = ps[t] /\ waiting'[t] = waiting[t]
        /\ disk' = disk /\ msgs' = msgs
    BY <1>2, ApplyEffect
  <2>3. \/ Accepted(ps'[s]) = [e |-> m.epoch, x |-> m.state]
        \/ Accepted(ps'[s]) = Accepted(ps[s])
    BY <1>2, ApplyState DEF Accepted
  <2>4. /\ \A q \in Snaps' : q \in Snaps \/ q = Accepted(ps'[s])
        /\ \A q \in Elsewhere(s)' : q \in Elsewhere(s)
        /\ \A t \in Server \ {s} : \A q \in Elsewhere(t)' : q \in Elsewhere(t) \/ q = Accepted(ps'[s])
    BY <2>1, <2>2, <2>3, SnapsGrow
  <2>5. Carries(m, [e |-> m.epoch, x |-> m.state])
    BY <2>2 DEF Carries
  <2>6. /\ IsSnap(Accepted(ps[s])) /\ IsSnap([e |-> m.epoch, x |-> m.state])
        /\ \A t \in Server \ {s} :
             IsElsewhere(t, Accepted(ps[s])) /\ IsElsewhere(t, [e |-> m.epoch, x |-> m.state])
    BY <2>5 DEF IsSnap, IsElsewhere
  <2> QED
    BY <2>3, <2>4, <2>6, SnapsAreThese DEF SnapsAre
<1> QED
  BY <1>1, <1>2

(* A new leader, or one that takes an operation, makes its new state.        *)
LEMMA LeaderSnaps ==
  ASSUME TypeOK, NEW s \in Server, SaneCopy(ps[s]),
         \/ \E m, V : BecomeLeader(s, m, V)
         \/ \E op \in Op : TryAcquire(s, op)
  PROVE  /\ \A q \in Snaps' : q \in Snaps \/ q = Accepted(ps'[s])
         /\ \A q \in Elsewhere(s)' : q \in Elsewhere(s)
         /\ \A t \in Server \ {s} : \A q \in Elsewhere(t)' : q \in Elsewhere(t) \/ q = Accepted(ps'[s])
<1>1. ASSUME NEW m, NEW V, BecomeLeader(s, m, V)
      PROVE  /\ \A q \in Snaps' : q \in Snaps \/ q = Accepted(ps'[s])
             /\ \A q \in Elsewhere(s)' : q \in Elsewhere(s)
             /\ \A t \in Server \ {s} : \A q \in Elsewhere(t)' : q \in Elsewhere(t) \/ q = Accepted(ps'[s])
  <2>1. /\ m \in EnterMsg
        /\ \A t \in Server \ {s} : ps'[t] = ps[t]
        /\ disk' = disk /\ msgs' = msgs /\ waiting' = waiting
    BY <1>1, BecomeEffect
  <2>2. m.type = "enter"
    BY <2>1 DEF EnterMsg
  <2> QED
    BY <2>1, <2>2, SnapsGrow
<1>2. ASSUME NEW op \in Op, TryAcquire(s, op)
      PROVE  /\ \A q \in Snaps' : q \in Snaps \/ q = Accepted(ps'[s])
             /\ \A q \in Elsewhere(s)' : q \in Elsewhere(s)
             /\ \A t \in Server \ {s} : \A q \in Elsewhere(t)' : q \in Elsewhere(t) \/ q = Accepted(ps'[s])
  <2>1. PICK m \in ApplyMsg :
          /\ m.epoch = ps[s].epoch /\ m.type = "apply"
          /\ m.state = Append(ps[s].state, op) /\ waiting'[s] = waiting[s] \cup {m}
    BY <1>2, AcquireEffect
  <2>2. /\ \A t \in Server \ {s} : ps'[t] = ps[t] /\ waiting'[t] = waiting[t]
        /\ disk' = disk /\ msgs' = msgs
        /\ ps[s].isLeader /\ ps'[s].acceptedEpoch = ps[s].acceptedEpoch
        /\ ps'[s].state = Append(ps[s].state, op)
    BY <1>2, AcquireEffect
  <2>3. [e |-> m.epoch, x |-> m.state] = Accepted(ps'[s])
    BY <2>1, <2>2 DEF Accepted, SaneCopy
  <2> QED
    BY <2>1, <2>2, <2>3, SnapsGrow
<1> QED
  BY <1>1, <1>2

(* A write makes outlive a crash what was already accepted.                  *)
LEMMA FlushSnaps ==
  ASSUME TypeOK, NEW s \in Server, Flush(s)
  PROVE  /\ \A q \in Snaps' : q \in Snaps
         /\ \A q \in Elsewhere(s)' : q \in Snaps
         /\ \A t \in Server \ {s} : \A q \in Elsewhere(t)' : q \in Elsewhere(t)
<1>1. /\ msgs' = msgs \cup waiting[s] /\ waiting'[s] = {}
      /\ disk'[s] = ps[s] /\ ps' = ps
      /\ \A t \in Server \ {s} : waiting'[t] = waiting[t] /\ disk'[t] = disk[t]
  BY FlushEffect
<1>2. ASSUME NEW q, IsSnap(q)'
      PROVE  IsSnap(q)
  <2>1. \/ \E t \in Server : q = Accepted(ps'[t]) \/ q = Accepted(disk'[t])
        \/ \E m \in msgs' : Carries(m, q)
        \/ \E t \in Server : \E m \in waiting'[t] : Carries(m, q)
    BY <1>2 DEF IsSnap, Accepted, Carries
  <2> QED
    BY <1>1, <2>1 DEF IsSnap
<1>3. ASSUME NEW t \in Server \ {s}, NEW q, IsElsewhere(t, q)'
      PROVE  IsElsewhere(t, q)
  <2>0. s \in Server \ {t}
    OBVIOUS
  <2>1. \/ \E u \in Server \ {t} : q = Accepted(ps'[u])
        \/ \E u \in Server : q = Accepted(disk'[u])
        \/ \E m \in msgs' : Carries(m, q)
        \/ \E u \in Server \ {t} : \E m \in waiting'[u] : Carries(m, q)
    BY <1>3 DEF IsElsewhere, Accepted, Carries
  <2> QED
    BY <1>1, <2>0, <2>1 DEF IsElsewhere
<1>4. \A q : IsElsewhere(s, q)' => IsSnap(q)'
  BY DEF IsElsewhere, IsSnap, Accepted, Carries
<1> QED
  BY <1>2, <1>3, <1>4, SnapsAreThese, SnapsAreTheseThen DEF SnapsAre

(* A crash leaves what is not lost with s. *)
LEMMA CrashSnaps ==
  ASSUME TypeOK, NEW s \in Server, Crash(s)
  PROVE  /\ \A q \in Snaps' : q \in Elsewhere(s) /\ q \in Snaps
         /\ \A t \in Server : \A q \in Elsewhere(t)' : q \in Elsewhere(t)
<1>1. /\ msgs' = msgs /\ waiting'[s] = {}
      /\ ps'[s] = disk[s] /\ disk' = disk
      /\ \A t \in Server \ {s} : waiting'[t] = waiting[t] /\ ps'[t] = ps[t]
  BY CrashEffect
<1>2. ASSUME NEW q, IsSnap(q)'
      PROVE  IsElsewhere(s, q)
  <2>1. \/ \E t \in Server : q = Accepted(ps'[t]) \/ q = Accepted(disk'[t])
        \/ \E m \in msgs' : Carries(m, q)
        \/ \E t \in Server : \E m \in waiting'[t] : Carries(m, q)
    BY <1>2 DEF IsSnap, Accepted, Carries
  <2> QED
    BY <1>1, <2>1 DEF IsElsewhere
<1>3. ASSUME NEW t \in Server, NEW q, IsElsewhere(t, q)'
      PROVE  IsElsewhere(t, q)
  <2>1. \/ \E u \in Server \ {t} : q = Accepted(ps'[u])
        \/ \E u \in Server : q = Accepted(disk'[u])
        \/ \E m \in msgs' : Carries(m, q)
        \/ \E u \in Server \ {t} : \E m \in waiting'[u] : Carries(m, q)
    BY <1>3 DEF IsElsewhere, Accepted, Carries
  <2> QED
    BY <1>1, <2>1 DEF IsElsewhere
<1>4. \A q : IsElsewhere(s, q) => IsSnap(q)
  BY DEF IsElsewhere, IsSnap
<1> QED
  BY <1>2, <1>3, <1>4, SnapsAreThese, SnapsAreTheseThen DEF SnapsAre

(* The other steps change nothing of it. *)
LEMMA QuietSnaps ==
  ASSUME TypeOK, Owned, NEW s \in Server,
         \/ TryBecomeLeader(s)
         \/ \E m \in releases[s] : Released(s, m)
         \/ UNCHANGED vars
  PROVE  /\ \A q \in Snaps' : q \in Snaps
         /\ \A t \in Server : \A q \in Elsewhere(t)' : q \in Elsewhere(t)
<1>1. /\ ps' = ps /\ disk' = disk /\ waiting' = waiting
      /\ \A m \in msgs' : m \notin msgs => m.type = "enter"
  BY QuietEffect
<1>2. \A m \in msgs' : \A q : Carries(m, q) => m \in msgs
  BY <1>1 DEF Carries
<1>3. \A q : IsSnap(q)' => IsSnap(q)
  BY <1>1, <1>2 DEF IsSnap, Accepted, Carries
<1>4. \A t \in Server : \A q : IsElsewhere(t, q)' => IsElsewhere(t, q)
  BY <1>1, <1>2 DEF IsElsewhere, Accepted, Carries
<1> QED
  BY <1>3, <1>4, SnapsAreThese, SnapsAreTheseThen DEF SnapsAre

(* What is accepted is made by a leader. *)
LEMMA NewSnaps ==
  ASSUME TypeOK, Owned, Sane, [Next]_vars
  PROVE  \A q \in Snaps' :
           \/ q \in Snaps
           \/ \E s \in Server : /\ q = Accepted(ps'[s])
                                /\ \/ \E m, V : BecomeLeader(s, m, V)
                                   \/ \E op \in Op : TryAcquire(s, op)
<1> SUFFICES ASSUME NEW q \in Snaps', q \notin Snaps
             PROVE  \E s \in Server : /\ q = Accepted(ps'[s])
                                      /\ \/ \E m, V : BecomeLeader(s, m, V)
                                         \/ \E op \in Op : TryAcquire(s, op)
  OBVIOUS
<1>1. ~(UNCHANGED vars)
  BY DEF vars, Snaps, Copies, Sent, Held, AcceptedIn, Accepted
<1>2. \A s \in Server :
        /\ ~TryBecomeLeader(s)
        /\ \A m \in releases[s] : ~Released(s, m)
  BY QuietSnaps
<1>3. \A s \in Server : ~Flush(s) /\ ~Crash(s)
  BY FlushSnaps, CrashSnaps
<1>4. \A s \in Server, m \in msgs : ~EnterNewEpoch(s, m) /\ ~ApplyAsFollower(s, m)
  BY FollowerSnaps
<1>5. PICK s \in Server : ServerNext(s)
  BY <1>1 DEF Next
<1>6. (\E m, V : BecomeLeader(s, m, V)) \/ \E op \in Op : TryAcquire(s, op)
  BY <1>2, <1>3, <1>4, <1>5 DEF ServerNext
<1> QED
  BY <1>6, LeaderSnaps DEF Sane

(* Nothing is accepted before its election.                                  *)
LEMMA AcceptedAfterElectionStep ==
  ASSUME TypeOK, Owned, Sane, VotesBind, LeadersElected, AcceptedAfterElection, [Next]_vars
  PROVE  AcceptedAfterElection'
<1> DEFINE After(q) == IF q.e = 0 THEN q.x = <<>> ELSE \E m \in msgs' : Elected(m)' /\ m.epoch = q.e
<1>e. \A m : Elected(m) => Elected(m)' /\ m \in msgs'
  BY ElectedStays
<1>1. \A q \in Snaps : After(q)
  BY <1>e DEF AcceptedAfterElection
<1>2. ASSUME NEW s \in Server, NEW m, NEW V, BecomeLeader(s, m, V)
      PROVE  After(Accepted(ps'[s]))
  <2>1. Elected(m)' /\ m \in msgs' /\ m.epoch # 0
    BY <1>2, WinnerElected, BecomeEffect
  <2>2. CASE ps' = ps
    <3>1. Accepted(ps'[s]) \in Snaps
      BY <2>2, SnapMembers
    <3> QED
      BY <1>1, <3>1
  <2>3. CASE ps'[s].acceptedEpoch = m.epoch
    <3>1. Accepted(ps'[s]).e = m.epoch
      BY <2>3 DEF Accepted
    <3> QED
      BY <2>1, <3>1
  <2> QED
    BY <1>2, <2>2, <2>3, BecomeEffect
<1>3. ASSUME NEW s \in Server, NEW op \in Op, TryAcquire(s, op)
      PROVE  After(Accepted(ps'[s]))
  <2>1. ps[s].isLeader /\ ps'[s].acceptedEpoch = ps[s].acceptedEpoch
    BY <1>3, AcquireEffect
  <2>2. PICK m \in msgs : Elected(m) /\ m.epoch = ps[s].epoch
    BY <2>1 DEF LeadersElected
  <2>3. m.epoch # 0
    BY <2>2, MessageKind DEF TypeOK, EnterMsg, Elected
  <2>4. ps[s].acceptedEpoch = ps[s].epoch
    BY <2>1 DEF Sane, SaneCopy
  <2>5. Accepted(ps'[s]).e = m.epoch
    BY <2>1, <2>2, <2>4 DEF Accepted
  <2> QED
    BY <1>e, <2>2, <2>3, <2>5
<1> HIDE DEF After
<1>4. \A q \in Snaps' : After(q)
  BY <1>1, <1>2, <1>3, NewSnaps
<1> QED
  BY <1>4 DEF AcceptedAfterElection, After

-----------------------------------------------------------------------------
(* One epoch                                                                 *)

(* What a leader makes extends everything accepted in its epoch.             *)
LEMMA LeaderExtends ==
  ASSUME TypeOK, Owned, Sane, VotesBind, LeadersElected, AcceptedAfterElection, LeaderAhead,
         NEW s \in Server,
         \/ \E m, V : BecomeLeader(s, m, V)
         \/ \E op \in Op : TryAcquire(s, op)
  PROVE  \/ Accepted(ps'[s]) \in Snaps /\ ps' = ps
         \/ /\ ps'[s].acceptedEpoch = ps'[s].epoch /\ ps'[s].isLeader
            /\ ps'[s].epoch \in Nat /\ ps[s].epoch <= ps'[s].epoch
            /\ \A q \in Snaps : q.e = ps'[s].epoch => Prefix(q.x, ps'[s].state)
            /\ \A t \in Server \ {s} : \A p \in {ps[t], disk[t]} : p.isLeader => p.epoch # ps'[s].epoch
<1>t. ps[s].state \in Seq(Op) /\ ps[s].epoch \in Nat
  BY DEF TypeOK, State
<1>1. ASSUME NEW m, NEW V, BecomeLeader(s, m, V), ps' # ps
      PROVE  /\ ps'[s].acceptedEpoch = ps'[s].epoch /\ ps'[s].isLeader
             /\ ps'[s].epoch \in Nat /\ ps[s].epoch <= ps'[s].epoch
             /\ \A q \in Snaps : q.e = ps'[s].epoch => Prefix(q.x, ps'[s].state)
             /\ \A t \in Server : \A p \in {ps[t], disk[t]} : p.isLeader => p.epoch # ps'[s].epoch
  <2>1. /\ ps'[s].epoch = m.epoch /\ ps'[s].acceptedEpoch = m.epoch /\ ps'[s].isLeader
        /\ ps[s].epoch <= m.epoch /\ m.epoch \in Nat
    BY <1>1, BecomeEffect
  <2> QED
    BY <1>1, <2>1, NothingYet
<1>2. ASSUME NEW op \in Op, TryAcquire(s, op)
      PROVE  /\ ps'[s].acceptedEpoch = ps'[s].epoch /\ ps'[s].isLeader
             /\ ps'[s].epoch \in Nat /\ ps[s].epoch <= ps'[s].epoch
             /\ \A q \in Snaps : q.e = ps'[s].epoch => Prefix(q.x, ps'[s].state)
             /\ \A t \in Server \ {s} : \A p \in {ps[t], disk[t]} : p.isLeader => p.epoch # ps'[s].epoch
  <2>1. /\ ps[s].isLeader /\ ps'[s].isLeader /\ ps'[s].epoch = ps[s].epoch
        /\ ps'[s].acceptedEpoch = ps[s].acceptedEpoch /\ ps'[s].state = Append(ps[s].state, op)
    BY <1>2, AcquireEffect
  <2>2. \A q \in Snaps : q.e = ps[s].epoch => Prefix(q.x, Append(ps[s].state, op))
    BY <1>t, <2>1, SnapTypes, PrefixAppend DEF LeaderAhead
  <2>3. \A t \in Server \ {s} : \A p \in {ps[t], disk[t]} : p.isLeader => p.epoch # ps[s].epoch
    BY <2>1, OneLeader
  <2> QED
    BY <1>t, <2>1, <2>2, <2>3 DEF Sane, SaneCopy
<1>3. CASE ps' = ps
  BY <1>3, SnapMembers
<1> QED
  BY <1>1, <1>2, <1>3

(* Every step keeps the states of an epoch in one line.                      *)
LEMMA OneLineStep ==
  ASSUME TypeOK, Owned, Sane, VotesBind, LeadersElected, AcceptedAfterElection, OneLine, LeaderAhead,
         [Next]_vars
  PROVE  OneLine'
<1>1. ASSUME NEW q \in Snaps', NEW r \in Snaps', q.e = r.e
      PROVE  Comparable(q.x, r.x)
  <2>1. CASE q \in Snaps /\ r \in Snaps
    BY <1>1, <2>1 DEF OneLine
  <2>2. ASSUME NEW s \in Server, NEW u \in Snaps, u.e = Accepted(ps'[s]).e,
               \/ \E m, V : BecomeLeader(s, m, V)
               \/ \E op \in Op : TryAcquire(s, op)
        PROVE  Comparable(u.x, Accepted(ps'[s]).x)
    <3>1. CASE Accepted(ps'[s]) \in Snaps
      BY <2>2, <3>1 DEF OneLine
    <3>2. CASE /\ ps'[s].acceptedEpoch = ps'[s].epoch
               /\ \A w \in Snaps : w.e = ps'[s].epoch => Prefix(w.x, ps'[s].state)
      BY <2>2, <3>2 DEF Accepted, Comparable
    <3> QED
      BY <2>2, <3>1, <3>2, LeaderExtends
  <2>3. \A x, y : Comparable(x, y) <=> Comparable(y, x)
    BY DEF Comparable
  <2>4. TypeOK'
    BY TypeStep
  <2>5. \A s \in Server : Accepted(ps'[s]).x \in Seq(Op)
    BY <2>4 DEF TypeOK, State, Accepted
  <2>6. \A x \in Seq(Op) : Comparable(x, x)
    <3> TAKE x \in Seq(Op)
    <3>1. Prefix(x, x)
      BY PrefixByElement, LenProperties
    <3> QED
      BY <3>1 DEF Comparable
  <2>7. \A s, t \in Server : 
          /\ \/ \E m, V : BecomeLeader(s, m, V)
             \/ \E op \in Op : TryAcquire(s, op)
          /\ Accepted(ps'[t]) \notin Snaps
          => s = t
    BY LeaderSnaps, SnapMembers, BecomeEffect, AcquireEffect
  <2> QED
    BY <1>1, <2>1, <2>2, <2>3, <2>5, <2>6, <2>7, NewSnaps
<1> QED
  BY <1>1 DEF OneLine, Comparable, Prefix

(* Every step leaves a leader at the end of the line of its epoch, and what  *)
(* its file holds at the end of what outlives its crash.                     *)
LEMMA LeaderAheadStep ==
  ASSUME TypeOK, Owned, Sane, VotesBind, LeadersElected, AcceptedAfterElection, OneLine, LeaderAhead,
         [Next]_vars
  PROVE  LeaderAhead'
<1> DEFINE Ahead(p, Q) == p.isLeader => \A q \in Q : q.e = p.epoch => Prefix(q.x, p.state)
<1>0. SUFFICES \A t \in Server : Ahead(ps'[t], Snaps') /\ Ahead(disk'[t], Elsewhere(t)')
  BY DEF LeaderAhead, Prefix
<1>o. \A t \in Server : Ahead(ps[t], Snaps) /\ Ahead(disk[t], Elsewhere(t))
  BY DEF LeaderAhead
<1>m. \A p, Q, R : Ahead(p, Q) /\ (\A q \in R : q \in Q) => Ahead(p, R)
  OBVIOUS
<1>1. ASSUME NEW s \in Server, NEW m \in msgs, EnterNewEpoch(s, m)
      PROVE  <1>0!1
  <2>1. /\ ~ps'[s].isLeader /\ disk' = disk /\ \A t \in Server \ {s} : ps'[t] = ps[t]
        /\ \A q \in Snaps' : q \in Snaps
        /\ \A t \in Server : \A q \in Elsewhere(t)' : q \in Elsewhere(t)
    BY <1>1, EnterEffect, FollowerSnaps
  <2> QED
    BY <1>o, <2>1
<1>2. ASSUME NEW s \in Server, NEW m \in msgs, ApplyAsFollower(s, m)
      PROVE  <1>0!1
  <2>1. /\ disk' = disk /\ \A t \in Server \ {s} : ps'[t] = ps[t]
        /\ \A q \in Snaps' : q \in Snaps
        /\ \A t \in Server : \A q \in Elsewhere(t)' : q \in Elsewhere(t)
        /\ m \in Sent /\ m.type = "apply" /\ m.state \in Seq(Op)
    BY <1>2, ApplyEffect, FollowerSnaps
  <2>2. ~ps'[s].isLeader \/ ps'[s] = ps[s]
    <3> SUFFICES ASSUME ps[s].acceptedEpoch = m.epoch, ps[s].nextIndex < m.nextIndex,
                        ps'[s].isLeader = ps[s].isLeader
                 PROVE  ~ps'[s].isLeader
      BY <1>2, ApplyState
    <3> SUFFICES ASSUME ps[s].isLeader
                 PROVE  FALSE
      OBVIOUS
    <3>1. [e |-> m.epoch, x |-> m.state] \in Snaps
      BY <2>1, SnapMembers
    <3>2. ps[s].epoch = m.epoch
      BY DEF Sane, SaneCopy
    <3>3. Prefix(m.state, ps[s].state)
      BY <1>o, <3>1, <3>2
    <3>4. m.nextIndex = Len(m.state) /\ ps[s].nextIndex = Len(ps[s].state)
      BY <2>1 DEF Sane, SaneCopy
    <3>5. ps[s].nextIndex \in Nat /\ m.nextIndex \in Nat
      BY <1>2, ApplyEffect DEF TypeOK, State
    <3> QED
      BY <3>3, <3>4, <3>5 DEF Prefix
  <2>3. \A t \in Server \ {s} : Ahead(ps'[t], Snaps')
    BY <1>o, <2>1
  <2>4. \A t \in Server : Ahead(disk'[t], Elsewhere(t)')
    BY <1>o, <2>1
  <2>5. Ahead(ps'[s], Snaps')
    BY <1>o, <2>1, <2>2
  <2> QED
    BY <2>3, <2>4, <2>5
<1>3. ASSUME NEW s \in Server, Flush(s)
      PROVE  <1>0!1
  <2>1. /\ disk'[s] = ps[s] /\ ps' = ps /\ \A t \in Server \ {s} : disk'[t] = disk[t]
        /\ \A q \in Snaps' : q \in Snaps
        /\ \A q \in Elsewhere(s)' : q \in Snaps
        /\ \A t \in Server \ {s} : \A q \in Elsewhere(t)' : q \in Elsewhere(t)
    BY <1>3, FlushEffect, FlushSnaps
  <2>2. \A t \in Server : Ahead(ps'[t], Snaps')
    BY <1>o, <2>1
  <2>3. Ahead(disk'[s], Elsewhere(s)')
    BY <1>o, <2>1
  <2>4. \A t \in Server \ {s} : Ahead(disk'[t], Elsewhere(t)')
    BY <1>o, <2>1
  <2> QED
    BY <2>2, <2>3, <2>4
<1>4. ASSUME NEW s \in Server, Crash(s)
      PROVE  <1>0!1
  <2>1. /\ ps'[s] = disk[s] /\ disk' = disk /\ \A t \in Server \ {s} : ps'[t] = ps[t]
        /\ \A q \in Snaps' : q \in Elsewhere(s) /\ q \in Snaps
        /\ \A t \in Server : \A q \in Elsewhere(t)' : q \in Elsewhere(t)
    BY <1>4, CrashEffect, CrashSnaps
  <2>2. Ahead(ps'[s], Snaps')
    BY <1>o, <2>1
  <2>3. \A t \in Server \ {s} : Ahead(ps'[t], Snaps')
    BY <1>o, <2>1
  <2>4. \A t \in Server : Ahead(disk'[t], Elsewhere(t)')
    BY <1>o, <2>1
  <2> QED
    BY <2>2, <2>3, <2>4
<1>5. ASSUME NEW s \in Server,
             \/ \E m, V : BecomeLeader(s, m, V)
             \/ \E op \in Op : TryAcquire(s, op)
      PROVE  <1>0!1
  <2>1. /\ disk' = disk /\ \A t \in Server \ {s} : ps'[t] = ps[t]
        /\ \A q \in Snaps' : q \in Snaps \/ q = Accepted(ps'[s])
        /\ \A q \in Elsewhere(s)' : q \in Elsewhere(s)
        /\ \A t \in Server \ {s} : \A q \in Elsewhere(t)' : q \in Elsewhere(t) \/ q = Accepted(ps'[s])
    BY <1>5, BecomeEffect, AcquireEffect, LeaderSnaps DEF Sane
  <2>2. CASE Accepted(ps'[s]) \in Snaps /\ ps' = ps
    <3>1. \A t \in Server \ {s} : Accepted(ps[s]) \in Elsewhere(t)
      BY SnapsAreThese DEF SnapsAre, IsElsewhere
    <3>2. \A t \in Server : Ahead(ps'[t], Snaps')
      BY <1>o, <2>1, <2>2
    <3>3. \A t \in Server : \A q \in Elsewhere(t)' : q \in Elsewhere(t)
      BY <2>1, <2>2, <3>1
    <3>4. \A t \in Server : Ahead(disk'[t], Elsewhere(t)')
      BY <1>o, <2>1, <3>3
    <3> QED
      BY <3>2, <3>4
  <2>3. CASE /\ ps'[s].acceptedEpoch = ps'[s].epoch
             /\ \A q \in Snaps : q.e = ps'[s].epoch => Prefix(q.x, ps'[s].state)
             /\ \A t \in Server \ {s} : \A p \in {ps[t], disk[t]} : p.isLeader => p.epoch # ps'[s].epoch
    <3>1. Accepted(ps'[s]).e = ps'[s].epoch /\ Accepted(ps'[s]).x = ps'[s].state
      BY <2>3 DEF Accepted
    <3>2. Prefix(ps'[s].state, ps'[s].state)
      <4>1. ps'[s].state \in Seq(Op)
        BY TypeStep DEF TypeOK, State
      <4> QED
        BY <4>1, PrefixByElement, LenProperties
    <3>3. Ahead(ps'[s], Snaps')
      BY <2>1, <2>3, <3>1, <3>2
    <3>4. \A t \in Server \ {s} : Ahead(ps'[t], Snaps')
      BY <1>o, <2>1, <2>3, <3>1
    <3>5. Ahead(disk'[s], Elsewhere(s)')
      BY <1>o, <2>1
    <3>6. \A t \in Server \ {s} : Ahead(disk'[t], Elsewhere(t)')
      BY <1>o, <2>1, <2>3, <3>1
    <3> QED
      BY <3>3, <3>4, <3>5, <3>6
  <2> QED
    BY <1>5, <2>2, <2>3, LeaderExtends
<1>6. ASSUME NEW s \in Server,
             \/ TryBecomeLeader(s)
             \/ \E m \in releases[s] : Released(s, m)
             \/ UNCHANGED vars
      PROVE  <1>0!1
  <2>1. /\ ps' = ps /\ disk' = disk
        /\ \A q \in Snaps' : q \in Snaps
        /\ \A t \in Server : \A q \in Elsewhere(t)' : q \in Elsewhere(t)
    BY <1>6, QuietEffect, QuietSnaps
  <2> QED
    BY <1>o, <2>1
<1>7. CASE UNCHANGED vars
  <2>1. /\ ps' = ps /\ disk' = disk
        /\ \A q \in Snaps' : q \in Snaps
        /\ \A t \in Server : \A q \in Elsewhere(t)' : q \in Elsewhere(t)
    BY <1>7 DEF vars, Snaps, Elsewhere, Copies, Sent, Held, AcceptedIn, Accepted
  <2> QED
    BY <1>o, <2>1
<1> QED
  BY <1>1, <1>2, <1>3, <1>4, <1>5, <1>6, <1>7 DEF Next, ServerNext

-----------------------------------------------------------------------------
(* What servers have applied                                                 *)

(* A server changes no other's state. *)
LEMMA OthersKeep ==
  ASSUME TypeOK, NEW s \in Server, ServerNext(s), NEW t \in Server \ {s}
  PROVE  ps'[t] = ps[t] /\ disk'[t] = disk[t] /\ waiting'[t] = waiting[t]
<1>1. ASSUME NEW m \in msgs, EnterNewEpoch(s, m)
      PROVE  ps'[t] = ps[t] /\ disk'[t] = disk[t] /\ waiting'[t] = waiting[t]
  BY <1>1, EnterEffect
<1>2. ASSUME NEW m \in msgs, ApplyAsFollower(s, m)
      PROVE  ps'[t] = ps[t] /\ disk'[t] = disk[t] /\ waiting'[t] = waiting[t]
  BY <1>2, ApplyEffect
<1>3. ASSUME NEW m, NEW V, BecomeLeader(s, m, V)
      PROVE  ps'[t] = ps[t] /\ disk'[t] = disk[t] /\ waiting'[t] = waiting[t]
  BY <1>3, BecomeEffect
<1>4. ASSUME NEW op \in Op, TryAcquire(s, op)
      PROVE  ps'[t] = ps[t] /\ disk'[t] = disk[t] /\ waiting'[t] = waiting[t]
  BY <1>4, AcquireEffect
<1>5. CASE TryBecomeLeader(s) \/ \E m \in releases[s] : Released(s, m)
  BY <1>5 DEF TryBecomeLeader, Released
<1>6. CASE Flush(s)
  BY <1>6, FlushEffect
<1>7. CASE Crash(s)
  BY <1>7, CrashEffect
<1> QED
  BY <1>1, <1>2, <1>3, <1>4, <1>5, <1>6, <1>7 DEF ServerNext

(* A server that does not crash keeps what it has come to.                   *)
LEMMA CoversKept ==
  ASSUME TypeOK, Owned, Sane, VotesBind, LeadersElected, AcceptedAfterElection, OneLine, LeaderAhead,
         NEW s \in Server, ServerNext(s), ~Crash(s)
  PROVE  \A t \in Server : \A n \in Sent :
           n.type = "apply" /\ Covers(ps[t], n) => Covers(ps'[t], n)
<1> SUFFICES ASSUME NEW t \in Server, NEW n \in Sent, n.type = "apply", Covers(ps[t], n)
             PROVE  Covers(ps'[t], n)
  OBVIOUS
<1>n. n.epoch \in Nat /\ n.state \in Seq(Op)
  BY SentMessages, MessageKind DEF ApplyMsg
<1>t. /\ ps[s].epoch \in Nat /\ ps[s].acceptedEpoch \in Nat /\ ps[s].nextIndex \in Nat
      /\ ps[s].state \in Seq(Op)
  BY DEF TypeOK, State
<1>0. CASE t # s \/ ps'[t] = ps[t]
  <2>1. ps'[t] = ps[t]
    BY <1>0, OthersKeep
  <2> QED
    BY <2>1
<1> SUFFICES ASSUME t = s, ps'[s] # ps[s]
             PROVE  Covers(ps'[s], n)
  BY <1>0
<1>c. Covers(ps[s], n)
  OBVIOUS
<1>1. ASSUME NEW m \in msgs, EnterNewEpoch(s, m)
      PROVE  Covers(ps'[s], n)
  <2>1. ps'[s].acceptedEpoch = ps[s].acceptedEpoch /\ ps'[s].state = ps[s].state
    BY <1>1, EnterEffect
  <2> QED
    BY <1>c, <2>1 DEF Covers
<1>2. ASSUME NEW m, NEW V, BecomeLeader(s, m, V)
      PROVE  Covers(ps'[s], n)
  <2>1. m.epoch \in Nat /\ ps'[s].acceptedEpoch = m.epoch /\ ps[s].epoch <= m.epoch
    BY <1>2, BecomeEffect
  <2>2. Accepted(ps[s]).e # m.epoch
    BY <1>2, NothingYet, SnapMembers
  <2>3. ps[s].acceptedEpoch # m.epoch /\ ps[s].acceptedEpoch <= ps[s].epoch
    BY <2>2 DEF Accepted, Sane, SaneCopy
  <2> QED
    BY <1>n, <1>t, <1>c, <2>1, <2>3 DEF Covers
<1>3. ASSUME NEW op \in Op, TryAcquire(s, op)
      PROVE  Covers(ps'[s], n)
  <2>1. ps'[s].acceptedEpoch = ps[s].acceptedEpoch /\ ps'[s].state = Append(ps[s].state, op)
    BY <1>3, AcquireEffect
  <2>2. Prefix(n.state, ps[s].state) => Prefix(n.state, Append(ps[s].state, op))
    BY <1>n, <1>t, PrefixAppend
  <2> QED
    BY <1>c, <2>1, <2>2 DEF Covers
<1>4. ASSUME NEW m \in msgs, ApplyAsFollower(s, m)
      PROVE  Covers(ps'[s], n)
  <2>1. /\ ps[s].epoch <= m.epoch /\ m.epoch \in Nat /\ m.nextIndex \in Nat
        /\ m.state \in Seq(Op) /\ m.type = "apply" /\ m \in Sent
    BY <1>4, ApplyEffect
  <2>2. CASE ps[s].acceptedEpoch # m.epoch /\ ps'[s].acceptedEpoch = m.epoch
    <3>1. ps[s].acceptedEpoch <= ps[s].epoch
      BY DEF Sane, SaneCopy
    <3> QED
      BY <1>n, <1>t, <1>c, <2>1, <2>2, <3>1 DEF Covers
  <2>3. CASE /\ ps[s].acceptedEpoch = m.epoch /\ ps[s].nextIndex < m.nextIndex
             /\ ps'[s].acceptedEpoch = m.epoch /\ ps'[s].state = m.state
    <3>1. Accepted(ps[s]) \in Snaps /\ [e |-> m.epoch, x |-> m.state] \in Snaps
      BY <2>1, SnapMembers
    <3>2. Comparable(ps[s].state, m.state)
      BY <2>3, <3>1 DEF OneLine, Accepted
    <3>3. ps[s].nextIndex = Len(ps[s].state) /\ m.nextIndex = Len(m.state)
      BY <2>1 DEF Sane, SaneCopy
    <3>4. Prefix(ps[s].state, m.state)
      BY <1>t, <2>1, <2>3, <3>2, <3>3, ShorterIsPrefix
    <3>5. Prefix(n.state, ps[s].state) => Prefix(n.state, m.state)
      BY <1>n, <1>t, <2>1, <3>4, PrefixTrans
    <3> QED
      BY <1>c, <2>3, <3>5 DEF Covers
  <2> QED
    BY <1>4, <2>2, <2>3, ApplyState
<1> QED
  <2>1. ps' # ps
    OBVIOUS
  <2>2. ~TryBecomeLeader(s) /\ (\A m \in releases[s] : ~Released(s, m)) /\ ~Flush(s)
    BY <2>1 DEF TryBecomeLeader, Released, Flush
  <2> QED
    BY <1>1, <1>2, <1>3, <1>4, <2>2 DEF ServerNext

(* A follower that answers has come to the state it was sent. *)
LEMMA AppliesIt ==
  ASSUME TypeOK, Sane, OneLine, NEW s \in Server, NEW m \in msgs, ApplyAsFollower(s, m)
  PROVE  Covers(ps'[s], m)
<1>t. ps[s].nextIndex \in Nat /\ ps[s].state \in Seq(Op)
  BY DEF TypeOK, State
<1>1. m.state \in Seq(Op) /\ m.type = "apply" /\ m \in Sent /\ m.nextIndex \in Nat
  BY ApplyEffect
<1>2. CASE ps'[s].acceptedEpoch = m.epoch /\ ps'[s].state = m.state
  <2>1. Prefix(m.state, m.state)
    BY <1>1, PrefixByElement, LenProperties
  <2> QED
    BY <1>2, <2>1 DEF Covers
<1>3. CASE /\ ps[s].acceptedEpoch = m.epoch /\ m.nextIndex <= ps[s].nextIndex
           /\ ps'[s] = ps[s]
  <2>1. Accepted(ps[s]) \in Snaps /\ [e |-> m.epoch, x |-> m.state] \in Snaps
    BY <1>1, SnapMembers
  <2>2. Comparable(m.state, ps[s].state)
    BY <1>3, <2>1 DEF OneLine, Accepted
  <2>3. ps[s].nextIndex = Len(ps[s].state) /\ m.nextIndex = Len(m.state)
    BY <1>1 DEF Sane, SaneCopy
  <2>4. Prefix(m.state, ps[s].state)
    BY <1>t, <1>1, <1>3, <2>2, <2>3, ShorterIsPrefix
  <2> QED
    BY <1>3, <2>4 DEF Covers
<1> QED
  BY <1>2, <1>3, ApplyState

(* What a server that crashes had sent is all it is known by. *)
LEMMA CrashSent ==
  ASSUME TypeOK, Owned, NEW s \in Server, Crash(s)
  PROVE  \A n \in Sent' : n.type # "apply" /\ n.by = s => n \in msgs
<1>1. /\ msgs' = msgs /\ waiting'[s] = {}
      /\ \A t \in Server \ {s} : waiting'[t] = waiting[t]
  BY CrashEffect
<1> SUFFICES ASSUME NEW n \in Held', n.type # "apply", n.by = s
             PROVE  FALSE
  BY <1>1 DEF Sent
<1>2. PICK t \in Server : n \in waiting'[t]
  BY DEF Held
<1>3. t # s /\ n \in waiting[t]
  BY <1>1, <1>2
<1> QED
  BY <1>3 DEF Owned

(* Every step keeps what answers promise. *)
LEMMA AppliedCoveredStep ==
  ASSUME TypeOK, Owned, Sane, VotesBind, LeadersElected, AcceptedAfterElection, OneLine, LeaderAhead,
         AppliedCovered, [Next]_vars
  PROVE  AppliedCovered'
<1> DEFINE
      Came(M)       == \A a \in M : a.type = "applied" =>
                         a.req \in msgs' /\ a.req.type = "apply" /\ Covers(ps'[a.by], a.req)
      Wrote(M)      == \A a \in M : a.type = "applied" => Covers(disk'[a.by], a.req)
      Waits(M)      == \A a \in M : a.type = "applied" => disk'[a.by].epoch <= a.req.epoch
      Told(M, N)    == \A a \in M, v \in N :
                         (a.type = "applied" /\ v.type = "vote" /\ a.by = v.by /\ a.req.epoch < v.req.epoch)
                           => Covers(v, a.req)
<1>0. SUFFICES Came(Sent') /\ Wrote(msgs') /\ Waits(Held') /\ Told(Sent', Sent')
  BY DEF AppliedCovered, Covers, Prefix
<1>a. /\ \A a \in Sent : a.type = "applied" => a.req \in msgs /\ a.req.type = "apply" /\ Covers(ps[a.by], a.req)
      /\ \A a \in msgs : a.type = "applied" => Covers(disk[a.by], a.req)
      /\ \A a \in Held : a.type = "applied" => disk[a.by].epoch <= a.req.epoch
      /\ Told(Sent, Sent)
  BY DEF AppliedCovered
<1>g. msgs \subseteq msgs'
  BY MsgsGrow
<1>b. \A a \in Sent : a.type = "applied" => a.by \in Server /\ a.req \in Sent
  BY <1>a, SentMessages, MessageKind DEF AppliedMsg
<1>k. ASSUME NEW s \in Server, ServerNext(s), ~Crash(s)
      PROVE  Came(Sent)
  BY <1>a, <1>b, <1>g, <1>k, CoversKept
<1>1. ASSUME NEW s \in Server, NEW m \in msgs, EnterNewEpoch(s, m), ~Crash(s)
      PROVE  <1>0!1
  <2>1. PICK v \in VoteMsg :
          /\ v.by = s /\ v.type = "vote" /\ v.acceptedEpoch = ps[s].acceptedEpoch /\ v.state = ps[s].state
          /\ Held' = Held \cup {v} /\ Sent' = Sent \cup {v}
    BY <1>1, EnterEffect
  <2>2. disk' = disk /\ msgs' = msgs /\ ServerNext(s)
    BY <1>1, EnterEffect DEF ServerNext
  <2>4. Came(Sent')
    BY <1>k, <1>1, <2>1, <2>2
  <2>3. \A a \in Sent : a.type = "applied" /\ a.by = s => Covers(v, a.req)
    BY <1>a, <2>1 DEF Covers
  <2>5. Told(Sent', Sent')
    BY <1>a, <2>1, <2>3
  <2> QED
    BY <1>a, <2>1, <2>2, <2>4, <2>5
<1>2. ASSUME NEW s \in Server, ServerNext(s), ~Crash(s), disk' = disk,
             \A n \in msgs' : n \in msgs \/ n.type \notin {"vote", "applied"},
             \A n \in Held' : n \in Held \/ n.type \notin {"vote", "applied"}
      PROVE  <1>0!1
  <2>1. \A n \in Sent' : n \in Sent \/ n.type \notin {"vote", "applied"}
    BY <1>2 DEF Sent
  <2>2. Came(Sent')
    BY <1>k, <1>2, <2>1
  <2>3. Told(Sent', Sent')
    BY <1>a, <2>1
  <2> QED
    BY <1>a, <1>2, <2>2, <2>3
<1>3. ASSUME NEW s \in Server, ServerNext(s), ~Crash(s),
             \/ \E m, V : BecomeLeader(s, m, V)
             \/ \E op \in Op : TryAcquire(s, op)
             \/ TryBecomeLeader(s)
             \/ \E m \in releases[s] : Released(s, m)
      PROVE  <1>0!1
  <2>1. CASE \E m, V : BecomeLeader(s, m, V)
    <3>1. disk' = disk /\ msgs' = msgs /\ Held' = Held
      BY <2>1, BecomeEffect
    <3> QED
      BY <1>2, <1>3, <3>1
  <2>2. CASE \E op \in Op : TryAcquire(s, op)
    <3>1. disk' = disk /\ msgs' = msgs /\ \E m : m.type = "apply" /\ Held' = Held \cup {m}
      BY <2>2, AcquireEffect
    <3> QED
      BY <1>2, <1>3, <3>1
  <2>3. CASE TryBecomeLeader(s) \/ \E m \in releases[s] : Released(s, m)
    <3>1. disk' = disk /\ Held' = Held /\ \A n \in msgs' : n \notin msgs => n.type = "enter"
      BY <2>3, QuietEffect
    <3> QED
      BY <1>2, <1>3, <3>1
  <2> QED
    BY <1>3, <2>1, <2>2, <2>3
<1>4. ASSUME NEW s \in Server, NEW m \in msgs, ApplyAsFollower(s, m), ~Crash(s)
      PROVE  <1>0!1
  <2>1. PICK a \in AppliedMsg :
          /\ a.by = s /\ a.req = m /\ a.type = "applied"
          /\ Held' = Held \cup {a} /\ Sent' = Sent \cup {a}
    BY <1>4, ApplyEffect
  <2>2. /\ disk' = disk /\ msgs' = msgs /\ ServerNext(s)
        /\ ps[s].epoch <= m.epoch /\ m.epoch \in Nat /\ m.type = "apply"
    BY <1>4, ApplyEffect DEF ServerNext
  <2>3. Covers(ps'[s], m)
    BY <1>4, AppliesIt
  <2>4. Came(Sent')
    BY <1>k, <1>4, <2>1, <2>2, <2>3
  <2>5. /\ ps[s].epoch \in Nat /\ disk[s].epoch \in Nat /\ disk[s].epoch <= ps[s].epoch
        /\ \A v \in Sent : v.type = "vote" => v.req.epoch \in Nat /\ ps[v.by].epoch >= v.req.epoch
    BY SentMessages, MessageKind DEF TypeOK, State, Sane, VotesBind, VoteMsg, EnterMsg
  <2>6. Waits(Held')
    BY <1>a, <2>1, <2>2, <2>5
  <2>7. \A v \in Sent : v.type = "vote" /\ v.by = s => ~(m.epoch < v.req.epoch)
    BY <2>2, <2>5
  <2>8. Told(Sent', Sent')
    BY <1>a, <2>1, <2>7
  <2> QED
    BY <1>a, <2>2, <2>4, <2>6, <2>8
<1>5. ASSUME NEW s \in Server, Flush(s)
      PROVE  <1>0!1
  <2>1. /\ Sent' \subseteq Sent /\ Held' \subseteq Held
        /\ msgs' = msgs \cup waiting[s] /\ waiting'[s] = {}
        /\ disk'[s] = ps[s] /\ ps' = ps
        /\ \A t \in Server \ {s} : waiting'[t] = waiting[t] /\ disk'[t] = disk[t]
    BY <1>5, FlushEffect
  <2>2. Came(Sent') /\ Told(Sent', Sent')
    BY <1>a, <1>g, <2>1
  <2>3. \A a \in waiting[s] : a.type = "applied" => a.by = s /\ a \in Sent
    BY SentMessages DEF Owned
  <2>4. Wrote(msgs')
    BY <1>a, <1>b, <2>1, <2>3 DEF Sent
  <2>5. \A a \in Held' : a.type = "applied" => a.by \in Server \ {s}
    BY <1>b, <2>1, SentMessages DEF Owned, Held
  <2>6. Waits(Held')
    BY <1>a, <2>1, <2>5
  <2> QED
    BY <2>2, <2>4, <2>6
<1>6. ASSUME NEW s \in Server, Crash(s)
      PROVE  <1>0!1
  <2>1. /\ Sent' \subseteq Sent /\ Held' \subseteq Held
        /\ msgs' = msgs /\ disk' = disk /\ ps'[s] = disk[s]
        /\ \A t \in Server \ {s} : ps'[t] = ps[t]
    BY <1>6, CrashEffect
  <2>2. \A n \in Sent' : n.type = "applied" /\ n.by = s => n \in msgs
    BY <1>6, CrashSent
  <2>3. Came(Sent')
    BY <1>a, <1>b, <2>1, <2>2
  <2> QED
    BY <1>a, <2>1, <2>3
<1>7. CASE UNCHANGED vars
  <2>1. ps' = ps /\ disk' = disk /\ msgs' = msgs /\ Held' = Held /\ Sent' = Sent
    BY <1>7 DEF vars, Sent, Held
  <2> QED
    BY <1>a, <2>1
<1> QED
  BY <1>1, <1>3, <1>4, <1>5, <1>6, <1>7 DEF Next, ServerNext

-----------------------------------------------------------------------------
(* Across epochs                                                             *)

(* No file goes back to an earlier epoch. *)
LEMMA DiskGrows ==
  ASSUME TypeOK, Sane, [Next]_vars
  PROVE  \A b \in Server : disk[b].epoch <= disk'[b].epoch
<1>1. \A b \in Server : disk[b].epoch \in Nat /\ ps[b].epoch \in Nat /\ disk[b].epoch <= ps[b].epoch
  BY DEF TypeOK, State, Sane
<1>2. ASSUME NEW s \in Server, Flush(s)
      PROVE  \A b \in Server : disk[b].epoch <= disk'[b].epoch
  BY <1>1, <1>2, FlushEffect
<1>3. ASSUME disk' = disk
      PROVE  \A b \in Server : disk[b].epoch <= disk'[b].epoch
  BY <1>1, <1>3
<1>4. ASSUME NEW s \in Server, ServerNext(s), ~Flush(s)
      PROVE  disk' = disk
  BY <1>4 DEF ServerNext, TryBecomeLeader, EnterNewEpoch, ApplyAsFollower, BecomeLeader,
              TryAcquire, Released, Crash
<1>5. CASE UNCHANGED vars
  BY <1>3, <1>5 DEF vars
<1> QED
  BY <1>2, <1>3, <1>4, <1>5 DEF Next

(* What can no longer be applied by a majority stays so. *)
LEMMA ChoosableShrinks ==
  ASSUME TypeOK, Owned, Sane, AppliedCovered, [Next]_vars, NEW m \in ApplyMsg, Choosable(m)'
  PROVE  Choosable(m)
<1> DEFINE Q == {b \in Server : b \in Appliers(m) \/ disk[b].epoch <= m.epoch}
           R == {b \in Server : b \in Appliers(m)' \/ disk'[b].epoch <= m.epoch}
<1>1. Majority(R)
  BY DEF Choosable, Majority
<1>2. m.epoch \in Nat /\ \A b \in Server : disk[b].epoch \in Nat /\ disk'[b].epoch \in Nat
  BY TypeStep DEF TypeOK, State, ApplyMsg
<1>3. \A a \in msgs' : a.type = "applied" => a \in msgs \/ a \in Held
  <2>1. ASSUME NEW s \in Server, Flush(s)
        PROVE  \A a \in msgs' : a \in msgs \/ a \in Held
    BY <2>1, FlushEffect, SentMessages DEF Held
  <2>2. ASSUME NEW s \in Server, TryBecomeLeader(s)
        PROVE  \A a \in msgs' : a.type = "applied" => a \in msgs
    BY <2>2, QuietEffect
  <2>3. ASSUME NEW s \in Server, ServerNext(s), ~Flush(s), ~TryBecomeLeader(s)
        PROVE  msgs' = msgs
    BY <2>3 DEF ServerNext, EnterNewEpoch, ApplyAsFollower, BecomeLeader, TryAcquire, Released,
                Crash, AfterWrite
  <2>4. CASE UNCHANGED vars
    BY <2>4 DEF vars
  <2> QED
    BY <2>1, <2>2, <2>3, <2>4 DEF Next
<1>4. ASSUME NEW b \in Server, b \in Appliers(m)'
      PROVE  b \in Appliers(m) \/ disk[b].epoch <= m.epoch
  <2>1. PICK a \in msgs' : a.type = "applied" /\ a.req = m /\ a.by = b
    BY <1>4 DEF Appliers
  <2>2. CASE a \in msgs
    BY <2>1, <2>2 DEF Appliers
  <2>3. CASE a \in Held
    BY <2>1, <2>3 DEF AppliedCovered
  <2> QED
    BY <1>3, <2>1, <2>2, <2>3
<1>5. R \in SUBSET Q
  BY <1>2, <1>4, DiskGrows
<1>6. Q \in SUBSET Server
  OBVIOUS
<1> HIDE DEF Q, R
<1>7. Majority(Q)
  BY <1>1, <1>5, <1>6, MajorityGrows
<1> QED
  BY <1>7 DEF Choosable, Q

(* Of the voters of a later epoch, those that may have m applied it before.  *)
LEMMA AppliedBefore ==
  ASSUME TypeOK, VotesBind, AppliedCovered, NEW m \in ApplyMsg,
         NEW v \in msgs, v.type = "vote", v.req.epoch > m.epoch,
         v.by \in {b \in Server : b \in Appliers(m) \/ disk[b].epoch <= m.epoch}
  PROVE  m \in msgs /\ Covers(v, m)
<1>1. v \in VoteMsg
  BY MessageKind DEF TypeOK
<1>2. disk[v.by].epoch \in Nat /\ v.req.epoch \in Nat /\ m.epoch \in Nat
  BY <1>1 DEF TypeOK, State, VoteMsg, EnterMsg, ApplyMsg
<1>3. disk[v.by].epoch >= v.req.epoch
  BY DEF VotesBind
<1>4. v.by \in Appliers(m)
  BY <1>2, <1>3
<1>5. PICK a \in msgs : a.type = "applied" /\ a.req = m /\ a.by = v.by
  BY <1>4 DEF Appliers
<1>6. a \in Sent /\ v \in Sent
  BY DEF Sent
<1> QED
  BY <1>2, <1>5, <1>6 DEF AppliedCovered

(* What was not sent before a later epoch was elected will not be chosen.    *)
LEMMA ChosenBefore ==
  ASSUME TypeOK, VotesBind, AcceptedAfterElection, AppliedCovered,
         NEW m \in ApplyMsg, Choosable(m), NEW q \in Snaps, q.e > m.epoch
  PROVE  m \in msgs
<1> DEFINE Q == {b \in Server : b \in Appliers(m) \/ disk[b].epoch <= m.epoch}
<1>1. m.epoch \in Nat /\ q.e \in Nat
  BY SnapTypes DEF ApplyMsg
<1>2. PICK n \in msgs : Elected(n) /\ n.epoch = q.e
  BY <1>1 DEF AcceptedAfterElection
<1>3. Majority(Q) /\ Q \in SUBSET Server
  BY DEF Choosable
<1> HIDE DEF Q
<1>4. PICK b \in Server : b \in Q /\ b \in Voters(n)
  BY <1>2, <1>3, VotersAreServers, MajoritiesMeet DEF Elected
<1>5. PICK v \in msgs : v.type = "vote" /\ v.req = n /\ v.by = b
  BY <1>4 DEF Voters
<1> QED
  BY <1>2, <1>4, <1>5, AppliedBefore DEF Q

(* The state a new leader starts from has whatever may be acknowledged.      *)
LEMMA NewLeaderSafe ==
  ASSUME TypeOK, Owned, Sane, VotesBind, OneLine, AppliedCovered, Safe,
         NEW s \in Server, NEW n, NEW V, BecomeLeader(s, n, V),
         NEW m \in msgs, m.type = "apply", Choosable(m), n.epoch > m.epoch,
         NEW v \in Latest(V)
  PROVE  Prefix(m.state, v.state)
<1> DEFINE Q == {b \in Server : b \in Appliers(m) \/ disk[b].epoch <= m.epoch}
<1>1. m \in ApplyMsg /\ m.epoch \in Nat /\ m.state \in Seq(Op)
  BY MessageKind DEF TypeOK, ApplyMsg
<1>2. Majority(Q) /\ Q \in SUBSET Server
  BY DEF Choosable
<1> HIDE DEF Q
<1>3. V \subseteq msgs /\ \A u \in V : u \in VoteMsg /\ u.type = "vote" /\ u.req = n
  BY BecomeVotes
<1>4. PICK u \in V : u.by \in Q
  BY <1>2, BecomeVotes
<1>5. Covers(u, m)
  BY <1>1, <1>3, <1>4, AppliedBefore DEF Q
<1>6. /\ v \in V
      /\ \/ u.acceptedEpoch < v.acceptedEpoch
         \/ u.acceptedEpoch = v.acceptedEpoch /\ u.nextIndex <= v.nextIndex
  BY DEF Latest
<1>7. \A w \in {u, v} : /\ w.acceptedEpoch \in Nat /\ w.state \in Seq(Op) /\ w.nextIndex = Len(w.state)
                        /\ Accepted(w) \in Snaps
  BY <1>3, <1>6, SnapMembers DEF VoteMsg, Sane, Sent
<1>8. CASE v.acceptedEpoch > m.epoch
  BY <1>7, <1>8 DEF Safe, Accepted
<1>9. CASE u.acceptedEpoch = m.epoch /\ v.acceptedEpoch = m.epoch /\ u.nextIndex <= v.nextIndex
           /\ Prefix(m.state, u.state)
  <2>1. Comparable(u.state, v.state)
    BY <1>7, <1>9 DEF OneLine, Accepted
  <2>2. Prefix(u.state, v.state)
    BY <1>7, <1>9, <2>1, ShorterIsPrefix
  <2> QED
    BY <1>1, <1>7, <1>9, <2>2, PrefixTrans
<1> QED
  BY <1>1, <1>5, <1>6, <1>7, <1>8, <1>9 DEF Covers

(* Every step keeps what may be acknowledged in everything accepted later.   *)
LEMMA SafeStep ==
  ASSUME TypeOK, Owned, Sane, VotesBind, LeadersElected, AcceptedAfterElection, OneLine, LeaderAhead,
         AppliedCovered, Safe, [Next]_vars
  PROVE  Safe'
<1>1. SUFFICES ASSUME NEW m \in msgs', m.type = "apply", Choosable(m)',
                      NEW q \in Snaps', q.e > m.epoch
               PROVE  Prefix(m.state, q.x)
  BY DEF Safe, Prefix
<1>2. m \in ApplyMsg /\ m.epoch \in Nat /\ m.state \in Seq(Op)
  <2>1. m \in Message
    BY TypeStep DEF TypeOK
  <2> QED
    BY <1>1, <2>1, MessageKind DEF ApplyMsg
<1>3. Choosable(m)
  BY <1>1, <1>2, ChoosableShrinks
<1>4. CASE q \in Snaps
  BY <1>1, <1>2, <1>3, <1>4, ChosenBefore DEF Safe
<1>5. ASSUME NEW s \in Server, q = Accepted(ps'[s]), NEW n, NEW V, BecomeLeader(s, n, V), ps' # ps
      PROVE  Prefix(m.state, q.x)
  <2>1. msgs' = msgs
    BY <1>5, BecomeEffect
  <2>2. PICK v \in Latest(V) : ps'[s].acceptedEpoch = n.epoch /\ ps'[s].state = v.state
    BY <1>5, BecomeEffect
  <2>3. q.e = n.epoch /\ q.x = v.state
    BY <1>5, <2>2 DEF Accepted
  <2> QED
    BY <1>1, <1>3, <1>5, <2>1, <2>3, NewLeaderSafe
<1>6. ASSUME NEW s \in Server, q = Accepted(ps'[s]), NEW op \in Op, TryAcquire(s, op)
      PROVE  Prefix(m.state, q.x)
  <2>1. /\ msgs' = msgs /\ ps'[s].acceptedEpoch = ps[s].acceptedEpoch
        /\ ps'[s].state = Append(ps[s].state, op)
    BY <1>6, AcquireEffect
  <2>2. Accepted(ps[s]) \in Snaps /\ ps[s].acceptedEpoch > m.epoch /\ q.x = Append(ps[s].state, op)
    BY <1>1, <1>6, <2>1, SnapMembers DEF Accepted
  <2>3. Prefix(m.state, ps[s].state) /\ ps[s].state \in Seq(Op)
    BY <1>1, <1>3, <2>1, <2>2 DEF Safe, Accepted, TypeOK, State
  <2> QED
    BY <1>2, <2>2, <2>3, PrefixAppend
<1>7. ASSUME NEW s \in Server, q = Accepted(ps'[s]), ps' = ps
      PROVE  q \in Snaps
  BY <1>7, SnapMembers
<1> QED
  BY <1>4, <1>5, <1>6, <1>7, NewSnaps

-----------------------------------------------------------------------------
(* What has been acknowledged                                                *)

(* Only servers answer. *)
LEMMA AppliersAreServers ==
  ASSUME TypeOK
  PROVE  \A m : Appliers(m) \in SUBSET Server
BY MessageKind DEF Appliers, TypeOK, AppliedMsg

(* Of a finite set of servers, a majority has somebody. *)
LEMMA MajorityHasOne ==
  ASSUME NEW Q \in SUBSET Server, Majority(Q)
  PROVE  Q # {}
<1>1. Cardinality(Server) \in Nat
  BY PaxosAssumption, FS_CardinalityType
<1>2. Cardinality({}) = 0
  BY FS_EmptySet
<1> QED
  BY <1>1, <1>2 DEF Majority

(* Every step keeps what was acknowledged applied by a majority.             *)
LEMMA AckedAppliedStep ==
  ASSUME TypeOK, Owned, AppliedCovered, AckedApplied, [Next]_vars
  PROVE  AckedApplied'
<1>1. TypeOK' /\ msgs \subseteq msgs'
  BY TypeStep, MsgsGrow
<1>2. \A m : Appliers(m) \in SUBSET Server
  BY AppliersAreServers
<1>3. ASSUME NEW m, Majority(Appliers(m))
      PROVE  Majority(Appliers(m)')
  <2>1. \A a \in msgs' : a.type = "applied" => a.by \in Server
    BY <1>1, MessageKind DEF TypeOK, AppliedMsg
  <2>2. Appliers(m)' \in SUBSET Server
    BY <2>1 DEF Appliers
  <2>3. Appliers(m) \in SUBSET (Appliers(m)')
    BY <1>1 DEF Appliers
  <2> QED
    BY <1>3, <2>2, <2>3, MajorityGrows
<1>4. ASSUME acked' = acked
      PROVE  AckedApplied'
  BY <1>1, <1>3, <1>4 DEF AckedApplied, Majority
<1>5. ASSUME NEW s \in Server, NEW m \in releases[s], Released(s, m)
      PROVE  AckedApplied'
  <2>1. Majority(Appliers(m)) /\ acked' = acked \cup {m}
    BY <1>5 DEF Released, Appliers
  <2>2. PICK b : b \in Appliers(m)
    BY <1>2, <2>1, MajorityHasOne
  <2>3. PICK a \in msgs : a.type = "applied" /\ a.req = m
    BY <2>2 DEF Appliers
  <2>4. m \in msgs
    BY <2>3 DEF AppliedCovered, Sent
  <2>5. \A n \in acked' : n \in msgs' /\ Majority(Appliers(n)')
    BY <1>1, <1>3, <2>1, <2>4 DEF AckedApplied
  <2>6. \A n \in acked' : n.nextIndex \in Nat
    BY <1>1 DEF TypeOK, ApplyMsg
  <2>7. \E n \in acked' : \A k \in acked' : k.nextIndex <= n.nextIndex
    <3>1. CASE acked = {}
      BY <2>1, <2>6, <3>1
    <3>2. CASE acked # {}
      <4>1. PICK n \in acked : \A k \in acked : k.nextIndex <= n.nextIndex
        BY <3>2 DEF AckedApplied
      <4>2. CASE m.nextIndex <= n.nextIndex
        BY <2>1, <4>1, <4>2
      <4>3. CASE ~(m.nextIndex <= n.nextIndex)
        BY <2>1, <2>6, <4>1, <4>3
      <4> QED
        BY <4>2, <4>3
    <3> QED
      BY <3>1, <3>2
  <2> QED
    BY <2>5, <2>7 DEF AckedApplied, Majority
<1>6. ASSUME NEW s \in Server, ServerNext(s), \A m \in releases[s] : ~Released(s, m)
      PROVE  acked' = acked
  BY <1>6 DEF ServerNext, TryBecomeLeader, EnterNewEpoch, ApplyAsFollower, BecomeLeader,
              TryAcquire, Flush, Crash
<1>7. CASE UNCHANGED vars
  BY <1>4, <1>7 DEF vars
<1> QED
  BY <1>4, <1>5, <1>6, <1>7 DEF Next

-----------------------------------------------------------------------------
(* The theorems                                                              *)

(* The invariant holds when the servers are made. *)
LEMMA InitInv == Init => IInv
<1> SUFFICES ASSUME Init PROVE IInv
  OBVIOUS
<1>1. /\ msgs = {} /\ acked = {} /\ disk = ps /\ crashes = 0
      /\ \A s \in Server : waiting[s] = {} /\ tries[s] = {} /\ releases[s] = {}
      /\ \A s \in Server : /\ ps[s].epoch = 0 /\ ps[s].acceptedEpoch = 0 /\ ps[s].nextIndex = 0
                           /\ ps[s].state = <<>> /\ ~ps[s].isLeader
  BY DEF Init
<1>2. TypeOK
  <2>1. [epoch |-> 0, acceptedEpoch |-> 0, nextIndex |-> 0, state |-> <<>>, isLeader |-> FALSE] \in State
    BY EmptySeq DEF State
  <2> QED
    BY <2>1 DEF Init, TypeOK
<1>3. Sent = {} /\ Held = {}
  BY <1>1 DEF Sent, Held
<1>4. Owned
  <2>1. \A s \in Server : Started(s) = {}
    BY <1>1 DEF Started
  <2> QED
    BY <1>1, <2>1, FS_EmptySet DEF Owned
<1>5. Sane
  <2>1. Len(<<>>) = 0
    BY EmptySeq
  <2> QED
    BY <1>1, <1>3, <2>1 DEF Sane, SaneCopy
<1>6. \A q \in Snaps : q.e = 0 /\ q.x = <<>>
  BY <1>1, SnapsAreThese DEF SnapsAre, IsSnap, Accepted
<1>7. VotesBind /\ LeadersElected /\ AcceptedAfterElection
  BY <1>1, <1>3, <1>6 DEF VotesBind, LeadersElected, AcceptedAfterElection
<1>8. OneLine
  <2>1. <<>> \in Seq(Op)
    BY EmptySeq
  <2>2. Prefix(<<>>, <<>>)
    BY <2>1, PrefixEmpty
  <2> QED
    BY <1>6, <2>2 DEF OneLine, Comparable
<1>9. LeaderAhead /\ AppliedCovered /\ Safe /\ AckedApplied
  BY <1>1, <1>3 DEF LeaderAhead, AppliedCovered, Safe, AckedApplied
<1> QED
  BY <1>2, <1>4, <1>5, <1>7, <1>8, <1>9 DEF IInv

(* Every step keeps it. *)
LEMMA NextInv == IInv /\ [Next]_vars => IInv'
<1> SUFFICES ASSUME IInv, [Next]_vars PROVE IInv'
  OBVIOUS
<1>1. TypeOK /\ Owned /\ Sane /\ VotesBind /\ LeadersElected /\ AcceptedAfterElection /\ OneLine
      /\ LeaderAhead /\ AppliedCovered /\ Safe /\ AckedApplied
  BY DEF IInv
<1>2. TypeOK' /\ Owned' /\ Sane'
  BY <1>1, TypeStep, OwnedStep, SaneStep
<1>3. VotesBind' /\ LeadersElected' /\ AcceptedAfterElection'
  BY <1>1, VotesBindStep, LeadersElectedStep, AcceptedAfterElectionStep
<1>4. OneLine' /\ LeaderAhead'
  BY <1>1, OneLineStep, LeaderAheadStep
<1>5. AppliedCovered' /\ Safe' /\ AckedApplied'
  BY <1>1, AppliedCoveredStep, SafeStep, AckedAppliedStep
<1> QED
  BY <1>2, <1>3, <1>4, <1>5 DEF IInv

(* The invariant of vrsm/paxos: votes bind, an epoch has one leader and one  *)
(* line of states, and what a majority applied is in everything later.       *)
THEOREM PaxosInvariant == Spec => []IInv
BY InitInv, NextInv, PTL DEF Spec

(* Two servers never both take themselves for the leader of one epoch.       *)
THEOREM OneLeaderAlways == Spec => []OneLeaderPerEpoch
<1>1. IInv => OneLeaderPerEpoch
  BY OneLeader DEF IInv, OneLeaderPerEpoch
<1> QED
  BY <1>1, PaxosInvariant, PTL

(* Epoch and index say which state a server holds, in memory and in its file. *)
THEOREM SameIndexAlways == Spec => []SameIndexSameState
<1>1. IInv => SameIndexSameState
  <2> SUFFICES ASSUME IInv, NEW p \in Copies, NEW q \in Copies,
                      p.acceptedEpoch = q.acceptedEpoch, p.nextIndex <= q.nextIndex
               PROVE  Prefix(p.state, q.state)
    BY DEF SameIndexSameState
  <2>1. \A c \in Copies : /\ c.state \in Seq(Op) /\ c.nextIndex = Len(c.state)
                          /\ Accepted(c) \in Snaps
    BY SnapMembers DEF IInv, Copies, TypeOK, State, Sane, SaneCopy
  <2>2. Comparable(p.state, q.state)
    BY <2>1 DEF IInv, OneLine, Accepted
  <2> QED
    BY <2>1, <2>2, ShorterIsPrefix
<1> QED
  BY <1>1, PaxosInvariant, PTL

(* What has been acknowledged may be chosen, and is a message. *)
LEMMA AckedChoosable ==
  ASSUME IInv
  PROVE  \A m \in acked : /\ m \in msgs /\ m \in ApplyMsg /\ m.type = "apply" /\ m.epoch \in Nat
                          /\ m.state \in Seq(Op) /\ m.nextIndex = Len(m.state)
                          /\ [e |-> m.epoch, x |-> m.state] \in Snaps /\ Choosable(m)
<1> SUFFICES ASSUME NEW m \in acked
             PROVE  /\ m \in msgs /\ m \in ApplyMsg /\ m.type = "apply" /\ m.epoch \in Nat
                    /\ m.state \in Seq(Op) /\ m.nextIndex = Len(m.state)
                    /\ [e |-> m.epoch, x |-> m.state] \in Snaps /\ Choosable(m)
  OBVIOUS
<1>1. m \in msgs /\ m \in ApplyMsg /\ m \in Sent /\ Majority(Appliers(m))
  BY DEF IInv, AckedApplied, TypeOK, Sent
<1>2. m.type = "apply" /\ m.epoch \in Nat /\ m.state \in Seq(Op)
  BY <1>1 DEF ApplyMsg
<1>3. m.nextIndex = Len(m.state) /\ [e |-> m.epoch, x |-> m.state] \in Snaps
  BY <1>1, <1>2, SnapMembers DEF IInv, Sane
<1> DEFINE Q == {b \in Server : b \in Appliers(m) \/ disk[b].epoch <= m.epoch}
<1>4. Q \in SUBSET Server /\ Appliers(m) \in SUBSET Q
  BY AppliersAreServers DEF IInv
<1> HIDE DEF Q
<1>5. Majority(Q)
  BY <1>1, <1>4, MajorityGrows
<1> QED
  BY <1>1, <1>2, <1>3, <1>5 DEF Choosable, Q

(* Whoever leads has all that was acknowledged before.                       *)
THEOREM LeaderHasAckedAlways == Spec => []LeaderHasAcked
<1>1. IInv => LeaderHasAcked
  <2> SUFFICES ASSUME IInv, NEW m \in acked, NEW s \in Server, ps[s].isLeader, ps[s].epoch >= m.epoch
               PROVE  Prefix(m.state, ps[s].state)
    BY DEF LeaderHasAcked
  <2>1. /\ m \in msgs /\ m.type = "apply" /\ m.epoch \in Nat
        /\ [e |-> m.epoch, x |-> m.state] \in Snaps /\ Choosable(m)
    BY AckedChoosable
  <2>2. ps[s].acceptedEpoch = ps[s].epoch /\ Accepted(ps[s]) \in Snaps /\ ps[s].epoch \in Nat
    BY SnapMembers DEF IInv, Sane, SaneCopy, TypeOK, State
  <2>3. CASE ps[s].epoch = m.epoch
    BY <2>1, <2>3 DEF IInv, LeaderAhead
  <2>4. CASE ps[s].epoch > m.epoch
    BY <2>1, <2>2, <2>4 DEF IInv, Safe, Accepted
  <2> QED
    BY <2>1, <2>2, <2>3, <2>4
<1> QED
  BY <1>1, PaxosInvariant, PTL

(* Of what has been acknowledged, the shorter is a prefix of the longer.     *)
LEMMA AckedInLine ==
  ASSUME IInv, NEW m \in acked, NEW n \in acked, m.nextIndex <= n.nextIndex
  PROVE  Prefix(m.state, n.state)
<1>1. \A k \in {m, n} : /\ k \in msgs /\ k.type = "apply" /\ k.epoch \in Nat
                        /\ k.state \in Seq(Op) /\ k.nextIndex = Len(k.state)
                        /\ [e |-> k.epoch, x |-> k.state] \in Snaps /\ Choosable(k)
  BY AckedChoosable
<1>2. m.epoch = n.epoch => Comparable(m.state, n.state)
  BY <1>1 DEF IInv, OneLine
<1>3. m.epoch < n.epoch => Comparable(m.state, n.state)
  BY <1>1 DEF IInv, Safe, Comparable
<1>4. n.epoch < m.epoch => Comparable(m.state, n.state)
  BY <1>1 DEF IInv, Safe, Comparable
<1>5. Comparable(m.state, n.state)
  BY <1>1, <1>2, <1>3, <1>4
<1> QED
  BY <1>1, <1>5, ShorterIsPrefix

Longest == /\ acked = {} => Acknowledged = <<>>
           /\ acked # {} => \E m \in acked : /\ Acknowledged = m.state
                                             /\ \A n \in acked : n.nextIndex <= m.nextIndex

(* The acknowledged log is the longest state acknowledged.                   *)
LEMMA AcknowledgedIs == IInv => Longest
<1> SUFFICES ASSUME IInv PROVE Longest
  OBVIOUS
<1>1. acked # {} => \E m \in acked : \A n \in acked : n.nextIndex <= m.nextIndex
  BY DEF IInv, AckedApplied
<1>2. acked # {} => LET m == CHOOSE k \in acked : \A n \in acked : n.nextIndex <= k.nextIndex
                    IN  m \in acked /\ \A n \in acked : n.nextIndex <= m.nextIndex
  BY <1>1
<1> QED
  BY <1>2 DEF Acknowledged, Longest

(* The same after a step. *)
LEMMA AcknowledgedIsThen == IInv' => Longest'
BY AcknowledgedIs, PTL

(* The same for all that has been acknowledged, *)
LEMMA AckedInLineNow == IInv => \A m, n \in acked : m.nextIndex <= n.nextIndex => Prefix(m.state, n.state)
BY AckedInLine

(* and after a step. *)
LEMMA AckedInLineThen == (IInv => \A m, n \in acked : m.nextIndex <= n.nextIndex => Prefix(m.state, n.state))'
BY AckedInLineNow, PTL

(* The servers keep one log: what is acknowledged extends what was, over all *)
(* elections and crashes.                                                    *)
THEOREM PaxosImplementsOneLog == Spec => ImplementsOneLog
<1>1. Init => AbstractLog!Init
  BY DEF Init, AbstractLog!Init, Acknowledged
<1>2. IInv /\ [Next]_vars => [AbstractLog!Next]_Acknowledged
  <2> SUFFICES ASSUME IInv, [Next]_vars, Acknowledged' # Acknowledged
               PROVE  AbstractLog!Next
    OBVIOUS
  <2>1. IInv' /\ Longest /\ Longest'
    BY NextInv, AcknowledgedIs, AcknowledgedIsThen
  <2>2. acked \subseteq acked'
    BY DEF Next, ServerNext, TryBecomeLeader, EnterNewEpoch, ApplyAsFollower, BecomeLeader,
           TryAcquire, Released, Flush, Crash, vars
  <2>3. Acknowledged \in Seq(Op) /\ Acknowledged' \in Seq(Op)
    <3>1. (\A m \in acked : m.state \in Seq(Op)) /\ \A m \in acked' : m.state \in Seq(Op)
      BY <2>1 DEF IInv, TypeOK, ApplyMsg
    <3> QED
      BY <2>1, <3>1, EmptySeq DEF Longest
  <2>4. Prefix(Acknowledged, Acknowledged')
    <3>1. CASE acked = {}
      <4>1. Acknowledged = <<>>
        BY <2>1, <3>1 DEF Longest
      <4> QED
        BY <2>3, <4>1, PrefixEmpty
    <3>2. CASE acked # {}
      <4>1. PICK m \in acked : Acknowledged = m.state
        BY <2>1, <3>2 DEF Longest
      <4>2. PICK n \in acked' : Acknowledged' = n.state /\ \A k \in acked' : k.nextIndex <= n.nextIndex
        BY <2>1, <2>2, <3>2 DEF Longest
      <4>3. \A k, l \in acked' : k.nextIndex <= l.nextIndex => Prefix(k.state, l.state)
        BY <2>1, AckedInLineThen DEF Prefix
      <4> QED
        BY <2>2, <4>1, <4>2, <4>3
    <3> QED
      BY <3>1, <3>2
  <2> QED
    BY <2>4 DEF AbstractLog!Next, AbstractLog!Extends, Prefix
<1> QED
  BY <1>1, <1>2, PaxosInvariant, PTL DEF Spec, ImplementsOneLog, AbstractLog!Spec
=============================================================================
