---------------------------- MODULE Transactions ----------------------------
(* What txn.v promises: "a full transaction interface on top of GoJournal".  *)
(* A transaction is one step of a store of objects, its reads and its writes *)
(* together, whatever else runs at the same time.  A crash ends every        *)
(* transaction under way and takes back the last ones to commit, none of     *)
(* them in part and none that has become durable.                            *)
EXTENDS Integers, Sequences, Functions

CONSTANTS Client, Obj, Value

VARIABLES
  states,    \* the store at first and after each transaction that wrote
  durable,   \* how many of these are on disk
  doing      \* what each client is at

txvars == <<states, durable, doing>>

Nothing == [o \in {} |-> 0]
Idle          == [at |-> "idle"]
Running(r, w) == [at |-> "running", reads |-> r, writes |-> w]
Waiting(n)    == [at |-> "waiting", target |-> n]

Now == states[Len(states)]

Init ==
  /\ states = << [o \in Obj |-> 0] >>
  /\ durable = 1
  /\ doing = [c \in Client |-> Idle]

Turn(c, d) == doing' = [doing EXCEPT ![c] = d]

Begin(c) ==
  /\ doing[c] = Idle
  /\ Turn(c, Running(Nothing, Nothing))
  /\ UNCHANGED <<states, durable>>

\* an object is read once, and never after it was written
Read(c, o) ==
  /\ doing[c].at = "running"
  /\ o \notin DOMAIN doing[c].reads \cup DOMAIN doing[c].writes
  /\ Turn(c, Running([x \in DOMAIN doing[c].reads \cup {o} |->
                        IF x = o THEN Now[o] ELSE doing[c].reads[x]], doing[c].writes))
  /\ UNCHANGED <<states, durable>>

Write(c, o) ==
  /\ doing[c].at = "running"
  /\ \E v \in Value :
       Turn(c, Running(doing[c].reads, [x \in DOMAIN doing[c].writes \cup {o} |->
                                          IF x = o THEN v ELSE doing[c].writes[x]]))
  /\ UNCHANGED <<states, durable>>

\* all it has read is so now
Current(c) == \A o \in DOMAIN doing[c].reads : doing[c].reads[o] = Now[o]

\* a caller that does not wait returns at once
Commit(c) ==
  /\ doing[c].at = "running" /\ Current(c)
  /\ states' = Append(states, [o \in Obj |-> IF o \in DOMAIN doing[c].writes
                                               THEN doing[c].writes[o] ELSE Now[o]])
  /\ Turn(c, Waiting(Len(states) + 1)) \/ Turn(c, Idle)
  /\ UNCHANGED durable

CommitReadOnly(c) ==
  /\ doing[c].at = "running" /\ doing[c].writes = Nothing /\ Current(c)
  /\ Turn(c, Idle)
  /\ UNCHANGED <<states, durable>>

Abort(c) ==
  /\ doing[c].at = "running"
  /\ Turn(c, Idle)
  /\ UNCHANGED <<states, durable>>

Return(c) ==
  /\ doing[c].at = "waiting" /\ doing[c].target <= durable
  /\ Turn(c, Idle)
  /\ UNCHANGED <<states, durable>>

Persist ==
  /\ durable' \in durable .. Len(states)
  /\ UNCHANGED <<doing, states>>

Crash ==
  \E n \in durable .. Len(states) :
    /\ durable' = n
    /\ doing' = [c \in Client |-> Idle]
    /\ states' = SubSeq(states, 1, n)

Next ==
  \/ Persist
  \/ Crash
  \/ \E c \in Client :
       \/ Begin(c) \/ Commit(c) \/ CommitReadOnly(c) \/ Abort(c) \/ Return(c)
       \/ \E o \in Obj : Read(c, o) \/ Write(c, o)

Spec == Init /\ [][Next]_txvars
=============================================================================
