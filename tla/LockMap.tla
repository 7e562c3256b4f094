------------------------------ MODULE LockMap ------------------------------
(* The sharded lock map of GoJournal (go_journal/lockmap.v).  A shard has a  *)
(* mutex and a map from the addresses somebody holds or waits for to their   *)
(* lock states; a lock state is created by the first Acquire of an address   *)
(* and dropped by the Release that finds nobody waiting.  A thread waits on  *)
(* the condition variable of the state it found, and looks the state up      *)
(* again when it wakes, so the identity of states is modelled: a dropped     *)
(* state's name is free for reuse once nobody refers to it.                  *)
(*                                                                           *)
(* A critical section is one step up to Wait; the step after Wait keeps the  *)
(* mutex for the next iteration of Acquire's loop.  As in Wal, a definition  *)
(* named Bad... is a wrong variant that nothing here uses.                   *)
EXTENDS Integers, FiniteSets

CONSTANTS
  Thread,
  Addr,           \* addresses (flat ids) in use
  NSHARD,         \* number of shards, 65537 in the code
  State           \* names for lock states; enough for every address and waiter

Free == "free"
Nil  == "nil"

ASSUME ThreadAssumption == Free \notin Thread
ASSUME FiniteAssumption == IsFiniteSet(Thread)
ASSUME AddrAssumption   == Addr \subseteq Nat /\ Addr # {}
ASSUME ShardAssumption  == NSHARD \in Nat \ {0}
ASSUME StateAssumption  == Nil \notin State

Shard == 0 .. NSHARD - 1
ShardOf(a) == a % NSHARD

VARIABLES
  mu,             \* the mutex of each shard
  state,          \* the maps of all shards: address -> lock state or Nil
  held, waiters, cond,   \* the fields of the lock states
  pc, arg, ptr,   \* each thread: where it is, its address, the state it waits on
  owned           \* the locks each thread has acquired and not released

stvars == <<held, waiters, cond>>
vars   == <<mu, state, stvars, pc, arg, ptr, owned>>

Enter(t) == mu[ShardOf(arg[t])] \in {t, Free}
Unlock(t) == mu' = [mu EXCEPT ![ShardOf(arg[t])] = Free]

Asleep(t) == pc[t] = "wait" /\ t \in cond[ptr[t]]

(* The names the garbage collector could hand out for a new lock state.      *)
Unused == { i \in State : /\ \A a \in Addr : state[a] # i
                          /\ \A t \in Thread : pc[t] = "wait" => ptr[t] # i }

Init ==
  /\ mu = [s \in Shard |-> Free]
  /\ state = [a \in Addr |-> Nil]
  /\ held = [i \in State |-> FALSE]
  /\ waiters = [i \in State |-> 0]
  /\ cond = [i \in State |-> {}]
  /\ pc = [t \in Thread |-> "idle"]
  /\ arg = [t \in Thread |-> CHOOSE a \in Addr : TRUE]
  /\ ptr = [t \in Thread |-> Nil]
  /\ owned = [t \in Thread |-> {}]

-----------------------------------------------------------------------------
(* A lock is not reentrant: txn.v asks only for what it has not acquired.    *)
CallAcquire(t, a) ==
  /\ pc[t] = "idle" /\ a \notin owned[t]
  /\ pc' = [pc EXCEPT ![t] = "acquire"]
  /\ arg' = [arg EXCEPT ![t] = a]
  /\ UNCHANGED <<mu, state, stvars, ptr, owned>>

Got(t, a) ==
  /\ owned' = [owned EXCEPT ![t] = @ \cup {a}]
  /\ pc' = [pc EXCEPT ![t] = "idle"]
  /\ Unlock(t)

(* The address has no lock state: make one and take it. *)
AcquireNew(t) ==
  LET a == arg[t] IN
  /\ pc[t] = "acquire" /\ Enter(t)
  /\ state[a] = Nil
  /\ \E i \in Unused :
       /\ state' = [state EXCEPT ![a] = i]
       /\ held' = [held EXCEPT ![i] = TRUE]
       /\ waiters' = [waiters EXCEPT ![i] = 0]
       /\ cond' = [cond EXCEPT ![i] = {}]
  /\ Got(t, a)
  /\ UNCHANGED <<arg, ptr>>

BadMayTake(i) == TRUE
MayTake(i) == ~held[i]

AcquireFree(t) ==
  LET a == arg[t] IN
  /\ pc[t] = "acquire" /\ Enter(t)
  /\ state[a] # Nil /\ MayTake(state[a])
  /\ held' = [held EXCEPT ![state[a]] = TRUE]
  /\ Got(t, a)
  /\ UNCHANGED <<state, waiters, cond, arg, ptr>>

AcquireWait(t) ==
  LET i == state[arg[t]] IN
  /\ pc[t] = "acquire" /\ Enter(t)
  /\ i # Nil /\ ~MayTake(i)
  /\ waiters' = [waiters EXCEPT ![i] = @ + 1]
  /\ cond' = [cond EXCEPT ![i] = @ \cup {t}]
  /\ ptr' = [ptr EXCEPT ![t] = i]
  /\ pc' = [pc EXCEPT ![t] = "wait"]
  /\ Unlock(t)
  /\ UNCHANGED <<state, held, arg, owned>>

(* After Wait: the state is looked up again, it need not be the one slept on. *)
AcquireWoken(t) ==
  LET i == state[arg[t]] IN
  /\ pc[t] = "wait" /\ ~Asleep(t) /\ Enter(t)
  /\ waiters' = IF i # Nil THEN [waiters EXCEPT ![i] = @ - 1] ELSE waiters
  /\ mu' = [mu EXCEPT ![ShardOf(arg[t])] = t]
  /\ pc' = [pc EXCEPT ![t] = "acquire"]
  /\ ptr' = [ptr EXCEPT ![t] = Nil]
  /\ UNCHANGED <<state, held, cond, arg, owned>>

-----------------------------------------------------------------------------
CallRelease(t, a) ==
  /\ pc[t] = "idle" /\ a \in owned[t]
  /\ pc' = [pc EXCEPT ![t] = "release"]
  /\ arg' = [arg EXCEPT ![t] = a]
  /\ UNCHANGED <<mu, state, stvars, ptr, owned>>

Released(t, a) ==
  /\ held' = [held EXCEPT ![state[a]] = FALSE]
  /\ owned' = [owned EXCEPT ![t] = @ \ {a}]
  /\ pc' = [pc EXCEPT ![t] = "idle"]
  /\ Unlock(t)

BadSignal(i) == UNCHANGED cond

(* Signal wakes one of the threads asleep, if there is one. *)
Signal(i) ==
  \/ cond[i] = {} /\ UNCHANGED cond
  \/ \E w \in cond[i] : cond' = [cond EXCEPT ![i] = @ \ {w}]

(* A drop that asks who sleeps and forgets the woken who are not back yet.   *)
BadWanted(i) == cond[i] # {}
Wanted(i) == waiters[i] > 0

ReleaseSignal(t) ==
  LET i == state[arg[t]] IN
  /\ pc[t] = "release" /\ Enter(t)
  /\ Wanted(i)
  /\ Signal(i)
  /\ Released(t, arg[t])
  /\ UNCHANGED <<state, waiters, arg, ptr>>

ReleaseDrop(t) ==
  LET i == state[arg[t]] IN
  /\ pc[t] = "release" /\ Enter(t)
  /\ ~Wanted(i)
  /\ state' = [state EXCEPT ![arg[t]] = Nil]
  /\ Released(t, arg[t])
  /\ UNCHANGED <<waiters, cond, arg, ptr>>

(* Wait of GooseLang may return with no Signal; no liveness relies on it.    *)
Wakeup(t) ==
  /\ Asleep(t)
  /\ cond' = [cond EXCEPT ![ptr[t]] = @ \ {t}]
  /\ UNCHANGED <<mu, state, held, waiters, pc, arg, ptr, owned>>

Step(t) ==
  \/ AcquireNew(t) \/ AcquireFree(t) \/ AcquireWait(t) \/ AcquireWoken(t)
  \/ ReleaseSignal(t) \/ ReleaseDrop(t)

Next ==
  \E t \in Thread :
    \/ \E a \in Addr : CallAcquire(t, a) \/ CallRelease(t, a)
    \/ Step(t)
    \/ Wakeup(t)

Spec == Init /\ [][Next]_vars

(* A mutex does not starve a waiter.  Nobody has to call anything. *)
FairSpec == Spec /\ \A t \in Thread : SF_vars(Step(t))

-----------------------------------------------------------------------------
(* Correctness. *)

TypeOK ==
  /\ mu \in [Shard -> Thread \cup {Free}]
  /\ state \in [Addr -> State \cup {Nil}]
  /\ held \in [State -> BOOLEAN]
  /\ waiters \in [State -> Int]
  /\ cond \in [State -> SUBSET Thread]
  /\ pc \in [Thread -> {"idle", "acquire", "wait", "release"}]
  /\ arg \in [Thread -> Addr]
  /\ ptr \in [Thread -> State \cup {Nil}]
  /\ owned \in [Thread -> SUBSET Addr]

(* Acquire and Release are those of a lock per address: exclusion, whatever  *)
(* states are created, dropped and found again on the way.                   *)
L == INSTANCE Locks
ImplementsLocks == L!Spec

(* The inductive invariant: each address in use has a lock state of its own, *)
(* held exactly when somebody owns the lock, and then one thread only.       *)
StatesDistinct == \A a, b \in Addr : state[a] # Nil /\ state[a] = state[b] => a = b

HeldIsOwned == \A a \in Addr : (state[a] # Nil /\ held[state[a]]) <=> ~L!IsFree(a)

ReleasesOwned == \A t \in Thread : pc[t] = "release" => arg[t] \in owned[t]

LockInv == TypeOK /\ StatesDistinct /\ HeldIsOwned /\ ReleasesOwned /\ L!Exclusive

(* The count of waiters is the number of threads between going to sleep and  *)
(* being back, all of them on the state the map has now; so no state is      *)
(* dropped under a waiter, and none is kept that nobody holds or wants.      *)
WaitingFor(a) == { t \in Thread : pc[t] = "wait" /\ arg[t] = a }

WaitersCounted ==
  \A a \in Addr :
    /\ \A t \in WaitingFor(a) : ptr[t] = state[a]
    /\ state[a] = Nil => WaitingFor(a) = {}
    /\ state[a] # Nil =>
         /\ waiters[state[a]] = Cardinality(WaitingFor(a))
         /\ held[state[a]] \/ waiters[state[a]] > 0 \/ mu[ShardOf(a)] # Free

(* What makes that inductive: a mutex is kept from one step to the next only  *)
(* by a woken thread, and only the state it woke up for may be without use.   *)
KeptByWoken ==
  \A s \in Shard : mu[s] # Free => pc[mu[s]] = "acquire" /\ ShardOf(arg[mu[s]]) = s

InUse(a) == held[state[a]] \/ waiters[state[a]] > 0
WokenFor(a) == mu[ShardOf(a)] # Free /\ arg[mu[ShardOf(a)]] = a

NoneLeftOver == \A a \in Addr : state[a] # Nil => InUse(a) \/ WokenFor(a)

CountInv == KeptByWoken /\ NoneLeftOver /\ WaitersCounted

Wants(t, a) == pc[t] \in {"acquire", "wait"} /\ arg[t] = a

(* While a lock is free, not all who want it are asleep: release signals one *)
(* of them, and a lock state is only dropped when nobody sleeps on it.       *)
NobodyForgotten ==
  \A a \in Addr :
    L!IsFree(a) /\ (\E t \in Thread : Wants(t, a)) => \E w \in Thread : Wants(w, a) /\ ~Asleep(w)

\* who is on the list of a condition variable sleeps there
SleepersWait == \A i \in State : \A t \in cond[i] : pc[t] = "wait" /\ ptr[t] = i

SignalInv == SleepersWait /\ NobodyForgotten

(* No wakeup is lost: a free lock that somebody wants is taken by somebody.  *)
(* (Not by everybody in turn: a newcomer may overtake a thread just woken.)  *)
WantedIsTaken ==
  \A a \in Addr :
    (L!IsFree(a) /\ \E t \in Thread : Wants(t, a)) ~> ~L!IsFree(a)
=============================================================================
