--------------------------- MODULE LockMapProofs ---------------------------
(* The lock map implements a lock per address, for every set of threads,     *)
(* addresses and lock states, and every number of shards.                    *)
EXTENDS LockMap, FiniteSetTheorems, TLAPS

(* A fresh lock map satisfies the invariant. *)
LEMMA InitInv == Init => LockInv
<1> SUFFICES ASSUME Init PROVE LockInv
  OBVIOUS
<1>1. TypeOK
  <2>1. (CHOOSE a \in Addr : TRUE) \in Addr
    BY AddrAssumption
  <2> QED
    BY <2>1 DEF Init, TypeOK
<1>2. StatesDistinct /\ ReleasesOwned /\ L!Exclusive
  BY DEF Init, StatesDistinct, ReleasesOwned, L!Exclusive
<1>3. HeldIsOwned
  BY DEF Init, HeldIsOwned, L!IsFree
<1> QED
  BY <1>1, <1>2, <1>3 DEF LockInv

(* Releasing the mutex of a shard leaves the mutexes typed. *)
LEMMA UnlockType ==
  ASSUME TypeOK, NEW t \in Thread, Unlock(t)
  PROVE  mu' \in [Shard -> Thread \cup {Free}]
BY DEF TypeOK, Unlock

(* So does getting a lock, and the rest of what it writes.                   *)
LEMMA GotType ==
  ASSUME TypeOK, NEW t \in Thread, Got(t, arg[t])
  PROVE  /\ mu' \in [Shard -> Thread \cup {Free}]
         /\ pc' \in [Thread -> {"idle", "acquire", "wait", "release"}]
         /\ owned' \in [Thread -> SUBSET Addr]
<1>1. owned' \in [Thread -> SUBSET Addr]
  BY DEF TypeOK, Got
<1>2. pc' \in [Thread -> {"idle", "acquire", "wait", "release"}]
  BY DEF TypeOK, Got
<1> QED
  BY <1>1, <1>2, UnlockType DEF Got

(* Every step keeps the types. *)
LEMMA TypeStep ==
  ASSUME LockInv, [Next]_vars
  PROVE  TypeOK'
<1>t. TypeOK
  BY DEF LockInv
<1>1. ASSUME NEW t \in Thread, NEW a \in Addr, CallAcquire(t, a) \/ CallRelease(t, a)
      PROVE  TypeOK'
  BY <1>t, <1>1 DEF TypeOK, CallAcquire, CallRelease, stvars
<1>2. ASSUME NEW t \in Thread, AcquireNew(t)
      PROVE  TypeOK'
  <2>1. PICK i \in Unused :
          /\ state' = [state EXCEPT ![arg[t]] = i]
          /\ held' = [held EXCEPT ![i] = TRUE]
          /\ waiters' = [waiters EXCEPT ![i] = 0]
          /\ cond' = [cond EXCEPT ![i] = {}]
    BY <1>2 DEF AcquireNew
  <2>2. i \in State /\ arg[t] \in Addr
    BY <1>t DEF Unused, TypeOK
  <2> QED
    BY <1>t, <1>2, <2>1, <2>2, GotType DEF TypeOK, AcquireNew
<1>3. ASSUME NEW t \in Thread, AcquireFree(t)
      PROVE  TypeOK'
  BY <1>t, <1>3, GotType DEF TypeOK, AcquireFree
<1>4. ASSUME NEW t \in Thread, AcquireWait(t)
      PROVE  TypeOK'
  <2> DEFINE i == state[arg[t]]
  <2>1. i \in State
    BY <1>t, <1>4 DEF TypeOK, AcquireWait
  <2>2. waiters' \in [State -> Int]
    BY <1>t, <1>4 DEF TypeOK, AcquireWait
  <2>3. cond' \in [State -> SUBSET Thread]
    BY <1>t, <1>4 DEF TypeOK, AcquireWait
  <2>4. ptr' \in [Thread -> State \cup {Nil}]
    BY <1>t, <1>4, <2>1 DEF TypeOK, AcquireWait
  <2> QED
    BY <1>t, <1>4, <2>2, <2>3, <2>4, UnlockType DEF TypeOK, AcquireWait
<1>5. ASSUME NEW t \in Thread, AcquireWoken(t)
      PROVE  TypeOK'
  <2>1. waiters' \in [State -> Int]
    <3>1. CASE state[arg[t]] = Nil
      BY <1>t, <1>5, <3>1 DEF TypeOK, AcquireWoken
    <3>2. CASE state[arg[t]] # Nil
      BY <1>t, <1>5, <3>2 DEF TypeOK, AcquireWoken
    <3> QED
      BY <3>1, <3>2
  <2>2. mu' \in [Shard -> Thread \cup {Free}]
    BY <1>t, <1>5 DEF TypeOK, AcquireWoken
  <2>3. /\ pc' \in [Thread -> {"idle", "acquire", "wait", "release"}]
        /\ ptr' \in [Thread -> State \cup {Nil}]
    BY <1>t, <1>5 DEF TypeOK, AcquireWoken
  <2> QED
    BY <1>t, <1>5, <2>1, <2>2, <2>3 DEF TypeOK, AcquireWoken
<1>6. ASSUME NEW t \in Thread, ReleaseSignal(t)
      PROVE  TypeOK'
  <2>1. cond' \in [State -> SUBSET Thread]
    BY <1>t, <1>6 DEF TypeOK, ReleaseSignal, Signal
  <2> QED
    BY <1>t, <1>6, <2>1 DEF TypeOK, ReleaseSignal, Released, Unlock
<1>7. ASSUME NEW t \in Thread, ReleaseDrop(t)
      PROVE  TypeOK'
  BY <1>t, <1>7 DEF TypeOK, ReleaseDrop, Released, Unlock
<1>8. ASSUME NEW t \in Thread, Wakeup(t)
      PROVE  TypeOK'
  BY <1>t, <1>8 DEF TypeOK, Wakeup
<1>9. CASE UNCHANGED vars
  BY <1>t, <1>9 DEF TypeOK, vars, stvars
<1> QED
  BY <1>1, <1>2, <1>3, <1>4, <1>5, <1>6, <1>7, <1>8, <1>9 DEF Next, Step

(* What Acquire does to the locks once it gets through, on a new state or on *)
(* one found free: the address was free, and now its state is held.          *)
LEMMA AcquireEffect ==
  ASSUME LockInv, NEW t \in Thread, AcquireNew(t) \/ AcquireFree(t)
  PROVE  /\ L!Acquire(t, arg[t])
         /\ StatesDistinct' /\ HeldIsOwned' /\ L!Exclusive'
<1> DEFINE a == arg[t]
<1>t. TypeOK /\ StatesDistinct /\ HeldIsOwned /\ L!Exclusive /\ a \in Addr
  BY DEF LockInv, TypeOK
<1>1. PICK i \in State :
        /\ state' = [state EXCEPT ![a] = i]
        /\ held' = [held EXCEPT ![i] = TRUE]
        /\ \A b \in Addr : b # a => state[b] # i
        /\ state[a] = Nil \/ ~held[state[a]]
  <2>1. CASE AcquireNew(t)
    BY <2>1 DEF AcquireNew, Unused
  <2>2. CASE AcquireFree(t)
    <3>1. state[a] \in State /\ state[a] # Nil
      BY <1>t, <2>2 DEF AcquireFree, TypeOK
    <3>2. state' = [state EXCEPT ![a] = state[a]]
      BY <1>t, <2>2 DEF AcquireFree, TypeOK
    <3>3. \A b \in Addr : b # a => state[b] # state[a]
      BY <1>t, <3>1 DEF StatesDistinct
    <3> QED
      BY <2>2, <3>1, <3>2, <3>3 DEF AcquireFree, MayTake
  <2> QED
    BY <2>1, <2>2
<1>2. L!IsFree(a)
  BY <1>t, <1>1 DEF HeldIsOwned
<1>3. owned' = [owned EXCEPT ![t] = @ \cup {a}]
  BY DEF AcquireNew, AcquireFree, Got
<1>4. StatesDistinct'
  BY <1>t, <1>1 DEF StatesDistinct, TypeOK
<1>5. HeldIsOwned'
  <2> SUFFICES ASSUME NEW b \in Addr
               PROVE  (state'[b] # Nil /\ held'[state'[b]]) <=> ~L!IsFree(b)'
    BY DEF HeldIsOwned
  <2>1. CASE b = a
    <3>1. state'[b] = i /\ held'[i] /\ i # Nil
      BY <1>t, <1>1, <2>1, StateAssumption DEF TypeOK
    <3>2. a \in owned'[t]
      BY <1>t, <1>3 DEF TypeOK
    <3> QED
      BY <2>1, <3>1, <3>2 DEF L!IsFree
  <2>2. CASE b # a
    <3>1. state'[b] = state[b] /\ (state[b] # Nil => held'[state[b]] = held[state[b]])
      BY <1>t, <1>1, <2>2 DEF TypeOK
    <3>2. \A u \in Thread : b \in owned'[u] <=> b \in owned[u]
      BY <1>t, <1>3, <2>2 DEF TypeOK
    <3> QED
      BY <1>t, <3>1, <3>2 DEF HeldIsOwned, L!IsFree
  <2> QED
    BY <2>1, <2>2
<1>6. L!Exclusive'
  BY <1>t, <1>2, <1>3 DEF L!Exclusive, L!IsFree, TypeOK
<1> QED
  BY <1>2, <1>3, <1>4, <1>5, <1>6 DEF L!Acquire

(* What Release does to the locks, whether it keeps the state or drops it.   *)
LEMMA ReleaseEffect ==
  ASSUME LockInv, NEW t \in Thread, ReleaseSignal(t) \/ ReleaseDrop(t)
  PROVE  /\ L!Release(t, arg[t])
         /\ StatesDistinct' /\ HeldIsOwned' /\ L!Exclusive'
<1> DEFINE a == arg[t]
           i == state[a]
<1>t. TypeOK /\ StatesDistinct /\ HeldIsOwned /\ L!Exclusive /\ a \in Addr
  BY DEF LockInv, TypeOK
<1>1. a \in owned[t]
  BY DEF LockInv, ReleasesOwned, ReleaseSignal, ReleaseDrop
<1>2. owned' = [owned EXCEPT ![t] = @ \ {a}] /\ held' = [held EXCEPT ![i] = FALSE]
  BY DEF ReleaseSignal, ReleaseDrop, Released
<1>3. state' = state \/ state' = [state EXCEPT ![a] = Nil]
  BY DEF ReleaseSignal, ReleaseDrop
<1>4. i \in State /\ i # Nil
  <2>1. i # Nil
    BY <1>t, <1>1 DEF HeldIsOwned, L!IsFree
  <2> QED
    BY <1>t, <2>1 DEF TypeOK
<1>5. StatesDistinct'
  BY <1>t, <1>3 DEF StatesDistinct, TypeOK
<1>6. HeldIsOwned'
  <2> SUFFICES ASSUME NEW b \in Addr
               PROVE  (state'[b] # Nil /\ held'[state'[b]]) <=> ~L!IsFree(b)'
    BY DEF HeldIsOwned
  <2>1. CASE b = a
    <3>1. state'[b] = Nil \/ ~held'[state'[b]]
      BY <1>t, <1>2, <1>3, <1>4, <2>1 DEF TypeOK
    <3>2. \A u \in Thread : a \notin owned'[u]
      BY <1>t, <1>1, <1>2 DEF TypeOK, L!Exclusive
    <3> QED
      BY <2>1, <3>1, <3>2 DEF L!IsFree
  <2>2. CASE b # a
    <3>1. state'[b] = state[b] /\ (state[b] # Nil => state[b] # i)
      BY <1>t, <1>3, <2>2 DEF TypeOK, StatesDistinct
    <3>2. state[b] # Nil => held'[state[b]] = held[state[b]]
      BY <1>t, <1>2, <3>1 DEF TypeOK
    <3>3. \A u \in Thread : b \in owned'[u] <=> b \in owned[u]
      BY <1>t, <1>2, <2>2 DEF TypeOK
    <3> QED
      BY <1>t, <3>1, <3>2, <3>3 DEF HeldIsOwned, L!IsFree
  <2> QED
    BY <2>1, <2>2
<1>7. L!Exclusive'
  BY <1>t, <1>2 DEF L!Exclusive, TypeOK
<1> QED
  BY <1>1, <1>2, <1>5, <1>6, <1>7 DEF L!Release

(* The other steps touch neither the locks nor the map. *)
LEMMA OtherEffect ==
  ASSUME [Next]_vars,
         \A t \in Thread : ~(AcquireNew(t) \/ AcquireFree(t) \/ ReleaseSignal(t) \/ ReleaseDrop(t))
  PROVE  UNCHANGED <<state, held, owned>>
BY DEF Next, Step, CallAcquire, CallRelease, AcquireWait, AcquireWoken, Wakeup, vars, stvars

(* Every step keeps the invariant. *)
LEMMA NextInv == LockInv /\ [Next]_vars => LockInv'
<1> SUFFICES ASSUME LockInv, [Next]_vars PROVE LockInv'
  OBVIOUS
<1>1. TypeOK'
  BY TypeStep
<1>2. StatesDistinct' /\ HeldIsOwned' /\ L!Exclusive'
  <2>1. CASE \E t \in Thread : AcquireNew(t) \/ AcquireFree(t)
    BY <2>1, AcquireEffect
  <2>2. CASE \E t \in Thread : ReleaseSignal(t) \/ ReleaseDrop(t)
    BY <2>2, ReleaseEffect
  <2>3. CASE \A t \in Thread : ~(AcquireNew(t) \/ AcquireFree(t) \/ ReleaseSignal(t) \/ ReleaseDrop(t))
    <3>1. UNCHANGED <<state, held, owned>>
      BY <2>3, OtherEffect
    <3> QED
      BY <3>1 DEF LockInv, StatesDistinct, HeldIsOwned, L!Exclusive, L!IsFree
  <2> QED
    BY <2>1, <2>2, <2>3
<1>3. ReleasesOwned'
  <2>t. TypeOK /\ ReleasesOwned
    BY DEF LockInv
  <2>1. ASSUME NEW t \in Thread, NEW a \in Addr, CallAcquire(t, a) \/ CallRelease(t, a)
        PROVE  ReleasesOwned'
    BY <2>t, <2>1 DEF TypeOK, ReleasesOwned, CallAcquire, CallRelease
  <2>2. ASSUME NEW t \in Thread, Step(t)
        PROVE  ReleasesOwned'
    <3>1. /\ \A u \in Thread \ {t} : pc'[u] = pc[u] /\ arg'[u] = arg[u] /\ owned'[u] = owned[u]
          /\ pc'[t] # "release"
      BY <2>t, <2>2 DEF TypeOK, Step, AcquireNew, AcquireFree, AcquireWait, AcquireWoken,
         ReleaseSignal, ReleaseDrop, Got, Released
    <3> QED
      BY <2>t, <3>1 DEF ReleasesOwned
  <2>3. ASSUME NEW t \in Thread, Wakeup(t)
        PROVE  ReleasesOwned'
    BY <2>t, <2>3 DEF ReleasesOwned, Wakeup
  <2>4. CASE UNCHANGED vars
    BY <2>t, <2>4 DEF ReleasesOwned, vars
  <2> QED
    BY <2>1, <2>2, <2>3, <2>4 DEF Next
<1> QED
  BY <1>1, <1>2, <1>3 DEF LockInv

-----------------------------------------------------------------------------
(* Each address in use has a lock state of its own, held exactly when one    *)
(* thread owns the lock: in every reachable state of lockmap.v.              *)
THEOREM LockInvariant == Spec => []LockInv
BY InitInv, NextInv, PTL DEF Spec

(* lockmap.v implements a lock per address. *)
THEOREM LockMapImplementsLocks == Spec => ImplementsLocks
<1>1. Init => L!Init
  BY DEF Init, L!Init
<1>2. LockInv /\ [Next]_vars => [L!Next]_owned
  <2> SUFFICES ASSUME LockInv, [Next]_vars PROVE [L!Next]_owned
    OBVIOUS
  <2>t. \A t \in Thread : arg[t] \in Addr
    BY DEF LockInv, TypeOK
  <2>1. CASE \E t \in Thread : AcquireNew(t) \/ AcquireFree(t)
    BY <2>t, <2>1, AcquireEffect DEF L!Next
  <2>2. CASE \E t \in Thread : ReleaseSignal(t) \/ ReleaseDrop(t)
    BY <2>t, <2>2, ReleaseEffect DEF L!Next
  <2>3. CASE \A t \in Thread : ~(AcquireNew(t) \/ AcquireFree(t) \/ ReleaseSignal(t) \/ ReleaseDrop(t))
    BY <2>3, OtherEffect
  <2> QED
    BY <2>1, <2>2, <2>3
<1> QED
  BY <1>1, <1>2, LockInvariant, PTL DEF Spec, ImplementsLocks, L!Spec

(* No two threads ever hold the lock of the same address. *)
THEOREM LocksExclude == Spec => []L!Exclusive
<1>1. LockInv => L!Exclusive
  BY DEF LockInv
<1> QED
  BY <1>1, LockInvariant, PTL

-----------------------------------------------------------------------------
(* The waiters.                                                              *)

(* The shard of an address is one of the shards.                             *)
LEMMA ShardOfAddr == \A a \in Addr : ShardOf(a) \in Shard
BY AddrAssumption, ShardAssumption DEF ShardOf, Shard

(* The threads that wait for an address are finitely many.                   *)
LEMMA FiniteWaiting == \A a \in Addr : IsFiniteSet(WaitingFor(a)) /\ Cardinality(WaitingFor(a)) \in Nat
<1> SUFFICES ASSUME NEW a \in Addr
             PROVE  IsFiniteSet(WaitingFor(a)) /\ Cardinality(WaitingFor(a)) \in Nat
  OBVIOUS
<1>1. WaitingFor(a) \subseteq Thread
  BY DEF WaitingFor
<1> QED
  BY <1>1, FiniteAssumption, FS_Subset, FS_CardinalityType

(* In a fresh lock map nobody waits.                                         *)
LEMMA InitCount == Init => CountInv
<1> SUFFICES ASSUME Init PROVE CountInv
  OBVIOUS
<1>1. KeptByWoken
  BY DEF Init, KeptByWoken
<1>2. NoneLeftOver
  BY DEF Init, NoneLeftOver
<1>3. WaitersCounted
  BY DEF Init, WaitersCounted, WaitingFor
<1> QED
  BY <1>1, <1>2, <1>3 DEF CountInv

(* A thread that gets into the shard of its address finds the mutex free, or *)
(* has kept it since it woke up, which only a thread in acquire does.        *)
LEMMA Entered ==
  ASSUME LockInv, CountInv, NEW t \in Thread, Enter(t)
  PROVE  LET s == ShardOf(arg[t]) IN
         /\ s \in Shard
         /\ mu[s] = Free \/ (mu[s] = t /\ pc[t] = "acquire")
         /\ \A b \in Addr : (b # arg[t] /\ state[b] # Nil /\ ShardOf(b) = s) => InUse(b)
<1> DEFINE s == ShardOf(arg[t])
<1>1. s \in Shard
  BY ShardOfAddr DEF LockInv, TypeOK
<1>2. mu[s] = Free \/ (mu[s] = t /\ pc[t] = "acquire")
  BY <1>1, ThreadAssumption DEF CountInv, KeptByWoken, Enter
<1>3. ASSUME NEW b \in Addr, b # arg[t], state[b] # Nil, ShardOf(b) = s
      PROVE  InUse(b)
  BY <1>2, <1>3 DEF CountInv, NoneLeftOver, WokenFor
<1> QED
  BY <1>1, <1>2, <1>3

(* A step that lets the mutex of one shard go and puts nobody else into      *)
(* acquire leaves no mutex to a thread that has not woken up.                *)
LEMMA KeptAfterUnlock ==
  ASSUME LockInv, CountInv, NEW t \in Thread, Enter(t), Unlock(t), UNCHANGED arg,
         \A u \in Thread \ {t} : pc'[u] = pc[u]
  PROVE  KeptByWoken'
<1> DEFINE s == ShardOf(arg[t])
<1>t. TypeOK
  BY DEF LockInv
<1>1. \A r \in Shard : mu'[r] = IF r = s THEN Free ELSE mu[r]
  BY <1>t DEF Unlock, TypeOK
<1> SUFFICES ASSUME NEW r \in Shard, mu'[r] # Free
             PROVE  pc'[mu'[r]] = "acquire" /\ ShardOf(arg'[mu'[r]]) = r
  BY DEF KeptByWoken, ShardOf
<1>2. r # s /\ mu'[r] = mu[r] /\ mu[r] \in Thread
  BY <1>t, <1>1 DEF TypeOK
<1>3. pc[mu[r]] = "acquire" /\ ShardOf(arg[mu[r]]) = r
  BY <1>2 DEF CountInv, KeptByWoken
<1>4. mu[r] # t
  BY <1>2, <1>3
<1> QED
  BY <1>2, <1>3, <1>4

(* Getting a lock leaves the waiters of every address as they were, and      *)
(* uses the state that was found or made.                                    *)
LEMMA AcquireCount ==
  ASSUME LockInv, CountInv, NEW t \in Thread, AcquireNew(t) \/ AcquireFree(t)
  PROVE  CountInv'
<1> DEFINE a == arg[t]
<1>t. TypeOK /\ StatesDistinct /\ a \in Addr
  BY DEF LockInv, TypeOK
<1>c. WaitersCounted /\ NoneLeftOver
  BY DEF CountInv
<1>1. /\ Enter(t) /\ Unlock(t) /\ UNCHANGED <<arg, ptr>> /\ pc[t] = "acquire"
      /\ pc' = [pc EXCEPT ![t] = "idle"]
  BY DEF AcquireNew, AcquireFree, Got
<1>2. KeptByWoken'
  BY <1>t, <1>1, KeptAfterUnlock DEF TypeOK
<1>3. \A b \in Addr : WaitingFor(b)' = WaitingFor(b)
  BY <1>t, <1>1 DEF WaitingFor, TypeOK
<1>4. PICK i \in State :
        /\ i # Nil
        /\ state' = [state EXCEPT ![a] = i]
        /\ held' = [held EXCEPT ![i] = TRUE]
        /\ \A b \in Addr : b # a => state[b] # i
        /\ waiters'[i] = Cardinality(WaitingFor(a))
        /\ \A j \in State : j # i => waiters'[j] = waiters[j]
        /\ state[a] = i \/ WaitingFor(a) = {}
  <2>1. CASE AcquireNew(t)
    <3>1. WaitingFor(a) = {}
      BY <1>t, <1>c, <2>1 DEF AcquireNew, WaitersCounted
    <3>2. PICK i \in Unused :
            /\ state' = [state EXCEPT ![a] = i]
            /\ held' = [held EXCEPT ![i] = TRUE]
            /\ waiters' = [waiters EXCEPT ![i] = 0]
      BY <2>1 DEF AcquireNew
    <3>3. i \in State /\ i # Nil /\ \A b \in Addr : state[b] # i
      BY StateAssumption DEF Unused
    <3>4. waiters'[i] = Cardinality(WaitingFor(a)) /\ \A j \in State : j # i => waiters'[j] = waiters[j]
      BY <1>t, <3>1, <3>2, <3>3, FS_EmptySet DEF TypeOK
    <3> QED
      BY <3>1, <3>2, <3>3, <3>4
  <2>2. CASE AcquireFree(t)
    <3>1. state[a] \in State /\ state[a] # Nil
      BY <1>t, <2>2 DEF AcquireFree, TypeOK
    <3>2. state' = [state EXCEPT ![a] = state[a]]
      BY <1>t, <2>2 DEF AcquireFree, TypeOK
    <3>3. \A b \in Addr : b # a => state[b] # state[a]
      BY <1>t, <3>1 DEF StatesDistinct
    <3>4. waiters[state[a]] = Cardinality(WaitingFor(a))
      BY <1>t, <1>c, <3>1 DEF WaitersCounted
    <3> QED
      BY <2>2, <3>1, <3>2, <3>3, <3>4 DEF AcquireFree
  <2> QED
    BY <2>1, <2>2
<1>5. \A b \in Addr \ {a} :
        /\ state'[b] = state[b]
        /\ state[b] # Nil => held'[state[b]] = held[state[b]] /\ waiters'[state[b]] = waiters[state[b]]
  BY <1>t, <1>4 DEF TypeOK
<1>6. state'[a] = i /\ held'[i]
  BY <1>t, <1>4 DEF TypeOK
<1>7. ASSUME NEW b \in Addr
      PROVE  /\ \A u \in WaitingFor(b)' : ptr'[u] = state'[b]
             /\ state'[b] = Nil => WaitingFor(b)' = {}
             /\ state'[b] # Nil => waiters'[state'[b]] = Cardinality(WaitingFor(b)')
             /\ state'[b] # Nil => InUse(b)' \/ WokenFor(b)'
  <2>1. CASE b = a
    BY <1>1, <1>3, <1>4, <1>6, <1>c, <2>1 DEF InUse, WaitersCounted
  <2>2. CASE b # a
    <3>1. /\ \A u \in WaitingFor(b)' : ptr'[u] = state'[b]
          /\ state'[b] = Nil => WaitingFor(b)' = {}
          /\ state'[b] # Nil => waiters'[state'[b]] = Cardinality(WaitingFor(b)')
      BY <1>1, <1>3, <1>5, <1>c, <2>2 DEF WaitersCounted
    <3>2. state[b] # Nil => InUse(b)' \/ WokenFor(b)'
      <4>1. CASE InUse(b)
        BY <1>5, <2>2, <4>1 DEF InUse
      <4>2. CASE state[b] # Nil /\ ~InUse(b)
        <5>1. WokenFor(b)
          BY <1>c, <4>2 DEF NoneLeftOver
        <5>2. ShardOf(b) # ShardOf(a)
          BY <1>1, <2>2, <4>2, Entered
        <5>3. mu'[ShardOf(b)] = mu[ShardOf(b)]
          BY <1>t, <1>1, <5>2, ShardOfAddr DEF Unlock, TypeOK
        <5> QED
          BY <1>1, <5>1, <5>3 DEF WokenFor, ShardOf
      <4> QED
        BY <4>1, <4>2
    <3> QED
      BY <1>5, <2>2, <3>1, <3>2
  <2> QED
    BY <2>1, <2>2
<1>8. WaitersCounted'
  BY <1>7 DEF WaitersCounted, InUse, WokenFor
<1> QED
  BY <1>2, <1>7, <1>8 DEF CountInv, NoneLeftOver

(* Going to sleep adds one to the waiters and to their number.               *)
LEMMA WaitCount ==
  ASSUME LockInv, CountInv, NEW t \in Thread, AcquireWait(t)
  PROVE  CountInv'
<1> DEFINE a == arg[t]
           i == state[a]
<1>t. TypeOK /\ StatesDistinct /\ a \in Addr
  BY DEF LockInv, TypeOK
<1>c. WaitersCounted /\ NoneLeftOver
  BY DEF CountInv
<1>1. /\ Enter(t) /\ Unlock(t) /\ UNCHANGED <<arg, state, held>> /\ pc[t] = "acquire"
      /\ pc' = [pc EXCEPT ![t] = "wait"] /\ ptr' = [ptr EXCEPT ![t] = i]
      /\ waiters' = [waiters EXCEPT ![i] = @ + 1]
  BY DEF AcquireWait
<1>2. KeptByWoken'
  BY <1>t, <1>1, KeptAfterUnlock DEF TypeOK
<1>3. i \in State /\ i # Nil /\ held[i]
  BY <1>t DEF AcquireWait, MayTake, TypeOK
<1>4. /\ WaitingFor(a)' = WaitingFor(a) \cup {t} /\ t \notin WaitingFor(a)
      /\ \A b \in Addr \ {a} : WaitingFor(b)' = WaitingFor(b) /\ t \notin WaitingFor(b)
  BY <1>t, <1>1 DEF WaitingFor, TypeOK
<1>5. Cardinality(WaitingFor(a)') = Cardinality(WaitingFor(a)) + 1
  BY <1>t, <1>4, FiniteWaiting, FS_AddElement
<1>6. waiters'[i] = Cardinality(WaitingFor(a)')
  BY <1>t, <1>c, <1>1, <1>3, <1>5 DEF WaitersCounted, TypeOK
<1>7. ASSUME NEW b \in Addr
      PROVE  /\ \A u \in WaitingFor(b)' : ptr'[u] = state'[b]
             /\ state'[b] = Nil => WaitingFor(b)' = {}
             /\ state'[b] # Nil => waiters'[state'[b]] = Cardinality(WaitingFor(b)')
             /\ state'[b] # Nil => InUse(b)' \/ WokenFor(b)'
  <2>1. CASE b = a
    <3>1. \A u \in WaitingFor(a)' : ptr'[u] = i
      BY <1>t, <1>c, <1>1, <1>4 DEF WaitersCounted, WaitingFor, TypeOK
    <3> QED
      BY <1>1, <1>3, <1>6, <2>1, <3>1 DEF InUse
  <2>2. CASE b # a
    <3>1. state'[b] = state[b] /\ (state[b] # Nil => state[b] # i /\ state[b] \in State)
      BY <1>t, <1>1, <2>2 DEF StatesDistinct, TypeOK
    <3>2. state[b] # Nil => waiters'[state[b]] = waiters[state[b]]
      BY <1>t, <1>1, <3>1 DEF TypeOK
    <3>3. \A u \in WaitingFor(b)' : ptr'[u] = ptr[u]
      BY <1>t, <1>1, <1>4, <2>2 DEF WaitingFor, TypeOK
    <3>4. /\ \A u \in WaitingFor(b)' : ptr'[u] = state'[b]
          /\ state'[b] = Nil => WaitingFor(b)' = {}
          /\ state'[b] # Nil => waiters'[state'[b]] = Cardinality(WaitingFor(b)')
      BY <1>4, <1>c, <2>2, <3>1, <3>2, <3>3 DEF WaitersCounted
    <3>5. state[b] # Nil => InUse(b)' \/ WokenFor(b)'
      <4>1. CASE state[b] # Nil /\ InUse(b)
        BY <1>1, <3>2, <4>1 DEF InUse
      <4>2. CASE state[b] # Nil /\ ~InUse(b)
        <5>1. WokenFor(b)
          BY <1>c, <4>2 DEF NoneLeftOver
        <5>2. ShardOf(b) # ShardOf(a)
          BY <1>1, <2>2, <4>2, Entered
        <5>3. mu'[ShardOf(b)] = mu[ShardOf(b)]
          BY <1>t, <1>1, <5>2, ShardOfAddr DEF Unlock, TypeOK
        <5> QED
          BY <1>1, <5>1, <5>3 DEF WokenFor, ShardOf
      <4> QED
        BY <4>1, <4>2
    <3> QED
      BY <3>1, <3>4, <3>5
  <2> QED
    BY <2>1, <2>2
<1>8. WaitersCounted'
  BY <1>7 DEF WaitersCounted, InUse, WokenFor
<1> QED
  BY <1>2, <1>7, <1>8 DEF CountInv, NoneLeftOver

(* A woken thread finds the state it slept on, takes one off the waiters and *)
(* keeps the mutex, so that nobody drops the state before it looks.          *)
LEMMA WokenCount ==
  ASSUME LockInv, CountInv, NEW t \in Thread, AcquireWoken(t)
  PROVE  CountInv'
<1> DEFINE a == arg[t]
           i == state[a]
           s == ShardOf(a)
<1>t. TypeOK /\ StatesDistinct /\ a \in Addr /\ s \in Shard
  BY ShardOfAddr DEF LockInv, TypeOK
<1>c. WaitersCounted /\ NoneLeftOver /\ KeptByWoken
  BY DEF CountInv
<1>1. /\ Enter(t) /\ UNCHANGED <<arg, state, held>> /\ pc[t] = "wait"
      /\ mu' = [mu EXCEPT ![s] = t]
      /\ pc' = [pc EXCEPT ![t] = "acquire"] /\ ptr' = [ptr EXCEPT ![t] = Nil]
  BY DEF AcquireWoken
<1>2. t \in WaitingFor(a)
  BY <1>1 DEF WaitingFor
<1>3. i \in State /\ i # Nil
  BY <1>t, <1>c, <1>2 DEF WaitersCounted, TypeOK
<1>4. waiters' = [waiters EXCEPT ![i] = @ - 1]
  BY <1>3 DEF AcquireWoken
<1>5. mu[s] = Free
  BY <1>1, Entered
<1>6. KeptByWoken'
  <2> SUFFICES ASSUME NEW r \in Shard, mu'[r] # Free
               PROVE  pc'[mu'[r]] = "acquire" /\ ShardOf(arg'[mu'[r]]) = r
    BY DEF KeptByWoken, ShardOf
  <2>1. CASE r = s
    BY <1>t, <1>1, <2>1 DEF TypeOK
  <2>2. CASE r # s
    BY <1>t, <1>c, <1>1, <2>2 DEF KeptByWoken, TypeOK
  <2> QED
    BY <2>1, <2>2
<1>7. /\ WaitingFor(a)' = WaitingFor(a) \ {t}
      /\ \A b \in Addr \ {a} : WaitingFor(b)' = WaitingFor(b) /\ t \notin WaitingFor(b)
  BY <1>t, <1>1 DEF WaitingFor, TypeOK
<1>8. Cardinality(WaitingFor(a)') = Cardinality(WaitingFor(a)) - 1
  BY <1>t, <1>2, <1>7, FiniteWaiting, FS_RemoveElement
<1>9. waiters'[i] = Cardinality(WaitingFor(a)')
  BY <1>t, <1>c, <1>4, <1>3, <1>8 DEF WaitersCounted, TypeOK
<1>10. ASSUME NEW b \in Addr
       PROVE  /\ \A u \in WaitingFor(b)' : ptr'[u] = state'[b]
              /\ state'[b] = Nil => WaitingFor(b)' = {}
              /\ state'[b] # Nil => waiters'[state'[b]] = Cardinality(WaitingFor(b)')
              /\ state'[b] # Nil => InUse(b)' \/ WokenFor(b)'
  <2>1. CASE b = a
    <3>1. \A u \in WaitingFor(a)' : ptr'[u] = i
      <4>1. \A u \in WaitingFor(a) : ptr[u] = i
        BY <1>t, <1>c DEF WaitersCounted
      <4>2. \A u \in WaitingFor(a) \ {t} : ptr'[u] = ptr[u]
        BY <1>t, <1>1 DEF WaitingFor, TypeOK
      <4> QED
        BY <1>7, <4>1, <4>2
    <3>2. WokenFor(a)'
      <4>1. mu'[s] = t /\ t # Free
        BY <1>t, <1>1, ThreadAssumption DEF TypeOK
      <4> QED
        BY <1>1, <4>1 DEF WokenFor, ShardOf
    <3> QED
      BY <1>1, <1>3, <1>9, <2>1, <3>1, <3>2
  <2>2. CASE b # a
    <3>1. state'[b] = state[b] /\ (state[b] # Nil => state[b] # i /\ state[b] \in State)
      BY <1>t, <1>1, <2>2 DEF StatesDistinct, TypeOK
    <3>2. state[b] # Nil => waiters'[state[b]] = waiters[state[b]]
      BY <1>t, <1>4, <3>1 DEF TypeOK
    <3>3. \A u \in WaitingFor(b)' : ptr'[u] = ptr[u]
      BY <1>t, <1>1, <1>7, <2>2 DEF WaitingFor, TypeOK
    <3>4. /\ \A u \in WaitingFor(b)' : ptr'[u] = state'[b]
          /\ state'[b] = Nil => WaitingFor(b)' = {}
          /\ state'[b] # Nil => waiters'[state'[b]] = Cardinality(WaitingFor(b)')
      BY <1>7, <1>c, <2>2, <3>1, <3>2, <3>3 DEF WaitersCounted
    <3>5. state[b] # Nil => InUse(b)' \/ WokenFor(b)'
      <4>1. CASE state[b] # Nil /\ InUse(b)
        BY <1>1, <3>2, <4>1 DEF InUse
      <4>2. CASE state[b] # Nil /\ ~InUse(b)
        <5>1. WokenFor(b)
          BY <1>c, <4>2 DEF NoneLeftOver
        <5>2. ShardOf(b) # s
          BY <1>1, <2>2, <4>2, Entered
        <5>3. mu'[ShardOf(b)] = mu[ShardOf(b)]
          BY <1>t, <1>1, <5>2, ShardOfAddr DEF TypeOK
        <5> QED
          BY <1>1, <5>1, <5>3 DEF WokenFor, ShardOf
      <4> QED
        BY <4>1, <4>2
    <3> QED
      BY <3>1, <3>4, <3>5
  <2> QED
    BY <2>1, <2>2
<1>11. WaitersCounted'
  BY <1>10 DEF WaitersCounted, InUse, WokenFor
<1> QED
  BY <1>6, <1>10, <1>11 DEF CountInv, NoneLeftOver

(* Release drops only a state nobody waits on, and leaves every other one.   *)
LEMMA ReleaseCount ==
  ASSUME LockInv, CountInv, NEW t \in Thread, ReleaseSignal(t) \/ ReleaseDrop(t)
  PROVE  CountInv'
<1> DEFINE a == arg[t]
           i == state[a]
<1>t. TypeOK /\ StatesDistinct /\ a \in Addr
  BY DEF LockInv, TypeOK
<1>c. WaitersCounted /\ NoneLeftOver
  BY DEF CountInv
<1>1. /\ Enter(t) /\ Unlock(t) /\ UNCHANGED <<arg, ptr, waiters>> /\ pc[t] = "release"
      /\ pc' = [pc EXCEPT ![t] = "idle"] /\ held' = [held EXCEPT ![i] = FALSE]
  BY DEF ReleaseSignal, ReleaseDrop, Released
<1>2. KeptByWoken'
  BY <1>t, <1>1, KeptAfterUnlock DEF TypeOK
<1>3. \A b \in Addr : WaitingFor(b)' = WaitingFor(b)
  BY <1>t, <1>1 DEF WaitingFor, TypeOK
<1>4. i \in State /\ i # Nil
  <2>1. a \in owned[t]
    BY <1>1 DEF LockInv, ReleasesOwned
  <2>2. i # Nil
    BY <1>t, <2>1 DEF LockInv, HeldIsOwned, L!IsFree
  <2> QED
    BY <1>t, <2>2 DEF TypeOK
<1>5. \/ state' = state /\ waiters[i] > 0
      \/ state' = [state EXCEPT ![a] = Nil] /\ WaitingFor(a) = {}
  <2>1. CASE ReleaseSignal(t)
    BY <2>1 DEF ReleaseSignal, Wanted
  <2>2. CASE ReleaseDrop(t)
    <3>1. ~(Cardinality(WaitingFor(a)) > 0)
      BY <1>t, <1>c, <1>4, <2>2 DEF ReleaseDrop, Wanted, WaitersCounted
    <3>2. WaitingFor(a) = {}
      BY <1>t, <3>1, FiniteWaiting, FS_EmptySet
    <3> QED
      BY <2>2, <3>2 DEF ReleaseDrop
  <2> QED
    BY <2>1, <2>2
<1>6. ASSUME NEW b \in Addr
      PROVE  /\ \A u \in WaitingFor(b)' : ptr'[u] = state'[b]
             /\ state'[b] = Nil => WaitingFor(b)' = {}
             /\ state'[b] # Nil => waiters'[state'[b]] = Cardinality(WaitingFor(b)')
             /\ state'[b] # Nil => InUse(b)' \/ WokenFor(b)'
  <2>1. CASE b = a
    <3>1. CASE state' = state /\ waiters[i] > 0
      BY <1>t, <1>c, <1>1, <1>3, <1>4, <2>1, <3>1 DEF InUse, WaitersCounted
    <3>2. CASE state' = [state EXCEPT ![a] = Nil] /\ WaitingFor(a) = {}
      BY <1>t, <1>3, <2>1, <3>2 DEF TypeOK
    <3> QED
      BY <1>5, <3>1, <3>2
  <2>2. CASE b # a
    <3>1. state'[b] = state[b] /\ (state[b] # Nil => state[b] # i /\ state[b] \in State)
      BY <1>t, <1>5, <2>2 DEF StatesDistinct, TypeOK
    <3>2. state[b] # Nil => held'[state[b]] = held[state[b]]
      BY <1>t, <1>1, <3>1 DEF TypeOK
    <3>3. /\ \A u \in WaitingFor(b)' : ptr'[u] = state'[b]
          /\ state'[b] = Nil => WaitingFor(b)' = {}
          /\ state'[b] # Nil => waiters'[state'[b]] = Cardinality(WaitingFor(b)')
      BY <1>1, <1>3, <1>c, <3>1 DEF WaitersCounted
    <3>4. state[b] # Nil => InUse(b)' \/ WokenFor(b)'
      <4>1. CASE state[b] # Nil /\ InUse(b)
        BY <1>1, <3>1, <3>2, <4>1 DEF InUse
      <4>2. CASE state[b] # Nil /\ ~InUse(b)
        <5>1. WokenFor(b)
          BY <1>c, <4>2 DEF NoneLeftOver
        <5>2. ShardOf(b) # ShardOf(a)
          BY <1>1, <2>2, <4>2, Entered
        <5>3. mu'[ShardOf(b)] = mu[ShardOf(b)]
          BY <1>t, <1>1, <5>2, ShardOfAddr DEF Unlock, TypeOK
        <5> QED
          BY <1>1, <5>1, <5>3 DEF WokenFor, ShardOf
      <4> QED
        BY <4>1, <4>2
    <3> QED
      BY <3>1, <3>3, <3>4
  <2> QED
    BY <2>1, <2>2
<1>7. WaitersCounted'
  BY <1>6 DEF WaitersCounted, InUse, WokenFor
<1> QED
  BY <1>2, <1>6, <1>7 DEF CountInv, NoneLeftOver

(* A thread that makes a call holds no mutex yet and waits for nothing.      *)
LEMMA CallCount ==
  ASSUME LockInv, CountInv, NEW t \in Thread, NEW a \in Addr, CallAcquire(t, a) \/ CallRelease(t, a)
  PROVE  CountInv'
<1>t. TypeOK
  BY DEF LockInv
<1>1. /\ UNCHANGED <<mu, state, stvars, ptr>> /\ pc[t] = "idle"
      /\ \E w \in {"acquire", "release"} : pc' = [pc EXCEPT ![t] = w]
      /\ arg' = [arg EXCEPT ![t] = a]
  BY DEF CallAcquire, CallRelease
<1>2. \A r \in Shard : mu[r] # Free =>
        mu[r] \in Thread /\ mu[r] # t /\ pc'[mu[r]] = pc[mu[r]] /\ arg'[mu[r]] = arg[mu[r]]
  BY <1>t, <1>1 DEF TypeOK, CountInv, KeptByWoken
<1>3. KeptByWoken'
  BY <1>1, <1>2 DEF CountInv, KeptByWoken, ShardOf
<1>4. \A b \in Addr : WaitingFor(b)' = WaitingFor(b)
  BY <1>t, <1>1 DEF WaitingFor, TypeOK
<1>5. \A b \in Addr : (InUse(b) => InUse(b)') /\ (WokenFor(b) => WokenFor(b)')
  BY <1>1, <1>2, ShardOfAddr DEF InUse, WokenFor, ShardOf, stvars
<1>6. NoneLeftOver'
  BY <1>1, <1>5 DEF CountInv, NoneLeftOver
<1>7. WaitersCounted'
  BY <1>1, <1>4 DEF CountInv, WaitersCounted, stvars, ShardOf
<1> QED
  BY <1>3, <1>6, <1>7 DEF CountInv

(* Every step keeps the count.                                               *)
LEMMA NextCount == LockInv /\ CountInv /\ [Next]_vars => CountInv'
<1> SUFFICES ASSUME LockInv, CountInv, [Next]_vars PROVE CountInv'
  OBVIOUS
<1>1. CASE \E t \in Thread, a \in Addr : CallAcquire(t, a) \/ CallRelease(t, a)
  BY <1>1, CallCount
<1>2. CASE \E t \in Thread : Step(t)
  BY <1>2, AcquireCount, WaitCount, WokenCount, ReleaseCount DEF Step
<1>3. CASE UNCHANGED <<mu, state, held, waiters, pc, arg, ptr, owned>>
  <2>1. \A b \in Addr : WaitingFor(b)' = WaitingFor(b)
    BY <1>3 DEF WaitingFor
  <2>2. KeptByWoken'
    BY <1>3 DEF CountInv, KeptByWoken, ShardOf
  <2>3. NoneLeftOver'
    BY <1>3 DEF CountInv, NoneLeftOver, InUse, WokenFor, ShardOf
  <2>4. WaitersCounted'
    BY <1>3, <2>1 DEF CountInv, WaitersCounted, ShardOf
  <2> QED
    BY <2>2, <2>3, <2>4 DEF CountInv
<1> QED
  BY <1>1, <1>2, <1>3 DEF Next, Wakeup, vars, stvars

(* For any finite number of threads, a lock state counts exactly those that  *)
(* wait on it and lives as long as somebody holds or wants it: the uint64 of *)
(* lockmap.v never goes below zero and a woken thread finds its state.       *)
THEOREM WaitersAlwaysCounted == Spec => []WaitersCounted
<1>1. CountInv => WaitersCounted
  BY DEF CountInv
<1> QED
  BY <1>1, LockInvariant, InitCount, NextCount, PTL DEF Spec

-----------------------------------------------------------------------------
(* No Signal is lost. *)

(* A thread that wants an address wants no other, and is neither idle nor    *)
(* releasing.                                                                *)
LEMMA Frame ==
  ASSUME TypeOK, NEW b \in Addr, NEW t \in Thread,
         \A u \in Thread \ {t} : pc'[u] = pc[u] /\ arg'[u] = arg[u] /\ ptr'[u] = ptr[u],
         \A u \in Thread \ {t} : Asleep(u)' => Asleep(u),
         ~Wants(t, b), ~Wants(t, b)',
         L!IsFree(b)' => L!IsFree(b),
         L!IsFree(b) /\ (\E u \in Thread : Wants(u, b)) => \E w \in Thread : Wants(w, b) /\ ~Asleep(w)
  PROVE  L!IsFree(b)' /\ (\E u \in Thread : Wants(u, b)') => \E w \in Thread : Wants(w, b)' /\ ~Asleep(w)'
<1> SUFFICES ASSUME L!IsFree(b)', NEW u \in Thread, Wants(u, b)'
             PROVE  \E w \in Thread : Wants(w, b)' /\ ~Asleep(w)'
  OBVIOUS
<1>1. u # t /\ Wants(u, b)
  BY DEF Wants
<1>2. PICK w \in Thread : Wants(w, b) /\ ~Asleep(w)
  BY <1>1
<1>3. w # t
  BY <1>2
<1>4. Wants(w, b)' /\ ~Asleep(w)'
  BY <1>2, <1>3 DEF Wants
<1> QED
  BY <1>4

(* What every step of thread t leaves of the others.                         *)
LEMMA OthersStay ==
  ASSUME TypeOK, SleepersWait, NEW t \in Thread,
         Step(t) \/ Wakeup(t) \/ \E a \in Addr : CallAcquire(t, a) \/ CallRelease(t, a)
  PROVE  /\ \A u \in Thread \ {t} : pc'[u] = pc[u] /\ arg'[u] = arg[u] /\ ptr'[u] = ptr[u]
         /\ \A u \in Thread \ {t} : owned'[u] = owned[u]
         /\ \A i \in State : cond'[i] \subseteq cond[i] \cup {t}
<1>t. /\ pc \in [Thread -> {"idle", "acquire", "wait", "release"}] /\ arg \in [Thread -> Addr]
      /\ ptr \in [Thread -> State \cup {Nil}] /\ owned \in [Thread -> SUBSET Addr]
      /\ cond \in [State -> SUBSET Thread]
  BY DEF TypeOK
<1>1. CASE AcquireNew(t) \/ AcquireFree(t)
  BY <1>1, <1>t DEF AcquireNew, AcquireFree, Got
<1>2. CASE AcquireWait(t) \/ AcquireWoken(t)
  BY <1>2, <1>t DEF AcquireWait, AcquireWoken
<1>3. CASE ReleaseSignal(t) \/ ReleaseDrop(t)
  BY <1>3, <1>t DEF ReleaseSignal, ReleaseDrop, Released, Signal, stvars
<1>4. CASE Wakeup(t)
  BY <1>4, <1>t DEF Wakeup
<1>5. CASE \E a \in Addr : CallAcquire(t, a) \/ CallRelease(t, a)
  BY <1>5, <1>t DEF CallAcquire, CallRelease, stvars
<1> QED
  BY <1>1, <1>2, <1>3, <1>4, <1>5 DEF Step

(* Every step keeps the lists of the condition variables right.              *)
LEMMA SleepersStep ==
  ASSUME LockInv, SleepersWait, [Next]_vars
  PROVE  SleepersWait'
<1>t. /\ TypeOK /\ pc \in [Thread -> {"idle", "acquire", "wait", "release"}]
      /\ ptr \in [Thread -> State \cup {Nil}] /\ cond \in [State -> SUBSET Thread]
  BY DEF LockInv, TypeOK
<1>1. ASSUME NEW t \in Thread,
             Step(t) \/ Wakeup(t) \/ \E a \in Addr : CallAcquire(t, a) \/ CallRelease(t, a),
             \A i \in State : t \in cond'[i] => pc'[t] = "wait" /\ ptr'[t] = i
      PROVE  SleepersWait'
  <2>1. /\ \A u \in Thread \ {t} : pc'[u] = pc[u] /\ ptr'[u] = ptr[u]
        /\ \A i \in State : cond'[i] \subseteq cond[i] \cup {t}
    BY <1>1, <1>t, OthersStay
  <2> QED
    BY <1>1, <1>t, <2>1 DEF SleepersWait
<1>2. ASSUME NEW t \in Thread, pc[t] # "wait"
      PROVE  \A i \in State : t \notin cond[i]
  BY <1>2 DEF SleepersWait
<1>3. ASSUME NEW t \in Thread, AcquireNew(t) \/ AcquireFree(t) \/ ReleaseSignal(t) \/ ReleaseDrop(t)
      PROVE  \A i \in State : t \notin cond'[i]
  <2>1. pc[t] # "wait" /\ \A i \in State : cond'[i] \subseteq cond[i]
    BY <1>3, <1>t DEF AcquireNew, AcquireFree, ReleaseSignal, ReleaseDrop, Released, Signal, stvars
  <2> QED
    BY <1>2, <2>1
<1>4. ASSUME NEW t \in Thread, AcquireWait(t)
      PROVE  \A j \in State : t \in cond'[j] => pc'[t] = "wait" /\ ptr'[t] = j
  <2> DEFINE i == state[arg[t]]
  <2>1. /\ pc[t] = "acquire" /\ pc' = [pc EXCEPT ![t] = "wait"] /\ ptr' = [ptr EXCEPT ![t] = i]
        /\ cond' = [cond EXCEPT ![i] = @ \cup {t}]
    BY <1>4 DEF AcquireWait
  <2> HIDE DEF i
  <2>2. \A j \in State : t \notin cond[j]
    BY <1>2, <2>1
  <2>3. \A j \in State : t \in cond'[j] => j = i
    BY <1>t, <2>1, <2>2
  <2>4. pc'[t] = "wait" /\ ptr'[t] = i
    BY <1>t, <2>1
  <2> QED
    BY <2>3, <2>4
<1>5. ASSUME NEW t \in Thread, AcquireWoken(t)
      PROVE  \A i \in State : t \notin cond'[i]
  <2>1. pc[t] = "wait" /\ t \notin cond[ptr[t]] /\ cond' = cond
    BY <1>5 DEF AcquireWoken, Asleep
  <2> QED
    BY <2>1 DEF SleepersWait
<1>6. ASSUME NEW t \in Thread, Wakeup(t)
      PROVE  \A i \in State : t \notin cond'[i]
  <2>1. cond' = [cond EXCEPT ![ptr[t]] = @ \ {t}]
    BY <1>6 DEF Wakeup
  <2> QED
    BY <1>t, <2>1 DEF SleepersWait
<1>7. ASSUME NEW t \in Thread, NEW a \in Addr, CallAcquire(t, a) \/ CallRelease(t, a)
      PROVE  \A i \in State : t \notin cond'[i]
  <2>1. pc[t] = "idle" /\ cond' = cond
    BY <1>7 DEF CallAcquire, CallRelease, stvars
  <2> QED
    BY <1>2, <2>1
<1>8. ASSUME NEW t \in Thread, Step(t)
      PROVE  \A i \in State : t \in cond'[i] => pc'[t] = "wait" /\ ptr'[t] = i
  BY <1>3, <1>4, <1>5, <1>8 DEF Step
<1>9. CASE UNCHANGED vars
  BY <1>9 DEF vars, stvars, SleepersWait
<1> QED
  BY <1>1, <1>6, <1>7, <1>8, <1>9 DEF Next

(* A thread that sleeps or wakes up on a condition variable does so on that  *)
(* of a lock state, that of the address it wants.                            *)
LEMMA WaitsOnState ==
  ASSUME LockInv, CountInv, NEW t \in Thread, pc[t] = "wait"
  PROVE  ptr[t] \in State /\ ptr[t] = state[arg[t]] /\ arg[t] \in Addr
<1>1. arg[t] \in Addr /\ t \in WaitingFor(arg[t])
  BY DEF LockInv, TypeOK, WaitingFor
<1>2. ptr[t] = state[arg[t]] /\ state[arg[t]] # Nil
  BY <1>1 DEF CountInv, WaitersCounted
<1> QED
  BY <1>1, <1>2 DEF LockInv, TypeOK

(* No step of a thread puts another to sleep. *)
LEMMA OthersAwake ==
  ASSUME LockInv, CountInv, SleepersWait, NEW t \in Thread,
         Step(t) \/ Wakeup(t) \/ \E a \in Addr : CallAcquire(t, a) \/ CallRelease(t, a)
  PROVE  \A u \in Thread \ {t} : Asleep(u)' => Asleep(u)
<1>1. TypeOK
  BY DEF LockInv
<1> SUFFICES ASSUME NEW u \in Thread \ {t}, Asleep(u)' PROVE Asleep(u)
  OBVIOUS
<1>2. /\ pc'[u] = pc[u] /\ ptr'[u] = ptr[u]
      /\ \A i \in State : cond'[i] \subseteq cond[i] \cup {t}
  BY <1>1, OthersStay
<1>3. pc[u] = "wait" /\ u \in cond'[ptr[u]]
  BY <1>2 DEF Asleep
<1>4. ptr[u] \in State
  BY <1>3, WaitsOnState
<1> QED
  BY <1>2, <1>3, <1>4 DEF Asleep

(* Acquire: it takes the lock, sleeps because the lock is held, or is back   *)
(* and wants it.                                                             *)
LEMMA AcquireSignals ==
  ASSUME LockInv, CountInv, SleepersWait, NobodyForgotten, NEW t \in Thread,
         AcquireNew(t) \/ AcquireFree(t) \/ AcquireWait(t) \/ AcquireWoken(t)
  PROVE  NobodyForgotten'
<1>a. arg[t] \in Addr
  BY DEF LockInv, TypeOK
<1>b. PICK a \in Addr : a = arg[t]
  BY <1>a
<1>t. TypeOK /\ a \in Addr /\ owned \in [Thread -> SUBSET Addr] /\ pc \in [Thread -> {"idle", "acquire", "wait", "release"}]
  BY DEF LockInv, TypeOK
<1>0. Step(t)
  BY DEF Step
<1>o. /\ \A u \in Thread \ {t} : pc'[u] = pc[u] /\ arg'[u] = arg[u] /\ ptr'[u] = ptr[u]
      /\ \A u \in Thread \ {t} : Asleep(u)' => Asleep(u)
      /\ \A u \in Thread \ {t} : owned'[u] = owned[u]
  BY <1>t, <1>0, OthersStay, OthersAwake
<1>1. arg' = arg /\ owned[t] \subseteq owned'[t]
  BY <1>t, <1>b DEF AcquireNew, AcquireFree, AcquireWait, AcquireWoken, Got
<1>2. ASSUME NEW b \in Addr, b # a
      PROVE  L!IsFree(b)' /\ (\E u \in Thread : Wants(u, b)') => \E w \in Thread : Wants(w, b)' /\ ~Asleep(w)'
  <2>1. ~Wants(t, b) /\ ~Wants(t, b)'
    BY <1>b, <1>1, <1>2 DEF Wants
  <2>2. L!IsFree(b)' => L!IsFree(b)
    BY <1>o, <1>1 DEF L!IsFree
  <2>3. L!IsFree(b) /\ (\E u \in Thread : Wants(u, b)) => \E w \in Thread : Wants(w, b) /\ ~Asleep(w)
    BY DEF NobodyForgotten
  <2> QED
    BY <1>t, <1>o, <2>1, <2>2, <2>3, Frame
<1>3. L!IsFree(a)' /\ (\E u \in Thread : Wants(u, a)') => \E w \in Thread : Wants(w, a)' /\ ~Asleep(w)'
  <2>1. CASE AcquireNew(t) \/ AcquireFree(t)
    <3>1. a \in owned'[t]
      BY <1>b, <1>t, <2>1 DEF AcquireNew, AcquireFree, Got
    <3> QED
      BY <3>1 DEF L!IsFree
  <2>2. CASE AcquireWait(t)
    <3>1. held[state[a]] /\ state[a] # Nil /\ owned' = owned
      BY <1>b, <2>2 DEF AcquireWait, MayTake
    <3>2. ~L!IsFree(a)
      BY <1>t, <3>1 DEF LockInv, HeldIsOwned
    <3> QED
      BY <3>1, <3>2 DEF L!IsFree
  <2>3. CASE AcquireWoken(t)
    <3>1. pc'[t] = "acquire"
      BY <1>t, <2>3 DEF AcquireWoken
    <3> QED
      BY <1>b, <1>1, <3>1 DEF Wants, Asleep
  <2> QED
    BY <2>1, <2>2, <2>3
<1>4. \A b \in Addr : b # a => (L!IsFree(b)' /\ (\E u \in Thread : Wants(u, b)') => \E w \in Thread : Wants(w, b)' /\ ~Asleep(w)')
  BY <1>2
<1> QED
  BY <1>3, <1>4 DEF NobodyForgotten

(* Release: it wakes somebody who sleeps on the address, or nobody does.     *)
LEMMA ReleaseSignals ==
  ASSUME LockInv, CountInv, SleepersWait, NobodyForgotten, NEW t \in Thread,
         ReleaseSignal(t) \/ ReleaseDrop(t)
  PROVE  NobodyForgotten'
<1>a. arg[t] \in Addr
  BY DEF LockInv, TypeOK
<1>b. PICK a \in Addr : a = arg[t]
  BY <1>a
<1>c. PICK i : i = state[a]
  OBVIOUS
<1>t. TypeOK /\ a \in Addr /\ owned \in [Thread -> SUBSET Addr] /\ cond \in [State -> SUBSET Thread]
      /\ pc \in [Thread -> {"idle", "acquire", "wait", "release"}]
  BY DEF LockInv, TypeOK
<1>0. Step(t)
  BY DEF Step
<1>o. /\ \A u \in Thread \ {t} : pc'[u] = pc[u] /\ arg'[u] = arg[u] /\ ptr'[u] = ptr[u]
      /\ \A u \in Thread \ {t} : Asleep(u)' => Asleep(u)
      /\ \A u \in Thread \ {t} : owned'[u] = owned[u]
  BY <1>t, <1>0, OthersStay, OthersAwake
<1>1. pc[t] = "release" /\ pc'[t] = "idle" /\ owned'[t] = owned[t] \ {a} /\ UNCHANGED <<arg, ptr>>
  BY <1>b, <1>t DEF ReleaseSignal, ReleaseDrop, Released
<1>2. ASSUME NEW b \in Addr, b # a
      PROVE  L!IsFree(b)' /\ (\E u \in Thread : Wants(u, b)') => \E w \in Thread : Wants(w, b)' /\ ~Asleep(w)'
  <2>1. ~Wants(t, b) /\ ~Wants(t, b)'
    BY <1>1 DEF Wants
  <2>2. L!IsFree(b)' => L!IsFree(b)
    BY <1>o, <1>1, <1>2 DEF L!IsFree
  <2>3. L!IsFree(b) /\ (\E u \in Thread : Wants(u, b)) => \E w \in Thread : Wants(w, b) /\ ~Asleep(w)
    BY DEF NobodyForgotten
  <2> QED
    BY <1>t, <1>o, <2>1, <2>2, <2>3, Frame
<1>3. i \in State /\ i # Nil
  <2>1. a \in owned[t]
    BY <1>b, <1>1 DEF LockInv, ReleasesOwned
  <2>2. i # Nil
    BY <1>c, <1>t, <2>1 DEF LockInv, HeldIsOwned, L!IsFree
  <2> QED
    BY <1>c, <1>t, <2>2 DEF TypeOK
<1>4. \A u \in Thread : Wants(u, a)' => u # t /\ Wants(u, a)
  BY <1>o, <1>1 DEF Wants
<1>5. ASSUME NEW u \in Thread, Wants(u, a)'
      PROVE  \E w \in Thread : Wants(w, a)' /\ ~Asleep(w)'
  <2>1. u # t /\ Wants(u, a) /\ pc'[u] = pc[u] /\ ptr'[u] = ptr[u]
    BY <1>4, <1>5, <1>o
  <2>2. CASE pc[u] = "acquire"
    BY <1>5, <2>1, <2>2 DEF Asleep
  <2>3. CASE pc[u] = "wait"
    <3>1. ptr[u] = i /\ u \in WaitingFor(a)
      BY <1>b, <1>c, <2>1, <2>3, WaitsOnState DEF Wants, WaitingFor
    <3>2. waiters[i] > 0
      <4>1. waiters[i] = Cardinality(WaitingFor(a)) /\ Cardinality(WaitingFor(a)) \in Nat
        BY <1>c, <1>t, <1>3, FiniteWaiting DEF CountInv, WaitersCounted
      <4>2. Cardinality(WaitingFor(a)) # 0
        BY <1>t, <3>1, FiniteWaiting, FS_EmptySet
      <4> QED
        BY <4>1, <4>2
    <3>3. Signal(i)
      BY <1>b, <1>c, <3>2 DEF ReleaseSignal, ReleaseDrop, Wanted
    <3>4. CASE cond[i] = {} /\ UNCHANGED cond
      <4>1. ~Asleep(u)'
        BY <2>1, <3>1, <3>4 DEF Asleep
      <4> QED
        BY <1>5, <4>1
    <3>5. ASSUME NEW w \in cond[i], cond' = [cond EXCEPT ![i] = @ \ {w}]
          PROVE  Wants(w, a)' /\ ~Asleep(w)' /\ w \in Thread
      <4>1. w \in Thread /\ pc[w] = "wait" /\ ptr[w] = i /\ w # t
        BY <1>t, <1>3, <1>1, <3>5 DEF SleepersWait
      <4>2. state[arg[w]] = i /\ arg[w] \in Addr
        BY <4>1, WaitsOnState
      <4>3. arg[w] = a
        BY <1>c, <1>t, <1>3, <4>2 DEF LockInv, StatesDistinct
      <4>4. Wants(w, a)' /\ ptr'[w] = i
        BY <1>o, <4>1, <4>3 DEF Wants
      <4>5. w \notin cond'[i]
        BY <1>t, <1>3, <3>5
      <4> QED
        BY <4>1, <4>4, <4>5 DEF Asleep
    <3> QED
      BY <3>3, <3>4, <3>5 DEF Signal
  <2> QED
    BY <2>1, <2>2, <2>3 DEF Wants
<1> QED
  BY <1>2, <1>5 DEF NobodyForgotten

(* A call, or a return of Wait without a Signal, leaves whoever was awake so. *)
LEMMA CallSignals ==
  ASSUME LockInv, CountInv, SleepersWait, NobodyForgotten, NEW t \in Thread,
         Wakeup(t) \/ \E a \in Addr : CallAcquire(t, a) \/ CallRelease(t, a)
  PROVE  NobodyForgotten'
<1>t. TypeOK /\ pc \in [Thread -> {"idle", "acquire", "wait", "release"}] /\ arg \in [Thread -> Addr]
      /\ ptr \in [Thread -> State \cup {Nil}] /\ cond \in [State -> SUBSET Thread]
  BY DEF LockInv, TypeOK
<1>o. /\ \A u \in Thread \ {t} : pc'[u] = pc[u] /\ arg'[u] = arg[u] /\ ptr'[u] = ptr[u]
      /\ \A u \in Thread \ {t} : Asleep(u)' => Asleep(u)
  BY <1>t, OthersStay, OthersAwake
<1>1. owned' = owned
  BY DEF Wakeup, CallAcquire, CallRelease
<1>2. ~Asleep(t)'
  <2>1. CASE Wakeup(t)
    <3>1. pc[t] = "wait" /\ UNCHANGED <<pc, ptr>> /\ cond' = [cond EXCEPT ![ptr[t]] = @ \ {t}]
      BY <2>1 DEF Wakeup, Asleep
    <3>2. ptr[t] \in State
      BY <3>1, WaitsOnState
    <3> QED
      BY <1>t, <3>1, <3>2 DEF Asleep
  <2>2. CASE \E a \in Addr : CallAcquire(t, a) \/ CallRelease(t, a)
    BY <1>t, <2>2 DEF CallAcquire, CallRelease, Asleep
  <2> QED
    BY <2>1, <2>2
<1>3. ASSUME NEW b \in Addr, L!IsFree(b)', NEW u \in Thread, Wants(u, b)'
      PROVE  \E w \in Thread : Wants(w, b)' /\ ~Asleep(w)'
  <2>1. CASE Wants(t, b)'
    BY <1>2, <2>1
  <2>2. CASE ~Wants(t, b)'
    <3>1. ~Wants(t, b)
      BY <1>t, <2>2 DEF Wants, Wakeup, CallAcquire, CallRelease
    <3>2. u # t /\ Wants(u, b) /\ L!IsFree(b)
      BY <1>1, <1>3, <1>o, <2>2 DEF Wants, L!IsFree
    <3>3. PICK w \in Thread : Wants(w, b) /\ ~Asleep(w)
      BY <3>2 DEF NobodyForgotten
    <3>4. w # t
      BY <3>1, <3>3
    <3> QED
      BY <1>o, <3>3, <3>4 DEF Wants
  <2> QED
    BY <2>1, <2>2
<1> QED
  BY <1>3 DEF NobodyForgotten

(* Every step keeps it. *)
LEMMA NextSignal == LockInv /\ CountInv /\ SignalInv /\ [Next]_vars => SignalInv'
<1> SUFFICES ASSUME LockInv, CountInv, SleepersWait, NobodyForgotten, [Next]_vars
             PROVE  SignalInv'
  BY DEF SignalInv
<1>1. SUFFICES NobodyForgotten'
  BY SleepersStep DEF SignalInv
<1>2. CASE UNCHANGED vars
  <2>1. UNCHANGED <<cond, pc, arg, ptr, owned>>
    BY <1>2 DEF vars, stvars
  <2>2. \A t \in Thread, a \in Addr : Wants(t, a)' = Wants(t, a)
    BY <2>1 DEF Wants
  <2>3. \A t \in Thread : Asleep(t)' = Asleep(t)
    BY <2>1 DEF Asleep
  <2>4. \A a \in Addr : L!IsFree(a)' = L!IsFree(a)
    BY <2>1 DEF L!IsFree
  <2>5. ASSUME NEW a \in Addr, L!IsFree(a)', NEW t \in Thread, Wants(t, a)'
        PROVE  \E w \in Thread : Wants(w, a)' /\ ~Asleep(w)'
    <3>1. PICK w \in Thread : Wants(w, a) /\ ~Asleep(w)
      BY <2>2, <2>4, <2>5 DEF NobodyForgotten
    <3> QED
      BY <2>2, <2>3, <3>1
  <2> QED
    BY <2>5 DEF NobodyForgotten
<1>3. CASE Next
  <2>1. PICK t \in Thread : Step(t) \/ Wakeup(t) \/ \E a \in Addr : CallAcquire(t, a) \/ CallRelease(t, a)
    BY <1>3 DEF Next
  <2>2. CASE AcquireNew(t) \/ AcquireFree(t) \/ AcquireWait(t) \/ AcquireWoken(t)
    BY <2>2, AcquireSignals
  <2>3. CASE ReleaseSignal(t) \/ ReleaseDrop(t)
    BY <2>3, ReleaseSignals
  <2>4. CASE Wakeup(t) \/ \E a \in Addr : CallAcquire(t, a) \/ CallRelease(t, a)
    BY <2>4, CallSignals
  <2> QED
    BY <2>1, <2>2, <2>3, <2>4 DEF Step
<1> QED
  BY <1>2, <1>3

(* At the start nobody wants anything. *)
LEMMA InitSignal == Init => SignalInv
BY DEF Init, SignalInv, SleepersWait, NobodyForgotten, Wants

(* For any finite set of threads: while a lock is free and somebody wants    *)
(* it, one who does is awake, whatever states are dropped and made anew in   *)
(* between. Signal, which wakes only one thread, is enough.                  *)
THEOREM NobodyEverForgotten == Spec => []NobodyForgotten
<1>1. SignalInv => NobodyForgotten
  BY DEF SignalInv
<1>2. LockInv /\ CountInv /\ [Next]_vars => CountInv'
  BY NextCount
<1>3. LockInv /\ CountInv /\ SignalInv /\ [Next]_vars => SignalInv'
  BY NextSignal
<1> QED
  BY <1>1, <1>2, <1>3, LockInvariant, InitCount, InitSignal, PTL DEF Spec
=============================================================================
