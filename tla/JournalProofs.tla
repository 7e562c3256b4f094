--------------------------- MODULE JournalProofs ---------------------------
(* Transactions of objects are isolated and exact, and promises are kept,    *)
(* for every set of clients, of objects, size of blocks and of the log,      *)
(* whatever commits, is refused or crashes.                                  *)
EXTENDS JournalInv, FiniteSetTheorems, SequenceTheorems, TLAPS

-----------------------------------------------------------------------------
(* Data                                                                      *)

(* A set of indices has a greatest one, which Max is.                        *)
LEMMA MaxIsIn ==
  ASSUME NEW n \in Nat, NEW S, S \subseteq 1 .. n, S # {}
  PROVE  Max(S) \in S /\ \A x \in S : x <= Max(S)
<1> DEFINE R == {p \in Nat \X Nat : p[1] < p[2]}
           T == {n - x : x \in S}
<1>1. IsWellFoundedOn(R, Nat)
  BY NatLessThanWellFounded DEF OpToRel
<1>2. T \subseteq Nat /\ T # {}
  <2>1. PICK y \in S : TRUE
    OBVIOUS
  <2>2. n - y \in T
    BY <2>1
  <2> QED
    BY <2>2
<1>3. PICK x \in T : \A y \in T : ~(<<y, x>> \in R)
  BY <1>1, <1>2, WFMin
<1>4. PICK m \in S : x = n - m
  OBVIOUS
<1>5. \A y \in S : m >= y
  <2> SUFFICES ASSUME NEW y \in S PROVE m >= y
    OBVIOUS
  <2>1. n - y \in T /\ n - y \in Nat /\ n - m \in Nat
    OBVIOUS
  <2>2. ~(n - y < n - m)
    BY <1>3, <1>4, <2>1
  <2> QED
    BY <2>2
<1> QED
  BY <1>5 DEF Max

(* The greatest of two numbers.                                              *)
LEMMA MaxOfTwo ==
  ASSUME NEW a \in Nat, NEW b \in Nat
  PROVE  Max({a, b}) \in Nat /\ Max({a, b}) \in {a, b}
<1>1. \E x \in {a, b} : \A y \in {a, b} : x >= y
  OBVIOUS
<1> QED
  BY <1>1 DEF Max

(* LogState has the same Max.                                                *)
LEMMA SameMax ==
  ASSUME NEW S
  PROVE  LS!Max(S) = Max(S)
BY DEF LS!Max, Max

(* SetToSeq lists every element of a finite set once.                        *)
LEMMA SetToSeqLists ==
  ASSUME NEW S, IsFiniteSet(S)
  PROVE  LET q == SetToSeq(S) IN
         /\ q \in Seq(S) /\ DOMAIN q = 1 .. Len(q) /\ Len(q) \in Nat
         /\ \A i, j \in DOMAIN q : q[i] = q[j] => i = j
         /\ \A x \in S : \E j \in DOMAIN q : q[j] = x
<1> DEFINE n == Cardinality(S)
           q == SetToSeq(S)
<1>1. n \in Nat /\ ExistsBijection(1 .. n, S)
  BY FS_CardinalityType
<1>2. \E f \in [1 .. n -> S] : IsInjective(f)
  BY <1>1 DEF ExistsBijection, Bijection, Injection
<1>3. q \in [1 .. n -> S] /\ IsInjective(q)
  BY <1>2 DEF SetToSeq
<1>4. q \in Injection(1 .. n, S)
  BY <1>3 DEF Injection
<1>5. Cardinality(1 .. n) = n
  BY <1>1, FS_Interval
<1>6. q \in Surjection(1 .. n, S)
  BY <1>4, <1>5, FS_Injection
<1> QED
  BY <1>1, <1>3, <1>6 DEF Surjection, IsInjective

(* Partial functions, from the sets they are made of and back.               *)
LEMMA PartialIs ==
  ASSUME NEW D, NEW R
  PROVE  /\ \A f \in Partial(D, R) : DOMAIN f \subseteq D /\ f \in [DOMAIN f -> R]
         /\ \A E \in SUBSET D : \A f \in [E -> R] : f \in Partial(D, R)
BY DEF Partial

-----------------------------------------------------------------------------
(* Values in the log                                                         *)

(* The block and the offset of an object.                                    *)
LEMMA ObjParts == \A o \in Obj : o.Blkno \in Block /\ o.Off \in Off
BY DEF Block, Off

(* Whatever is read from the log is a block.                                 *)
LEMMA ValueType ==
  ASSUME NEW ts \in Seq(Txn), NEW b \in Block
  PROVE  LS!Value(ts, b) \in Value
<1> DEFINE W == LS!Writers(ts, b)
           m == Max(W)
           u == ts[m].upds
           J == { j \in DOMAIN u : u[j].Addr = b }
<1>1. CASE W = {}
  BY <1>1 DEF LS!Value, ZeroBlock, Value
<1>2. CASE W # {}
  <2>1. W \subseteq 1 .. Len(ts) /\ Len(ts) \in Nat
    BY DEF LS!Writers
  <2>2. m \in W /\ m \in 1 .. Len(ts)
    BY <1>2, <2>1, MaxIsIn
  <2>3. ts[m] \in Txn
    BY <2>2, ElementOfSeq
  <2>0. u \in Seq(Update)
    BY <2>3 DEF Txn
  <2>8. \E j \in DOMAIN ts[m].upds : ts[m].upds[j].Addr = b
    BY <2>2 DEF LS!Writers
  <2>4. J # {} /\ J \subseteq 1 .. Len(u) /\ Len(u) \in Nat
    BY <2>0, <2>8
  <2>5. Max(J) \in 1 .. Len(u)
    BY <2>4, MaxIsIn
  <2>6. u[Max(J)] \in Update
    BY <2>0, <2>5, ElementOfSeq
  <2>7. LS!Value(ts, b) = u[Max(J)].Block
    BY <1>2, SameMax DEF LS!Value, LS!LastWrite
  <2> QED
    BY <2>6, <2>7 DEF Update
<1> QED
  BY <1>1, <1>2

(* The updates a commit appends have one block for each it patched.          *)
LEMMA UpdatesExact ==
  ASSUME NEW blks \in Partial(Block, Value), IsFiniteSet(DOMAIN blks)
  PROVE  LET u == SetToSeq({ [Addr |-> b, Block |-> blks[b]] : b \in DOMAIN blks }) IN
         /\ u \in Seq(Update) /\ Len(u) \in Nat /\ DOMAIN u = 1 .. Len(u)
         /\ \A b \in DOMAIN blks : (\E j \in DOMAIN u : u[j].Addr = b) /\ LS!LastWrite(u, b) = blks[b]
         /\ \A j \in DOMAIN u : u[j].Addr \in DOMAIN blks
<1> DEFINE D == DOMAIN blks
           F == [b \in D |-> [Addr |-> b, Block |-> blks[b]]]
           S == { [Addr |-> b, Block |-> blks[b]] : b \in D }
           u == SetToSeq(S)
<1>0. /\ \A b \in D : [Addr |-> b, Block |-> blks[b]] \in S
      /\ \A x \in S : \E b \in D : x = [Addr |-> b, Block |-> blks[b]]
  OBVIOUS
<1>1. F \in Surjection(D, S)
  BY DEF Surjection
<1>2. IsFiniteSet(S)
  BY <1>1, FS_Surjection
<1>3. /\ u \in Seq(S) /\ DOMAIN u = 1 .. Len(u) /\ Len(u) \in Nat
      /\ \A i, j \in DOMAIN u : u[i] = u[j] => i = j
      /\ \A x \in S : \E j \in DOMAIN u : u[j] = x
  <2> HIDE DEF S
  <2> QED
    BY <1>2, SetToSeqLists
<1>4. S \subseteq Update
  <2>1. D \subseteq Block /\ blks \in [D -> Value]
    BY PartialIs
  <2> QED
    BY <2>1 DEF Update
<1>5. u \in Seq(Update)
  <2> HIDE DEF S
  <2> QED
    BY <1>3, <1>4, SeqMonotonic
<1>6. \A j \in DOMAIN u : u[j] \in S
  <2> HIDE DEF S
  <2> QED
    BY <1>3, ElementOfSeq
<1>7. ASSUME NEW b \in D
      PROVE  (\E j \in DOMAIN u : u[j].Addr = b) /\ LS!LastWrite(u, b) = blks[b]
  <2> DEFINE J == { j \in DOMAIN u : u[j].Addr = b }
  <2> HIDE DEF S, u
  <2>1. PICK j \in DOMAIN u : u[j] = [Addr |-> b, Block |-> blks[b]]
    BY <1>0, <1>3
  <2>2. \A i \in DOMAIN u : u[i].Addr = b => u[i] = u[j]
    <3> SUFFICES ASSUME NEW i \in DOMAIN u, u[i].Addr = b PROVE u[i] = u[j]
      OBVIOUS
    <3>1. PICK d \in D : u[i] = [Addr |-> d, Block |-> blks[d]]
      BY <1>0, <1>6
    <3> QED
      BY <2>1, <3>1
  <2>3. J = {j}
    BY <1>3, <2>1, <2>2
  <2>4. Max({j}) = j
    BY <1>3, <2>1 DEF Max
  <2>5. LS!LastWrite(u, b) = u[j].Block
    BY <2>3, <2>4, SameMax DEF LS!LastWrite
  <2> QED
    BY <2>1, <2>5
<1>8. ASSUME NEW j \in DOMAIN u
      PROVE  u[j].Addr \in D
  <2> HIDE DEF S, u
  <2>1. PICK d \in D : u[j] = [Addr |-> d, Block |-> blks[d]]
    BY <1>0, <1>6
  <2> QED
    BY <2>1
<1> QED
  BY <1>3, <1>5, <1>7, <1>8

(* What the log reads after a commit: the blocks of the commit, and of the   *)
(* others what it read before.                                               *)
LEMMA ValueAppend ==
  ASSUME NEW ts \in Seq(Txn), NEW t \in Txn, NEW b \in Block
  PROVE  LS!Value(Append(ts, t), b) =
           IF \E j \in DOMAIN t.upds : t.upds[j].Addr = b
             THEN LS!LastWrite(t.upds, b) ELSE LS!Value(ts, b)
<1> DEFINE tt == Append(ts, t)
           n == Len(ts)
           W == LS!Writers(ts, b)
           V == LS!Writers(tt, b)
<1>1. /\ n \in Nat /\ Len(tt) = n + 1 /\ tt[n + 1] = t
      /\ \A i \in 1 .. n : tt[i] = ts[i]
      /\ DOMAIN tt = 1 .. n + 1 /\ DOMAIN ts = 1 .. n
  BY AppendProperties
<1>2. W \subseteq 1 .. n
  BY <1>1 DEF LS!Writers
<1>3. \A i \in 1 .. n : i \in V <=> i \in W
  BY <1>1 DEF LS!Writers
<1>4. V \subseteq 1 .. n + 1
  BY <1>1 DEF LS!Writers
<1>5. CASE \E j \in DOMAIN t.upds : t.upds[j].Addr = b
  <2>1. n + 1 \in V
    BY <1>1, <1>5 DEF LS!Writers
  <2>2. Max(V) = n + 1
    BY <1>1, <1>4, <2>1, MaxIsIn
  <2> QED
    BY <1>1, <1>5, <2>1, <2>2, SameMax DEF LS!Value
<1>6. CASE ~\E j \in DOMAIN t.upds : t.upds[j].Addr = b
  <2>1. n + 1 \notin V
    BY <1>1, <1>6 DEF LS!Writers
  <2>2. V = W
    <3> HIDE DEF V, W
    <3>1. \A i \in 1 .. n + 1 : i # n + 1 => i \in 1 .. n
      BY <1>1
    <3>2. V \subseteq W /\ W \subseteq V
      BY <1>2, <1>3, <1>4, <2>1, <3>1
    <3> QED
      BY <3>2
  <2>3. CASE W = {}
    BY <1>6, <2>2, <2>3 DEF LS!Value
  <2>4. CASE W # {}
    <3>1. Max(W) \in 1 .. n
      BY <1>1, <1>2, <2>4, MaxIsIn
    <3>2. tt[Max(W)] = ts[Max(W)]
      BY <1>1, <3>1
    <3> QED
      BY <1>6, <2>2, <2>4, <3>2, SameMax DEF LS!Value
  <2> QED
    BY <2>3, <2>4
<1> QED
  BY <1>5, <1>6

-----------------------------------------------------------------------------
(* Types                                                                     *)

(* The values variables are reset to have their types.                       *)
LEMMA ResetTypes ==
  /\ NoBlk \in Partial(Block, Value)
  /\ NoOp \in Local
  /\ NoBufs \in [Obj -> Buf]
  /\ NoObjs \in Partial(Obj, Nat)
  /\ ZeroBlock \in Value
<1>1. NoBlk \in [{} -> Value]
  BY DEF NoBlk
<1>2. NoBlk \in Partial(Block, Value)
  BY <1>1, PartialIs
<1>3. (CHOOSE o \in Obj : TRUE) \in Obj
  BY ObjAssumption
<1>4. NoOp \in Local
  BY <1>2, <1>3, BoundsAssumption DEF NoOp, Local
<1>5. NoBufs \in [Obj -> Buf]
  BY DEF NoBufs, NoBuf, Buf
<1>6. ZeroBlock \in Value
  BY DEF ZeroBlock, Value
<1>7. NoObjs \in [{} -> Nat]
  BY DEF NoObjs
<1>8. NoObjs \in Partial(Obj, Nat)
  BY <1>7, PartialIs
<1> QED
  BY <1>2, <1>4, <1>5, <1>6, <1>8

(* A fresh journal is well typed.                                            *)
LEMMA InitType == Init => TypeOK
<1> SUFFICES ASSUME Init PROVE TypeOK
  OBVIOUS
<1>1. txns \in Seq(Txn) /\ Len(txns) = 1
  <2>1. [pos |-> 0, upds |-> <<>>] \in Txn
    BY DEF Txn
  <2> QED
    BY <2>1 DEF Init
<1>2. commits \in Seq(Partial(Obj, Nat)) /\ Len(commits) = 1
  BY ResetTypes DEF Init
<1>3. owned \in [Client -> SUBSET LockAddr]
  BY DEF Init, LK!Init
<1>4. bufs \in [Client -> [Obj -> Buf]] /\ op \in [Client -> Local] /\ pc \in [Client -> Place]
  BY ResetTypes DEF Init, Place
<1>5. promised \in [wait : Nat, flush : Nat, flushAfterFail : Nat]
  BY DEF Init
<1>6. /\ mu \in Client \cup {Free} /\ pos \in Nat /\ begun \in 0 .. MaxTxns /\ crashes \in Nat
      /\ failed \in BOOLEAN /\ durable = 1
  <2>1. 0 \in 0 .. MaxTxns
    BY BoundsAssumption
  <2> QED
    BY <2>1 DEF Init
<1>7. saw \in [Client -> Partial(Obj, Nat)]
  BY ResetTypes DEF Init
<1> QED
  BY <1>1, <1>2, <1>3, <1>4, <1>5, <1>6, <1>7 DEF TypeOK

(* What the log reads is of one type throughout.                             *)
LEMMA ReadType ==
  ASSUME TypeOK
  PROVE  /\ \A b \in Block : Read(b) \in Value
         /\ \A o \in Obj : Current(o) \in Nat
<1>1. \A b \in Block : Read(b) \in Value
  BY ValueType DEF TypeOK, Read
<1> QED
  BY <1>1, ObjParts DEF Current, Value

(* A read of an object that is not in a buffer is remembered.                *)
LEMMA ReadSaw ==
  ASSUME TypeOK, NEW c \in Client, ReadBuf(c)
  PROVE  /\ saw' \in [Client -> Partial(Obj, Nat)]
         /\ op[c].arg \in Obj
         /\ \A d \in Client \ {c} : saw'[d] = saw[d]
         /\ bufs[c][op[c].arg].st # "none" => saw' = saw
         /\ bufs[c][op[c].arg].st = "none" =>
              saw'[c] = [x \in DOMAIN saw[c] \cup {op[c].arg} |->
                           IF x = op[c].arg THEN Current(op[c].arg) ELSE saw[c][x]]
<1> DEFINE a == op[c].arg
           seen == [x \in DOMAIN saw[c] \cup {a} |-> IF x = a THEN Current(a) ELSE saw[c][x]]
<1>1. saw \in [Client -> Partial(Obj, Nat)] /\ a \in Obj
  BY DEF TypeOK, Local
<1>2. DOMAIN saw[c] \subseteq Obj /\ saw[c] \in [DOMAIN saw[c] -> Nat]
  BY <1>1, PartialIs
<1>3. seen \in Partial(Obj, Nat)
  <2>1. Current(a) \in Nat
    BY <1>1, ReadType
  <2>2. seen \in [DOMAIN saw[c] \cup {a} -> Nat]
    BY <1>2, <2>1
  <2> HIDE DEF seen
  <2> QED
    BY <1>1, <1>2, <2>2, PartialIs
<1>4. CASE bufs[c][a].st # "none"
  BY <1>1, <1>4 DEF ReadBuf
<1>5. CASE bufs[c][a].st = "none"
  <2>1. saw' = [saw EXCEPT ![c] = seen]
    BY <1>1, <1>5 DEF ReadBuf
  <2>2. saw'[c] = seen
    BY <1>1, <2>1
  <2> HIDE DEF seen
  <2>3. saw' \in [Client -> Partial(Obj, Nat)] /\ \A d \in Client \ {c} : saw'[d] = saw[d]
    BY <1>1, <1>3, <2>1
  <2> QED
    BY <1>1, <1>5, <2>2, <2>3 DEF seen
<1> QED
  BY <1>4, <1>5

(* Steps of a transaction that touch neither the log nor what was promised.  *)
LEMMA QuietType ==
  ASSUME TypeOK, NEW c \in Client,
         \/ Begin(c) \/ ReadBuf(c) \/ OverWrite(c) \/ CommitReadOnly(c)
         \/ (\E w \in BOOLEAN : CallCommit(c, w))
         \/ CommitLock(c) \/ CommitFail(c) \/ ReleaseDone(c) \/ Abort(c)
         \/ CallFlush(c) \/ FlushRead(c)
  PROVE  TypeOK'
<1>t. /\ op[c] \in Local /\ bufs[c] \in [Obj -> Buf] /\ op \in [Client -> Local]
      /\ bufs \in [Client -> [Obj -> Buf]] /\ pc \in [Client -> Place]
      /\ saw \in [Client -> Partial(Obj, Nat)]
  BY DEF TypeOK
<1>r. /\ NoOp \in Local /\ NoBlk \in Partial(Block, Value) /\ NoBufs \in [Obj -> Buf]
      /\ NoObjs \in Partial(Obj, Nat)
  BY ResetTypes
<1>1. CASE Begin(c)
  <2>2. begun + 1 \in 0 .. MaxTxns
    BY <1>1, BoundsAssumption DEF TypeOK, Begin
  <2>1. [NoOp EXCEPT !.n = begun + 1] \in Local
    BY <1>r, <2>2 DEF Local
  <2> QED
    BY <1>1, <1>r, <2>1, <2>2 DEF TypeOK, Begin, Goto, Place, logvars
<1>2. CASE ReadBuf(c)
  <2>1. op[c].arg \in Obj
    BY <1>t DEF Local
  <2>2. [st |-> "clean", data |-> Current(op[c].arg)] \in Buf
    BY <2>1, ReadType DEF Buf
  <2>3. bufs' \in [Client -> [Obj -> Buf]]
    <3> DEFINE clean == [st |-> "clean", data |-> Current(op[c].arg)]
    <3>1. bufs' = bufs \/ bufs' = [bufs EXCEPT ![c][op[c].arg] = clean]
      BY <1>2 DEF ReadBuf
    <3> HIDE DEF clean
    <3>2. clean \in Buf
      BY <2>2 DEF clean
    <3>3. [bufs EXCEPT ![c][op[c].arg] = clean] \in [Client -> [Obj -> Buf]]
      BY <1>t, <2>1, <3>2
    <3> QED
      BY <1>t, <3>1, <3>3
  <2>4. saw' \in [Client -> Partial(Obj, Nat)]
    BY <1>2, ReadSaw
  <2> QED
    <3>1. pc' \in [Client -> Place]
      BY <1>t, <1>2 DEF ReadBuf, Goto, Place
    <3>2. UNCHANGED <<logvars, owned, mu, pos, op, begun, crashes, commits, failed, promised>>
      BY <1>2 DEF ReadBuf
    <3> QED
      BY <2>3, <2>4, <3>1, <3>2 DEF TypeOK, logvars
<1>3. CASE OverWrite(c)
  <2>1. [st |-> "dirty", data |-> op[c].n] \in Buf
    BY <1>t DEF Local, Buf
  <2>3. bufs' \in [Client -> [Obj -> Buf]]
    BY <1>t, <1>3, <2>1 DEF OverWrite
  <2> QED
    BY <1>3, <2>3 DEF TypeOK, OverWrite, Goto, Place, logvars, histvars
<1>4. CASE CommitReadOnly(c) \/ CommitLock(c) \/ CommitFail(c) \/ Abort(c)
  <2>1. pc' \in [Client -> Place]
    BY <1>t, <1>4 DEF CommitReadOnly, CommitLock, CommitFail, Abort, Goto, Place
  <2>2. mu' \in Client \cup {Free} /\ pos' \in Nat /\ failed' \in BOOLEAN
    <3>1. mu \in Client \cup {Free} /\ pos \in Nat /\ failed \in BOOLEAN
      BY DEF TypeOK
    <3>2. CASE CommitReadOnly(c) \/ Abort(c)
      BY <3>1, <3>2 DEF CommitReadOnly, Abort, histvars
    <3>3. CASE CommitLock(c)
      BY <3>1, <3>3 DEF CommitLock, Lock, histvars
    <3>4. CASE CommitFail(c)
      BY <3>1, <3>4 DEF CommitFail
    <3> QED
      BY <1>4, <3>2, <3>3, <3>4
  <2>3. UNCHANGED <<logvars, owned, bufs, op, begun, crashes, saw, commits, promised>>
    BY <1>4 DEF CommitReadOnly, CommitLock, CommitFail, Abort, histvars
  <2> QED
    BY <2>1, <2>2, <2>3 DEF TypeOK, logvars
<1>5. ASSUME NEW w \in BOOLEAN, CallCommit(c, w)
      PROVE  TypeOK'
  <2>1. Dirty(c) \in SUBSET Obj
    BY DEF Dirty
  <2>2. op' \in [Client -> Local]
    BY <1>t, <1>r, <1>5, <2>1 DEF CallCommit, Local
  <2> QED
    BY <1>5, <2>2 DEF TypeOK, CallCommit, Goto, Place, logvars, histvars
<1>6. CASE ReleaseDone(c)
  BY <1>6, <1>r DEF TypeOK, ReleaseDone, Goto, Place, logvars
<1>7. CASE CallFlush(c)
  <2>1. Len(txns) \in Nat
    BY DEF TypeOK
  <2>2. op' \in [Client -> Local]
    BY <1>t, <1>7, <2>1 DEF CallFlush, Local
  <2> QED
    BY <1>7, <2>2 DEF TypeOK, CallFlush, Goto, Place, logvars, histvars
<1>8. CASE FlushRead(c)
  <2>1. pos \in Nat /\ (~failed) \in BOOLEAN
    BY DEF TypeOK
  <2>2. op' \in [Client -> Local]
    BY <1>t, <1>8, <2>1 DEF FlushRead, Local
  <2> QED
    BY <1>8, <2>2 DEF TypeOK, FlushRead, Goto, Place, logvars, histvars
<1> QED
  BY <1>1, <1>2, <1>3, <1>4, <1>5, <1>6, <1>7, <1>8

(* Taking and releasing locks.                                               *)
LEMMA LockType ==
  ASSUME TypeOK, NEW c \in Client,
         \/ \E o \in Obj : Touch(c, o, "read") \/ Touch(c, o, "write")
         \/ Release(c)
  PROVE  TypeOK'
<1>t. op \in [Client -> Local] /\ owned \in [Client -> SUBSET LockAddr]
  BY DEF TypeOK
<1>1. ASSUME NEW o \in Obj, NEW w \in {"read", "write"}, Touch(c, o, w)
      PROVE  TypeOK'
  <2>1. owned' \in [Client -> SUBSET LockAddr]
    <3>1. owned' = owned \/ owned' = [owned EXCEPT ![c] = @ \cup {Flatid(o)}]
      BY <1>1 DEF Touch, TxnAcquire, LK!Acquire
    <3>2. Flatid(o) \in LockAddr
      BY DEF LockAddr
    <3> QED
      BY <1>t, <3>1, <3>2
  <2>3. op[c] \in Local
    BY <1>t
  <2>4. [op[c] EXCEPT !.arg = o, !.ops = @ + 1] \in Local
    <3>1. op[c].ops \in Nat
      BY <2>3 DEF Local
    <3>2. PICK k \in Nat : k = op[c].ops + 1
      BY <3>1
    <3>3. [op[c] EXCEPT !.arg = o, !.ops = k] \in Local
      BY <2>3 DEF Local
    <3> QED
      BY <3>2, <3>3
  <2>5. op' = [op EXCEPT ![c] = [op[c] EXCEPT !.arg = o, !.ops = @ + 1]]
    BY <1>t, <1>1 DEF Touch
  <2>2. op' \in [Client -> Local]
    BY <1>t, <2>4, <2>5
  <2> QED
    BY <1>1, <2>1, <2>2 DEF TypeOK, Touch, Goto, Place, logvars, histvars
<1>2. CASE Release(c)
  <2>1. owned' \in [Client -> SUBSET LockAddr]
    BY <1>t, <1>2 DEF Release, LK!Release
  <2> QED
    BY <1>2, <2>1 DEF TypeOK, Release, logvars, histvars
<1> QED
  BY <1>1, <1>2

(* Calls that return move the promises.                                      *)
LEMMA PromiseType ==
  ASSUME TypeOK, NEW c \in Client, CommitWaited(c) \/ FlushReturn(c)
  PROVE  TypeOK'
<1>1. op[c].target \in Nat
  BY DEF TypeOK, Local
<1>2. promised.wait \in Nat /\ promised.flush \in Nat /\ promised.flushAfterFail \in Nat
  BY DEF TypeOK
<1>3. /\ Max({promised.wait, op[c].target}) \in Nat
      /\ Max({promised.flush, op[c].target}) \in Nat
      /\ Max({promised.flushAfterFail, op[c].target}) \in Nat
  BY <1>1, <1>2, MaxOfTwo
<1>4. promised' \in [wait : Nat, flush : Nat, flushAfterFail : Nat]
  <2>1. promised \in [wait : Nat, flush : Nat, flushAfterFail : Nat]
    BY DEF TypeOK
  <2>2. CASE CommitWaited(c)
    BY ONLY <1>3, <2>1, <2>2 DEF CommitWaited
  <2>3. CASE FlushReturn(c)
    BY ONLY <1>3, <2>1, <2>3 DEF FlushReturn
  <2> QED
    BY <2>2, <2>3
<1>5. CASE CommitWaited(c)
  BY <1>4, <1>5 DEF TypeOK, CommitWaited, Goto, Place, logvars
<1>6. CASE FlushReturn(c)
  BY <1>4, <1>6, ResetTypes DEF TypeOK, FlushReturn, Goto, Place, logvars
<1> QED
  BY <1>5, <1>6

-----------------------------------------------------------------------------
(* What the steps of a commit do                                             *)

(* Installing a buffer patches one offset of one block, which is read from   *)
(* the log if it is the first of its block.                                  *)
LEMMA InstallEffect ==
  ASSUME TypeOK, NEW c \in Client, InstallBuf(c)
  PROVE  \E o \in op[c].todo :
           LET blks == op[c].blks
               old  == IF o.Blkno \in DOMAIN blks THEN blks[o.Blkno] ELSE Read(o.Blkno)
           IN
           /\ o \in Obj /\ pc[c] = "install"
           /\ old \in Value
           /\ op' \in [Client -> Local]
           /\ \A d \in Client \ {c} : op'[d] = op[d]
           /\ op'[c].todo = op[c].todo \ {o}
           /\ DOMAIN op'[c].blks = DOMAIN blks \cup {o.Blkno}
           /\ op'[c].blks[o.Blkno] = [old EXCEPT ![o.Off] = bufs[c][o].data]
           /\ \A b \in DOMAIN blks : b # o.Blkno => op'[c].blks[b] = blks[b]
           /\ op'[c].arg = op[c].arg /\ op'[c].pos = op[c].pos
           /\ op'[c].target = op[c].target /\ op'[c].ok = op[c].ok
<1> DEFINE blks == op[c].blks
<1>t. /\ op \in [Client -> Local] /\ op[c] \in Local /\ bufs[c] \in [Obj -> Buf]
      /\ op[c].todo \subseteq Obj /\ blks \in Partial(Block, Value)
  BY DEF TypeOK, Local
<1>1. PICK o \in op[c].todo :
        op' = [op EXCEPT ![c].todo = @ \ {o},
                         ![c].blks = [d \in DOMAIN @ \cup {o.Blkno} |->
                                        IF d = o.Blkno THEN [Blk(c, o.Blkno) EXCEPT ![o.Off] = bufs[c][o].data]
                                                       ELSE @[d]]]
  BY DEF InstallBuf
<1> DEFINE b == o.Blkno
           blk == [Blk(c, b) EXCEPT ![o.Off] = bufs[c][o].data]
           nblks == [d \in DOMAIN blks \cup {b} |-> IF d = b THEN blk ELSE blks[d]]
<1>2. o \in Obj /\ b \in Block /\ o.Off \in Off /\ bufs[c][o].data \in Nat
  BY <1>t, ObjParts DEF Buf
<1>3. DOMAIN blks \subseteq Block /\ blks \in [DOMAIN blks -> Value]
  BY <1>t, PartialIs
<1>4. Blk(c, b) \in Value
  BY <1>2, <1>3, ReadType DEF Blk
<1>5. blk \in Value
  BY <1>2, <1>4 DEF Value
<1>6. nblks \in Partial(Block, Value)
  <2>1. nblks \in [DOMAIN blks \cup {b} -> Value]
    BY <1>3, <1>5
  <2> HIDE DEF nblks
  <2> QED
    BY <1>2, <1>3, <2>1, PartialIs
<1>7. op' = [op EXCEPT ![c] = [op[c] EXCEPT !.todo = @ \ {o}, !.blks = nblks]]
  BY <1>t, <1>1
<1>8. [op[c] EXCEPT !.todo = @ \ {o}, !.blks = nblks] \in Local
  <2> HIDE DEF nblks
  <2>1. PICK T \in SUBSET Obj : T = op[c].todo \ {o}
    BY <1>t
  <2>2. [op[c] EXCEPT !.todo = T, !.blks = nblks] \in Local
    BY <1>t, <1>6 DEF Local
  <2> QED
    BY <2>1, <2>2
<1>9. op' \in [Client -> Local] /\ \A d \in Client \ {c} : op'[d] = op[d]
  <2> HIDE DEF nblks
  <2> QED
    BY <1>t, <1>7, <1>8
<1>10. /\ op'[c].todo = op[c].todo \ {o} /\ op'[c].blks = nblks
       /\ op'[c].arg = op[c].arg /\ op'[c].pos = op[c].pos
       /\ op'[c].target = op[c].target /\ op'[c].ok = op[c].ok
  <2> HIDE DEF nblks
  <2>1. op'[c] = [op[c] EXCEPT !.todo = @ \ {o}, !.blks = nblks]
    BY <1>t, <1>7
  <2> QED
    BY <1>t, <2>1 DEF Local
<1>11. /\ DOMAIN nblks = DOMAIN blks \cup {b} /\ nblks[b] = blk
       /\ \A d \in DOMAIN blks : d # b => nblks[d] = blks[d]
  OBVIOUS
<1>12. pc[c] = "install"
  BY DEF InstallBuf
<1> HIDE DEF nblks
<1> QED
  BY <1>2, <1>4, <1>9, <1>10, <1>11, <1>12 DEF Blk

(* A commit appends one transaction, after which the log reads the blocks of *)
(* the commit and of the others what it read before.                         *)
LEMMA AppendEffect ==
  ASSUME TypeOK, Committing, NEW c \in Client, CommitAppend(c)
  PROVE  /\ \E t \in Txn :
              /\ txns' = Append(txns, t)
              /\ \A i \in DOMAIN txns : txns[i].pos <= t.pos
              /\ pos' = t.pos
              /\ op' \in [Client -> Local]
              /\ \A d \in Client \ {c} : op'[d] = op[d]
              /\ op'[c].pos = t.pos /\ op'[c].target = Len(txns) + 1
         /\ \A b \in Block : LS!Value(txns', b) = IF b \in DOMAIN op[c].blks THEN op[c].blks[b] ELSE Read(b)
         /\ pc[c] = "install" /\ op[c].todo = {} /\ BlocksPatched(c)
         /\ LET w == [o \in Dirty(c) |-> bufs[c][o].data] IN
              w \in Partial(Obj, Nat) /\ commits' = Append(commits, w)
<1> DEFINE blks == op[c].blks
           upds == SetToSeq({ [Addr |-> b, Block |-> blks[b]] : b \in DOMAIN blks })
<1>t. /\ op \in [Client -> Local] /\ op[c] \in Local /\ bufs[c] \in [Obj -> Buf]
      /\ blks \in Partial(Block, Value) /\ txns \in Seq(Txn) /\ Len(txns) \in Nat \ {0}
  BY DEF TypeOK, Local
<1>1. pc[c] = "install" /\ op[c].todo = {} /\ BlocksPatched(c)
  BY DEF CommitAppend, Committing
<1>2. IsFiniteSet(DOMAIN blks)
  BY <1>1 DEF BlocksPatched
<1>3. /\ upds \in Seq(Update) /\ Len(upds) \in Nat /\ DOMAIN upds = 1 .. Len(upds)
      /\ \A b \in DOMAIN blks : (\E j \in DOMAIN upds : upds[j].Addr = b) /\ LS!LastWrite(upds, b) = blks[b]
      /\ \A j \in DOMAIN upds : upds[j].Addr \in DOMAIN blks
  BY <1>t, <1>2, UpdatesExact
<1> DEFINE last == txns[Len(txns)]
<1>4. last \in Txn /\ last.pos \in Nat
  <2>1. last \in Txn
    BY <1>t, ElementOfSeq
  <2> QED
    BY <2>1 DEF Txn
<1>5. PICK k \in Grow(Len(upds)) :
        /\ txns' = Append(txns, [pos |-> last.pos + k, upds |-> upds])
        /\ pos' = last.pos + k
        /\ op' = [op EXCEPT ![c].pos = last.pos + k, ![c].target = Len(txns) + 1]
  <2> HIDE DEF upds
  <2> QED
    BY DEF CommitAppend, NewPos, upds
<1> HIDE DEF upds
<1>6. k \in Nat
  BY <1>3, <1>5 DEF Grow
<1> DEFINE t == [pos |-> last.pos + k, upds |-> upds]
<1>7. t \in Txn /\ t.pos \in Nat /\ t.pos = last.pos + k /\ t.upds = upds
  BY <1>3, <1>4, <1>6 DEF Txn
<1>8. txns' = Append(txns, t) /\ pos' = t.pos
  BY <1>5, <1>7
<1>9. op' = [op EXCEPT ![c] = [op[c] EXCEPT !.pos = t.pos, !.target = Len(txns) + 1]]
  BY <1>t, <1>5, <1>7
<1> HIDE DEF t
<1>10. [op[c] EXCEPT !.pos = t.pos, !.target = Len(txns) + 1] \in Local
  <2>1. PICK n \in Nat : n = Len(txns) + 1
    BY <1>t
  <2>2. [op[c] EXCEPT !.pos = t.pos, !.target = n] \in Local
    BY <1>t, <1>7 DEF Local
  <2> QED
    BY <2>1, <2>2
<1>11. op' \in [Client -> Local] /\ \A d \in Client \ {c} : op'[d] = op[d]
  BY <1>t, <1>9, <1>10
<1>12. op'[c].pos = t.pos /\ op'[c].target = Len(txns) + 1
  <2>1. op'[c] = [op[c] EXCEPT !.pos = t.pos, !.target = Len(txns) + 1]
    BY <1>t, <1>9
  <2> QED
    BY <1>t, <2>1 DEF Local
<1>13. \A i \in DOMAIN txns : txns[i].pos <= t.pos
  <2>1. Len(txns') = Len(txns) + 1 /\ txns'[Len(txns')] = t
    BY <1>t, <1>7, <1>8, AppendProperties
  <2>2. \A i \in DOMAIN txns : txns[i].pos <= txns'[Len(txns')].pos
    BY DEF CommitAppend, LS!LogMemAppend
  <2> QED
    BY <2>1, <2>2
<1>14. ASSUME NEW b \in Block
       PROVE  LS!Value(txns', b) = IF b \in DOMAIN blks THEN blks[b] ELSE Read(b)
  <2>1. LS!Value(txns', b) = IF \E j \in DOMAIN t.upds : t.upds[j].Addr = b
                               THEN LS!LastWrite(t.upds, b) ELSE LS!Value(txns, b)
    BY <1>t, <1>7, <1>8, ValueAppend
  <2>2. (\E j \in DOMAIN t.upds : t.upds[j].Addr = b) <=> b \in DOMAIN blks
    BY <1>3, <1>7
  <2> QED
    BY <1>3, <1>7, <2>1, <2>2 DEF Read
<1> DEFINE w == [o \in Dirty(c) |-> bufs[c][o].data]
<1>15. w \in Partial(Obj, Nat)
  <2>1. Dirty(c) \in SUBSET Obj
    BY DEF Dirty
  <2>2. w \in [Dirty(c) -> Nat]
    BY <1>t, <2>1 DEF Buf
  <2> HIDE DEF w
  <2> QED
    BY <2>1, <2>2, PartialIs
<1>16. commits' = Append(commits, w)
  BY DEF CommitAppend
<1> QED
  BY <1>1, <1>7, <1>8, <1>11, <1>12, <1>13, <1>14, <1>15, <1>16

(* A crash keeps a prefix of the log, all of it on disk.                     *)
LEMMA CrashEffect ==
  ASSUME TypeOK, Crash
  PROVE  \E n \in durable .. Len(txns) :
           /\ n \in 1 .. Len(txns)
           /\ txns' = SubSeq(txns, 1, n) /\ txns' \in Seq(Txn) /\ Len(txns') = n
           /\ \A i \in 1 .. n : txns'[i] = txns[i]
           /\ commits' = SubSeq(commits, 1, n) /\ commits' \in Seq(Partial(Obj, Nat)) /\ Len(commits') = n
           /\ \A i \in 1 .. n : commits'[i] = commits[i]
           /\ durable' = n
<1>1. PICK n \in durable .. Len(txns) : txns' = SubSeq(txns, 1, n) /\ durable' = n
  BY DEF Crash, LS!LogCrash
<1>2. /\ n \in 1 .. Len(txns) /\ n \in Int /\ txns \in Seq(Txn)
      /\ commits \in Seq(Partial(Obj, Nat)) /\ Len(commits) = Len(txns)
  BY <1>1 DEF TypeOK
<1>3. txns' \in Seq(Txn) /\ Len(txns') = n /\ \A i \in 1 .. n : txns'[i] = txns[i]
  <2>1. \A i \in 1 .. n : txns[i] \in Txn
    BY <1>2, ElementOfSeq
  <2> QED
    BY <1>1, <1>2, <2>1, SubSeqProperties
<1>4. /\ commits' = SubSeq(commits, 1, n)
      /\ commits' \in Seq(Partial(Obj, Nat)) /\ Len(commits') = n
      /\ \A i \in 1 .. n : commits'[i] = commits[i]
  <2>1. \A i \in 1 .. n : commits[i] \in Partial(Obj, Nat)
    BY <1>2, ElementOfSeq
  <2>2. commits' = SubSeq(commits, 1, n)
    BY <1>3 DEF Crash
  <2> QED
    BY <1>2, <2>1, <2>2, SubSeqProperties
<1> QED
  BY <1>1, <1>2, <1>3, <1>4

(* The steps that change the log have the types they should.                 *)
LEMMA LogType ==
  ASSUME TypeOK, Committing,
         (\E c \in Client : InstallBuf(c) \/ CommitAppend(c)) \/ BecomesDurable \/ Crash
  PROVE  TypeOK'
<1>1. ASSUME NEW c \in Client, InstallBuf(c)
      PROVE  TypeOK'
  <2>1. op' \in [Client -> Local]
    BY <1>1, InstallEffect
  <2> QED
    BY <1>1, <2>1 DEF TypeOK, InstallBuf, logvars, histvars
<1>2. ASSUME NEW c \in Client, CommitAppend(c)
      PROVE  TypeOK'
  <2> DEFINE w == [o \in Dirty(c) |-> bufs[c][o].data]
  <2>1. PICK t \in Txn : txns' = Append(txns, t) /\ pos' = t.pos /\ op' \in [Client -> Local]
    BY <1>2, AppendEffect
  <2>2. w \in Partial(Obj, Nat) /\ commits' = Append(commits, w)
    BY <1>2, AppendEffect
  <2> HIDE DEF w
  <2>3. txns \in Seq(Txn) /\ commits \in Seq(Partial(Obj, Nat)) /\ Len(commits) = Len(txns)
    BY DEF TypeOK
  <2>4. txns' \in Seq(Txn) /\ Len(txns') = Len(txns) + 1
    BY <2>1, <2>3, AppendProperties
  <2>5. commits' \in Seq(Partial(Obj, Nat)) /\ Len(commits') = Len(commits) + 1
    BY <2>2, <2>3, AppendProperties
  <2>6. durable' = durable /\ durable \in 1 .. Len(txns')
    BY <1>2, <2>4 DEF TypeOK, CommitAppend, LS!LogMemAppend
  <2>7. pos' \in Nat
    BY <2>1 DEF Txn
  <2>8. pc' \in [Client -> Place]
    BY <1>2 DEF TypeOK, CommitAppend, Goto, Place
  <2>9. UNCHANGED <<owned, bufs, begun, crashes, saw, promised>> /\ mu' = Free /\ failed' = FALSE
    BY <1>2 DEF CommitAppend
  <2> QED
    BY <2>1, <2>3, <2>4, <2>5, <2>6, <2>7, <2>8, <2>9 DEF TypeOK
<1>3. CASE BecomesDurable
  <2>1. durable' \in durable .. Len(txns) /\ txns' = txns
    BY <1>3 DEF BecomesDurable, LS!UpdateDurable
  <2>2. durable' \in 1 .. Len(txns)
    BY <2>1 DEF TypeOK
  <2> QED
    BY <1>3, <2>1, <2>2 DEF TypeOK, BecomesDurable, memvars, histvars
<1>4. CASE Crash
  <2>1. PICK n \in 1 .. Len(txns) :
          /\ txns' \in Seq(Txn) /\ Len(txns') = n
          /\ commits' \in Seq(Partial(Obj, Nat)) /\ Len(commits') = n
          /\ durable' = n
    BY <1>4, CrashEffect
  <2>2. /\ owned' = [c \in Client |-> {}] /\ mu' = Free /\ pos' = 0
        /\ pc' = [c \in Client |-> "idle"] /\ bufs' = [c \in Client |-> NoBufs]
        /\ op' = [c \in Client |-> NoOp] /\ failed' = FALSE
        /\ crashes' = crashes + 1 /\ begun' = begun /\ promised' = promised
        /\ saw' = [c \in Client |-> NoObjs]
    BY <1>4 DEF Crash
  <2>3. durable' \in 1 .. Len(txns')
    BY <2>1
  <2>4. pc' \in [Client -> Place] /\ bufs' \in [Client -> [Obj -> Buf]] /\ op' \in [Client -> Local]
    BY <2>2, ResetTypes DEF Place
  <2>5. /\ crashes' \in Nat /\ begun' \in 0 .. MaxTxns /\ saw' \in [Client -> Partial(Obj, Nat)]
        /\ promised' \in [wait : Nat, flush : Nat, flushAfterFail : Nat]
    BY <2>2, ResetTypes DEF TypeOK
  <2> QED
    BY <2>1, <2>2, <2>3, <2>4, <2>5 DEF TypeOK
<1> QED
  BY <1>1, <1>2, <1>3, <1>4

(* Every step keeps the types.                                               *)
LEMMA TypeStep ==
  ASSUME TypeOK, Committing, [Next]_vars
  PROVE  TypeOK'
<1>1. ASSUME NEW c \in Client, ClientNext(c)
      PROVE  TypeOK'
  BY <1>1, QuietType, LockType, PromiseType, LogType DEF ClientNext
<1>2. CASE BecomesDurable \/ Crash
  BY <1>2, LogType
<1>3. CASE UNCHANGED vars
  BY <1>3 DEF TypeOK, vars, memvars
<1> QED
  BY <1>1, <1>2, <1>3 DEF Next

-----------------------------------------------------------------------------
(* Who is touched                                                            *)

(* A client's step leaves what the others are doing alone.                   *)
LEMMA Others ==
  ASSUME TypeOK, NEW c \in Client, ClientNext(c), NEW d \in Client \ {c}
  PROVE  pc'[d] = pc[d] /\ bufs'[d] = bufs[d] /\ op'[d] = op[d] /\ owned'[d] = owned[d] /\ saw'[d] = saw[d]
<1>t. /\ pc \in [Client -> Place] /\ bufs \in [Client -> [Obj -> Buf]] /\ op \in [Client -> Local]
      /\ owned \in [Client -> SUBSET LockAddr] /\ saw \in [Client -> Partial(Obj, Nat)]
  BY DEF TypeOK
<1>1. CASE Begin(c) \/ OverWrite(c) \/ ReleaseDone(c)
  BY <1>t, <1>1 DEF Begin, OverWrite, ReleaseDone, Goto, histvars
<1>6. CASE ReadBuf(c)
  BY <1>t, <1>6, ReadSaw DEF ReadBuf, Goto
<1>2. ASSUME NEW o \in Obj, Touch(c, o, "read") \/ Touch(c, o, "write")
      PROVE  pc'[d] = pc[d] /\ bufs'[d] = bufs[d] /\ op'[d] = op[d] /\ owned'[d] = owned[d] /\ saw'[d] = saw[d]
  BY <1>t, <1>2 DEF Touch, TxnAcquire, LK!Acquire, Goto, histvars
<1>3. CASE Abort(c) \/ CommitReadOnly(c) \/ (\E w \in BOOLEAN : CallCommit(c, w)) \/ CommitLock(c)
           \/ CommitFail(c) \/ CommitWaited(c)
  BY <1>t, <1>3 DEF Abort, CommitReadOnly, CallCommit, CommitLock, CommitFail, CommitWaited, Goto, histvars
<1>4. CASE InstallBuf(c) \/ CommitAppend(c)
  BY <1>t, <1>4 DEF InstallBuf, CommitAppend, Goto, histvars
<1>5. CASE Release(c) \/ CallFlush(c) \/ FlushRead(c) \/ FlushReturn(c)
  BY <1>t, <1>5 DEF Release, LK!Release, CallFlush, FlushRead, FlushReturn, Goto, histvars
<1> QED
  BY <1>1, <1>2, <1>3, <1>4, <1>5, <1>6 DEF ClientNext

-----------------------------------------------------------------------------
(* Locks                                                                     *)

(* Fresh clients hold none.                                                  *)
LEMMA InitLocks == Init => LocksHeld
<1> SUFFICES ASSUME Init PROVE LocksHeld
  OBVIOUS
<1>1. LK!Exclusive
  BY DEF Init, LK!Init, LK!Exclusive
<1>2. \A c \in Client : pc[c] = "idle"
  BY DEF Init
<1> QED
  BY <1>1, <1>2 DEF LocksHeld, BeforeCommit

(* Every step keeps the locks of what a transaction has in hand.             *)
LEMMA LocksStep ==
  ASSUME TypeOK, LocksHeld, [Next]_vars
  PROVE  LocksHeld'
<1>t. /\ pc \in [Client -> Place] /\ bufs \in [Client -> [Obj -> Buf]] /\ op \in [Client -> Local]
      /\ owned \in [Client -> SUBSET LockAddr]
  BY DEF TypeOK
<1>1. ASSUME NEW c \in Client, ClientNext(c)
      PROVE  LocksHeld'
  <2> DEFINE Mine == /\ pc'[c] \in {"read", "write"} => Flatid(op'[c].arg) \in owned'[c]
                     /\ pc'[c] \in BeforeCommit =>
                          \A o \in Obj : bufs'[c][o].st # "none" => Flatid(o) \in owned'[c]
  <2>1. SUFFICES Mine /\ LK!Exclusive'
    <3>1. ASSUME NEW d \in Client \ {c}
          PROVE  /\ pc'[d] \in {"read", "write"} => Flatid(op'[d].arg) \in owned'[d]
                 /\ pc'[d] \in BeforeCommit =>
                      \A o \in Obj : bufs'[d][o].st # "none" => Flatid(o) \in owned'[d]
      BY <1>1, Others DEF LocksHeld
    <3> QED
      BY <3>1 DEF LocksHeld, Flatid, BeforeCommit
  <2>2. ASSUME UNCHANGED <<owned, bufs>>, pc'[c] \notin {"read", "write"},
               pc'[c] \in BeforeCommit => pc[c] \in BeforeCommit
        PROVE  Mine /\ LK!Exclusive'
    BY <2>2 DEF LocksHeld, LK!Exclusive
  <2>3. ASSUME NEW o \in Obj, NEW w \in {"read", "write"}, Touch(c, o, w)
        PROVE  Mine /\ LK!Exclusive'
    <3>1. pc'[c] = w /\ op'[c].arg = o /\ bufs' = bufs /\ pc[c] = "run"
      BY <1>t, <2>3 DEF Touch, Goto, Local
    <3>2. /\ owned[c] \subseteq owned'[c] /\ Flatid(o) \in owned'[c]
          /\ LK!Exclusive'
      <4>1. CASE Flatid(o) \in owned[c]
        BY <2>3, <4>1 DEF Touch, TxnAcquire, LocksHeld, LK!Exclusive
      <4>2. CASE Flatid(o) \notin owned[c]
        <5>1. /\ \A d \in Client : Flatid(o) \notin owned[d]
              /\ owned' = [owned EXCEPT ![c] = @ \cup {Flatid(o)}]
          BY <2>3, <4>2 DEF Touch, TxnAcquire, LK!Acquire, LK!IsFree
        <5> QED
          BY <1>t, <5>1 DEF LocksHeld, LK!Exclusive
      <4> QED
        BY <4>1, <4>2
    <3>3. \A p \in Obj : bufs[c][p].st # "none" => Flatid(p) \in owned[c]
      BY <3>1 DEF LocksHeld, BeforeCommit
    <3> QED
      BY <3>1, <3>2, <3>3
  <2>4. CASE ReadBuf(c) \/ OverWrite(c)
    <3>1. /\ pc[c] \in {"read", "write"} /\ pc'[c] = "run" /\ owned' = owned
          /\ op[c].arg \in Obj
      BY <1>t, <2>4 DEF ReadBuf, OverWrite, Goto, Local
    <3>2. \A o \in Obj : o # op[c].arg => bufs'[c][o] = bufs[c][o]
      BY <1>t, <2>4 DEF ReadBuf, OverWrite
    <3>3. Flatid(op[c].arg) \in owned[c] /\ \A o \in Obj : bufs[c][o].st # "none" => Flatid(o) \in owned[c]
      BY <3>1 DEF LocksHeld, BeforeCommit
    <3>4. LK!Exclusive'
      BY <3>1 DEF LocksHeld, LK!Exclusive
    <3> QED
      BY <3>1, <3>2, <3>3, <3>4
  <2>5. CASE Begin(c)
    <3>1. pc'[c] = "run" /\ owned' = owned /\ bufs'[c] = NoBufs
      BY <1>t, <2>5 DEF Begin, Goto
    <3>2. LK!Exclusive'
      BY <3>1 DEF LocksHeld, LK!Exclusive
    <3> QED
      BY <3>1, <3>2 DEF NoBufs, NoBuf
  <2>6. CASE Release(c)
    <3>1. pc' = pc /\ pc[c] = "release"
      BY <2>6 DEF Release
    <3>2. LK!Exclusive'
      BY <1>t, <2>6 DEF Release, LK!Release, LocksHeld, LK!Exclusive
    <3> QED
      BY <3>1, <3>2 DEF BeforeCommit
  <2>7. CASE ReleaseDone(c)
    <3>1. pc'[c] = "idle" /\ owned' = owned
      BY <1>t, <2>7 DEF ReleaseDone, Goto
    <3>2. LK!Exclusive'
      BY <3>1 DEF LocksHeld, LK!Exclusive
    <3> QED
      BY <3>1, <3>2 DEF BeforeCommit
  <2>8. CASE Abort(c) \/ CommitReadOnly(c) \/ (\E w \in BOOLEAN : CallCommit(c, w)) \/ CommitLock(c)
             \/ CommitFail(c) \/ CommitWaited(c)
    <3>1. UNCHANGED <<owned, bufs>> /\ pc'[c] \in {"release", "commit", "install"}
      BY <1>t, <2>8 DEF Abort, CommitReadOnly, CallCommit, CommitLock, CommitFail, CommitWaited, Goto
    <3>2. pc'[c] \in BeforeCommit => pc[c] \in BeforeCommit
      BY <1>t, <2>8 DEF Abort, CommitReadOnly, CallCommit, CommitLock, CommitFail, CommitWaited, Goto, BeforeCommit
    <3> QED
      BY <3>1, <3>2, <2>2
  <2>9. CASE InstallBuf(c) \/ CommitAppend(c) \/ CallFlush(c) \/ FlushRead(c) \/ FlushReturn(c)
    <3>1. UNCHANGED <<owned, bufs>> /\ pc'[c] \in {"install", "wait", "release", "flush", "flushWait", "idle"}
      BY <1>t, <2>9 DEF InstallBuf, CommitAppend, CallFlush, FlushRead, FlushReturn, Goto
    <3>2. pc'[c] \in BeforeCommit => pc[c] \in BeforeCommit
      BY <1>t, <2>9 DEF InstallBuf, CommitAppend, CallFlush, FlushRead, FlushReturn, Goto, BeforeCommit
    <3> QED
      BY <3>1, <3>2, <2>2
  <2> QED
    BY <1>1, <2>3, <2>4, <2>5, <2>6, <2>7, <2>8, <2>9 DEF ClientNext
<1>2. CASE BecomesDurable \/ UNCHANGED vars
  <2>1. UNCHANGED <<owned, pc, bufs, op>>
    BY <1>2 DEF BecomesDurable, vars, memvars
  <2> QED
    BY <2>1 DEF LocksHeld, LK!Exclusive, Flatid, BeforeCommit
<1>3. CASE Crash
  <2>1. owned' = [c \in Client |-> {}] /\ pc' = [c \in Client |-> "idle"]
    BY <1>3 DEF Crash
  <2> QED
    BY <2>1 DEF LocksHeld, LK!Exclusive, BeforeCommit
<1> QED
  BY <1>1, <1>2, <1>3 DEF Next

-----------------------------------------------------------------------------
(* Reads                                                                     *)

(* After a commit the log reads, of each object, what the transaction wrote  *)
(* or what was there, if it wrote others only.                               *)
LEMMA AppendCurrent ==
  ASSUME TypeOK, Committing, NEW c \in Client, CommitAppend(c), NEW o \in Obj
  PROVE  LS!Value(txns', o.Blkno)[o.Off] = IF o \in Dirty(c) THEN bufs[c][o].data ELSE Current(o)
<1> DEFINE b == o.Blkno
           blks == op[c].blks
<1>1. LS!Value(txns', b) = IF b \in DOMAIN blks THEN blks[b] ELSE Read(b)
  BY AppendEffect, ObjParts
<1>2. BlocksPatched(c) /\ Installed(c) = Dirty(c)
  BY AppendEffect DEF Installed
<1>3. CASE o \in Dirty(c)
  BY <1>1, <1>2, <1>3 DEF BlocksPatched
<1>4. CASE o \notin Dirty(c)
  BY <1>1, <1>2, <1>4 DEF BlocksPatched, Current
<1> QED
  BY <1>3, <1>4

(* What a transaction has locked nobody else's commit writes.                *)
LEMMA LockedNotDirty ==
  ASSUME LocksHeld, NEW c \in Client, pc[c] = "install", NEW d \in Client \ {c},
         pc[d] \in BeforeCommit, NEW o \in Obj, bufs[d][o].st # "none"
  PROVE  o \notin Dirty(c)
<1>1. Flatid(o) \in owned[d]
  BY DEF LocksHeld
<1>2. Flatid(o) \notin owned[c]
  BY <1>1 DEF LocksHeld, LK!Exclusive
<1>3. bufs[c][o].st = "none"
  BY <1>2 DEF LocksHeld, BeforeCommit
<1> QED
  BY <1>3 DEF Dirty

(* What was read of the log stays in a buffer.                               *)
LEMMA BufferedStep ==
  ASSUME TypeOK, ReadsBuffered, [Next]_vars
  PROVE  ReadsBuffered'
<1>t. /\ pc \in [Client -> Place] /\ bufs \in [Client -> [Obj -> Buf]]
      /\ saw \in [Client -> Partial(Obj, Nat)]
  BY DEF TypeOK
<1>1. ASSUME NEW c \in Client, ClientNext(c),
             pc'[c] \in BeforeCommit => \A o \in DOMAIN saw'[c] : bufs'[c][o].st # "none"
      PROVE  ReadsBuffered'
  <2>1. \A d \in Client \ {c} : pc'[d] = pc[d] /\ bufs'[d] = bufs[d] /\ saw'[d] = saw[d]
    BY <1>1, Others
  <2> QED
    BY <1>1, <2>1 DEF ReadsBuffered, BeforeCommit
<1>2. ASSUME NEW c \in Client, ReadBuf(c)
      PROVE  ReadsBuffered'
  <2>1. pc[c] = "read" /\ ClientNext(c)
    BY <1>2 DEF ReadBuf, ClientNext
  <2>2. \A o \in DOMAIN saw[c] : bufs[c][o].st # "none"
    BY <2>1 DEF ReadsBuffered, BeforeCommit
  <2>3. DOMAIN saw[c] \subseteq Obj /\ op[c].arg \in Obj
    BY <1>t, <1>2, PartialIs, ReadSaw
  <2>4. CASE bufs[c][op[c].arg].st # "none"
    <3>1. bufs' = bufs /\ saw' = saw
      BY <1>2, <2>4 DEF ReadBuf
    <3> QED
      BY <1>1, <2>1, <2>2, <3>1
  <2>5. CASE bufs[c][op[c].arg].st = "none"
    <3>1. DOMAIN saw'[c] = DOMAIN saw[c] \cup {op[c].arg}
      BY <1>2, <2>5, ReadSaw
    <3>2. bufs'[c] = [bufs[c] EXCEPT ![op[c].arg] = [st |-> "clean", data |-> Current(op[c].arg)]]
      BY <1>t, <1>2, <2>5 DEF ReadBuf
    <3>3. bufs[c] \in [Obj -> Buf]
      BY <1>t
    <3>4. \A o \in DOMAIN saw'[c] : bufs'[c][o].st # "none"
      BY <2>2, <2>3, <3>1, <3>2, <3>3
    <3> QED
      BY <1>1, <2>1, <3>4
  <2> QED
    BY <2>4, <2>5
<1>3. ASSUME NEW c \in Client, OverWrite(c)
      PROVE  ReadsBuffered'
  <2>1. pc[c] = "write" /\ ClientNext(c) /\ saw' = saw
    BY <1>3 DEF OverWrite, ClientNext, histvars
  <2>2. \A o \in DOMAIN saw[c] : bufs[c][o].st # "none" /\ o \in Obj
    BY <1>t, <2>1, PartialIs DEF ReadsBuffered, BeforeCommit
  <2>3. \A o \in Obj : bufs'[c][o] = bufs[c][o] \/ bufs'[c][o].st = "dirty"
    BY <1>3, <1>t DEF OverWrite
  <2> QED
    BY <1>1, <2>1, <2>2, <2>3
<1>4. ASSUME NEW c \in Client, Begin(c) \/ ReleaseDone(c)
      PROVE  ReadsBuffered'
  <2>1. ClientNext(c) /\ saw'[c] = NoObjs
    BY <1>4, <1>t DEF ClientNext, Begin, ReleaseDone
  <2> QED
    BY <1>1, <2>1 DEF NoObjs
<1>5. ASSUME NEW c \in Client,
             \/ \E o \in Obj : Touch(c, o, "read") \/ Touch(c, o, "write")
             \/ Abort(c) \/ CommitReadOnly(c) \/ (\E w \in BOOLEAN : CallCommit(c, w))
             \/ CommitLock(c) \/ InstallBuf(c)
      PROVE  ReadsBuffered'
  <2>1. ClientNext(c) /\ saw' = saw /\ bufs' = bufs /\ pc[c] \in BeforeCommit
    BY <1>5 DEF ClientNext, Touch, Abort, CommitReadOnly, CallCommit, CommitLock, InstallBuf, histvars, BeforeCommit
  <2> QED
    BY <1>1, <2>1 DEF ReadsBuffered
<1>6. ASSUME NEW c \in Client,
             \/ CommitFail(c) \/ CommitAppend(c) \/ CommitWaited(c) \/ Release(c)
             \/ CallFlush(c) \/ FlushRead(c) \/ FlushReturn(c)
      PROVE  ReadsBuffered'
  <2>1. ClientNext(c)
    BY <1>6 DEF ClientNext
  <2>2. pc'[c] \in {"wait", "release", "flush", "flushWait", "idle"}
    BY <1>6, <1>t DEF CommitFail, CommitAppend, CommitWaited, Release, CallFlush, FlushRead, FlushReturn, Goto
  <2> QED
    BY <1>1, <2>1, <2>2 DEF BeforeCommit
<1>7. CASE BecomesDurable \/ UNCHANGED vars
  <2>1. UNCHANGED <<saw, pc, bufs>>
    BY <1>7 DEF BecomesDurable, vars, memvars, histvars
  <2> QED
    BY <2>1 DEF ReadsBuffered, BeforeCommit
<1>8. CASE Crash
  <2>1. pc' = [c \in Client |-> "idle"]
    BY <1>8 DEF Crash
  <2> QED
    BY <2>1 DEF ReadsBuffered, BeforeCommit
<1> QED
  BY <1>2, <1>3, <1>4, <1>5, <1>6, <1>7, <1>8 DEF Next, ClientNext

(* A commit leaves alone what the others have read.                          *)
LEMMA CommitKeepsReads ==
  ASSUME TypeOK, LocksHeld, Committing, NEW c \in Client, CommitAppend(c),
         NEW d \in Client \ {c}, pc[d] \in BeforeCommit, NEW o \in Obj, bufs[d][o].st # "none"
  PROVE  LS!Value(txns', o.Blkno)[o.Off] = Current(o)
<1>1. pc[c] = "install"
  BY DEF CommitAppend
<1>2. o \notin Dirty(c)
  BY <1>1, LockedNotDirty
<1> QED
  BY <1>2, AppendCurrent

(* Every step keeps what was read.                                           *)
LEMMA ReadsStep ==
  ASSUME TypeOK, LocksHeld, ReadsBuffered, Committing, ReadsStable, [Next]_vars
  PROVE  ReadsStable'
<1>t. /\ pc \in [Client -> Place] /\ bufs \in [Client -> [Obj -> Buf]] /\ op \in [Client -> Local]
      /\ saw \in [Client -> Partial(Obj, Nat)]
  BY DEF TypeOK
<1>s. \A d \in Client : DOMAIN saw[d] \subseteq Obj
  BY <1>t, PartialIs
<1>1. ASSUME txns' = txns, NEW c \in Client, ClientNext(c),
             pc'[c] \in BeforeCommit =>
               /\ \A o \in Obj : bufs'[c][o].st = "clean" => bufs'[c][o].data = Current(o)
               /\ \A o \in DOMAIN saw'[c] : saw'[c][o] = Current(o)
      PROVE  ReadsStable'
  <2>1. \A d \in Client \ {c} : pc'[d] = pc[d] /\ bufs'[d] = bufs[d] /\ saw'[d] = saw[d]
    BY <1>1, Others
  <2>2. \A o : Current(o)' = Current(o)
    BY <1>1 DEF Current, Read
  <2> QED
    BY <1>1, <2>1, <2>2 DEF ReadsStable, BeforeCommit
<1>2. ASSUME NEW c \in Client, CommitAppend(c)
      PROVE  ReadsStable'
  <2>1. /\ ClientNext(c) /\ bufs' = bufs /\ saw' = saw /\ pc'[c] \notin BeforeCommit
    BY <1>2, <1>t DEF ClientNext, CommitAppend, Goto, BeforeCommit
  <2>2. ASSUME NEW d \in Client, pc'[d] \in BeforeCommit
        PROVE  d # c /\ pc[d] \in BeforeCommit
    BY <1>2, <2>1, <2>2, Others DEF BeforeCommit
  <2>3. ASSUME NEW d \in Client, NEW o \in Obj, pc'[d] \in BeforeCommit, bufs[d][o].st = "clean"
        PROVE  bufs[d][o].data = LS!Value(txns', o.Blkno)[o.Off]
    <3>1. LS!Value(txns', o.Blkno)[o.Off] = Current(o)
      BY <1>2, <2>2, <2>3, CommitKeepsReads
    <3> QED
      BY <2>2, <2>3, <3>1 DEF ReadsStable
  <2>4. ASSUME NEW d \in Client, pc'[d] \in BeforeCommit, NEW o \in DOMAIN saw[d]
        PROVE  saw[d][o] = LS!Value(txns', o.Blkno)[o.Off]
    <3>1. o \in Obj /\ bufs[d][o].st # "none"
      BY <1>s, <2>2, <2>4 DEF ReadsBuffered
    <3>2. LS!Value(txns', o.Blkno)[o.Off] = Current(o)
      BY <1>2, <2>2, <2>4, <3>1, CommitKeepsReads
    <3> QED
      BY <2>2, <2>4, <3>2 DEF ReadsStable
  <2> QED
    BY <2>1, <2>3, <2>4 DEF ReadsStable, BeforeCommit, Current, Read
<1>3. ASSUME NEW c \in Client, ReadBuf(c)
      PROVE  ReadsStable'
  <2>1. ClientNext(c) /\ txns' = txns /\ pc[c] = "read"
    BY <1>3 DEF ClientNext, ReadBuf, logvars
  <2>2. \A o \in Obj : bufs'[c][o] = bufs[c][o] \/ bufs'[c][o] = [st |-> "clean", data |-> Current(o)]
    BY <1>3, <1>t DEF ReadBuf
  <2>3. /\ \A o \in Obj : bufs[c][o].st = "clean" => bufs[c][o].data = Current(o)
        /\ \A o \in DOMAIN saw[c] : saw[c][o] = Current(o)
    BY <2>1 DEF ReadsStable, BeforeCommit
  <2>4. ASSUME NEW o \in Obj, bufs'[c][o].st = "clean"
        PROVE  bufs'[c][o].data = Current(o)
    <3>1. CASE bufs'[c][o] = bufs[c][o]
      BY <2>3, <2>4, <3>1
    <3>2. CASE bufs'[c][o] = [st |-> "clean", data |-> Current(o)]
      BY <3>2
    <3> QED
      BY <2>2, <3>1, <3>2
  <2>5. \A o \in DOMAIN saw'[c] : saw'[c][o] = Current(o)
    <3>1. CASE bufs[c][op[c].arg].st # "none"
      BY <1>3, <2>3, <3>1, ReadSaw
    <3>2. CASE bufs[c][op[c].arg].st = "none"
      <4>1. saw'[c] = [x \in DOMAIN saw[c] \cup {op[c].arg} |->
                         IF x = op[c].arg THEN Current(op[c].arg) ELSE saw[c][x]]
        BY <1>3, <3>2, ReadSaw
      <4> QED
        BY <2>3, <4>1
    <3> QED
      BY <3>1, <3>2
  <2> QED
    BY <1>1, <2>1, <2>4, <2>5
<1>4. ASSUME NEW c \in Client, OverWrite(c)
      PROVE  ReadsStable'
  <2>1. ClientNext(c) /\ txns' = txns /\ pc[c] = "write" /\ saw' = saw
    BY <1>4 DEF ClientNext, OverWrite, logvars, histvars
  <2>2. \A o \in Obj : bufs'[c][o] = bufs[c][o] \/ bufs'[c][o].st = "dirty"
    BY <1>4, <1>t DEF OverWrite
  <2>3. /\ \A o \in Obj : bufs[c][o].st = "clean" => bufs[c][o].data = Current(o)
        /\ \A o \in DOMAIN saw[c] : saw[c][o] = Current(o)
    BY <2>1 DEF ReadsStable, BeforeCommit
  <2>4. \A o \in Obj : bufs'[c][o].st = "clean" => bufs'[c][o].data = Current(o)
    BY <2>2, <2>3
  <2> QED
    BY <1>1, <2>1, <2>3, <2>4
<1>5. ASSUME NEW c \in Client, Begin(c) \/ ReleaseDone(c)
      PROVE  ReadsStable'
  <2>1. ClientNext(c) /\ txns' = txns
    BY <1>5 DEF ClientNext, Begin, ReleaseDone, logvars
  <2>2. bufs'[c] = NoBufs /\ saw'[c] = NoObjs
    BY <1>5, <1>t DEF Begin, ReleaseDone
  <2>3. /\ \A o \in Obj : bufs'[c][o].st # "clean"
        /\ DOMAIN saw'[c] = {}
    BY <2>2 DEF NoBufs, NoBuf, NoObjs
  <2> QED
    BY <1>1, <2>1, <2>3
<1>6. ASSUME NEW c \in Client, bufs' = bufs, saw' = saw, txns' = txns, ClientNext(c),
             pc'[c] \in BeforeCommit => pc[c] \in BeforeCommit
      PROVE  ReadsStable'
  BY <1>1, <1>6 DEF ReadsStable
<1>7. ASSUME NEW c \in Client,
             \/ \E o \in Obj : Touch(c, o, "read") \/ Touch(c, o, "write")
             \/ Abort(c) \/ CommitReadOnly(c) \/ (\E w \in BOOLEAN : CallCommit(c, w))
             \/ CommitLock(c) \/ InstallBuf(c)
      PROVE  ReadsStable'
  <2>1. ClientNext(c) /\ txns' = txns /\ bufs' = bufs /\ saw' = saw /\ pc[c] \in BeforeCommit
    BY <1>7 DEF ClientNext, Touch, Abort, CommitReadOnly, CallCommit, CommitLock, InstallBuf, logvars, histvars,
       BeforeCommit
  <2> QED
    BY <1>6, <2>1
<1>8. ASSUME NEW c \in Client,
             CommitFail(c) \/ CommitWaited(c) \/ Release(c) \/ CallFlush(c) \/ FlushRead(c) \/ FlushReturn(c)
      PROVE  ReadsStable'
  <2>1. ClientNext(c) /\ txns' = txns /\ bufs' = bufs /\ saw' = saw
    BY <1>8 DEF ClientNext, CommitFail, CommitWaited, Release, CallFlush, FlushRead, FlushReturn, logvars, histvars
  <2>2. pc'[c] \in {"release", "flush", "flushWait", "idle"}
    BY <1>8, <1>t DEF CommitFail, CommitWaited, Release, CallFlush, FlushRead, FlushReturn, Goto
  <2>3. pc'[c] \notin BeforeCommit
    BY <2>2 DEF BeforeCommit
  <2> QED
    BY <1>6, <2>1, <2>3
<1>9. CASE BecomesDurable \/ UNCHANGED vars
  <2>1. UNCHANGED <<txns, pc, bufs, saw>>
    BY <1>9 DEF BecomesDurable, LS!UpdateDurable, vars, memvars, histvars
  <2> QED
    BY <2>1 DEF ReadsStable, BeforeCommit, Current, Read
<1>10. CASE Crash
  <2>1. pc' = [c \in Client |-> "idle"]
    BY <1>10 DEF Crash
  <2> QED
    BY <2>1 DEF ReadsStable, BeforeCommit
<1> QED
  BY <1>2, <1>3, <1>4, <1>5, <1>7, <1>8, <1>9, <1>10 DEF Next, ClientNext

-----------------------------------------------------------------------------
(* Objects                                                                   *)

(* What the first n transactions leave depends on nothing after them.        *)
LEMMA SamePrefix ==
  ASSUME TypeOK, TypeOK', NEW n \in 1 .. Len(txns), n <= Len(txns'),
         \A i \in 1 .. n : txns'[i] = txns[i] /\ commits'[i] = commits[i],
         NEW o \in Obj
  PROVE  ObjAt(n, o)' = ObjAt(n, o) /\ LastWritten(n, o)' = LastWritten(n, o)
<1>1. /\ txns \in Seq(Txn) /\ txns' \in Seq(Txn) /\ Len(txns) \in Nat /\ Len(txns') \in Nat
      /\ n \in Int /\ 1 \in Int
  BY DEF TypeOK
<1>2. \A i \in 1 .. n : txns[i] \in Txn /\ txns'[i] \in Txn
  BY <1>1, ElementOfSeq
<1>3. /\ SubSeq(txns, 1, n) \in Seq(Txn) /\ Len(SubSeq(txns, 1, n)) = n
      /\ \A i \in 1 .. n : SubSeq(txns, 1, n)[i] = txns[i]
  BY <1>1, <1>2, SubSeqProperties
<1>4. /\ SubSeq(txns', 1, n) \in Seq(Txn) /\ Len(SubSeq(txns', 1, n)) = n
      /\ \A i \in 1 .. n : SubSeq(txns', 1, n)[i] = txns'[i]
  BY <1>1, <1>2, SubSeqProperties
<1>5. SubSeq(txns', 1, n) = SubSeq(txns, 1, n)
  BY <1>3, <1>4, SeqEqual
<1>6. ObjAt(n, o)' = ObjAt(n, o)
  BY <1>5 DEF ObjAt, LS!DiskAt
<1>7. Wrote(n, o)' = Wrote(n, o)
  BY DEF Wrote
<1>8. Wrote(n, o) # {} => Max(Wrote(n, o)) \in 1 .. n
  <2>1. Wrote(n, o) \subseteq 1 .. n /\ n \in Nat
    BY DEF Wrote
  <2> QED
    BY <2>1, MaxIsIn
<1>9. LastWritten(n, o)' = LastWritten(n, o)
  BY <1>7, <1>8 DEF LastWritten
<1> QED
  BY <1>6, <1>9

(* An object now is the object after all transactions.                       *)
LEMMA ObjAtEnd ==
  ASSUME TypeOK, NEW o \in Obj
  PROVE  ObjAt(Len(txns), o) = Current(o)
<1>1. SubSeq(txns, 1, Len(txns)) = txns
  BY SubSeqFull DEF TypeOK
<1> QED
  BY <1>1, ObjParts DEF ObjAt, LS!DiskAt, Current, Read

(* A log with no transaction but the empty one has the initial objects.      *)
LEMMA InitObjects == Init => ObjectsExact
<1> SUFFICES ASSUME Init, NEW n \in DOMAIN txns, NEW o \in Obj
             PROVE  ObjAt(n, o) = LastWritten(n, o)
  BY DEF ObjectsExact
<1>1. TypeOK
  BY InitType
<1>2. n = 1 /\ Len(txns) = 1 /\ txns = <<[pos |-> 0, upds |-> <<>>]>>
  BY DEF Init
<1>3. LS!Writers(txns, o.Blkno) = {}
  BY <1>2 DEF LS!Writers
<1>4. Current(o) = 0
  BY <1>3, ObjParts DEF Current, Read, LS!Value, ZeroBlock
<1>5. Wrote(n, o) = {}
  BY <1>2 DEF Init, Wrote, NoObjs
<1> QED
  BY <1>1, <1>2, <1>4, <1>5, ObjAtEnd DEF LastWritten

(* Every step keeps the objects what their last writers made them.           *)
LEMMA ObjectsStep ==
  ASSUME TypeOK, TypeOK', Committing, ObjectsExact, [Next]_vars
  PROVE  ObjectsExact'
<1>t. /\ txns \in Seq(Txn) /\ txns' \in Seq(Txn) /\ Len(txns) \in Nat \ {0} /\ Len(txns') \in Nat
      /\ DOMAIN txns = 1 .. Len(txns) /\ DOMAIN txns' = 1 .. Len(txns')
      /\ commits \in Seq(Partial(Obj, Nat)) /\ Len(commits) = Len(txns)
  BY DEF TypeOK
<1>1. ASSUME NEW c \in Client, CommitAppend(c)
      PROVE  ObjectsExact'
  <2> DEFINE w == [o \in Dirty(c) |-> bufs[c][o].data]
  <2>0. PICK n \in Nat : n = Len(txns)
    BY <1>t
  <2>1. PICK t \in Txn : txns' = Append(txns, t)
    BY <1>1, AppendEffect
  <2>2. w \in Partial(Obj, Nat) /\ commits' = Append(commits, w)
    BY <1>1, AppendEffect
  <2>3. Len(txns') = n + 1 /\ \A i \in 1 .. n : txns'[i] = txns[i]
    BY <1>t, <2>0, <2>1, AppendProperties
  <2>4. commits'[n + 1] = w /\ \A i \in 1 .. n : commits'[i] = commits[i]
    <3> HIDE DEF w
    <3> QED
      BY <1>t, <2>0, <2>2, AppendProperties
  <2>5. ASSUME NEW m \in 1 .. n, NEW o \in Obj
        PROVE  ObjAt(m, o)' = LastWritten(m, o)'
    <3> HIDE DEF w
    <3>1. m <= Len(txns') /\ \A i \in 1 .. m : txns'[i] = txns[i] /\ commits'[i] = commits[i]
      BY <1>t, <2>0, <2>3, <2>4
    <3>2. ObjAt(m, o)' = ObjAt(m, o) /\ LastWritten(m, o)' = LastWritten(m, o)
      BY <2>0, <3>1, SamePrefix
    <3> QED
      BY <1>t, <2>0, <3>2 DEF ObjectsExact
  <2>6. ASSUME NEW o \in Obj
        PROVE  LS!Value(txns', o.Blkno)[o.Off] = LastWritten(n + 1, o)'
    <3> HIDE DEF w
    <3> DEFINE V == Wrote(n + 1, o)'
               W == Wrote(n, o)
    <3>1. V \subseteq 1 .. n + 1 /\ W \subseteq 1 .. n
      BY DEF Wrote
    <3>2. n + 1 \in V <=> o \in Dirty(c)
      <4>1. DOMAIN w = Dirty(c)
        BY DEF w
      <4> QED
        BY <2>4, <4>1 DEF Wrote
    <3>3. \A i \in 1 .. n : i \in V <=> i \in W
      BY <2>4 DEF Wrote
    <3>4. CASE o \in Dirty(c)
      <4>1. Max(V) = n + 1
        BY <1>t, <3>1, <3>2, <3>4, MaxIsIn
      <4>2. LastWritten(n + 1, o)' = bufs[c][o].data
        BY <2>4, <3>2, <3>4, <4>1 DEF LastWritten, w
      <4> QED
        BY <1>1, <3>4, <4>2, AppendCurrent
    <3>5. CASE o \notin Dirty(c)
      <4>1. V = W
        <5> HIDE DEF V, W
        <5>1. \A i \in 1 .. n + 1 : i # n + 1 => i \in 1 .. n
          BY <1>t
        <5>2. V \subseteq W /\ W \subseteq V
          BY <3>1, <3>2, <3>3, <3>5, <5>1
        <5> QED
          BY <5>2
      <4>2. W # {} => Max(W) \in 1 .. n
        BY <1>t, <3>1, MaxIsIn
      <4>3. LastWritten(n + 1, o)' = LastWritten(n, o)
        BY <2>4, <4>1, <4>2 DEF LastWritten
      <4>4. LastWritten(n, o) = ObjAt(n, o)
        <5>1. n \in DOMAIN txns
          BY <1>t, <2>0
        <5> QED
          BY <5>1 DEF ObjectsExact
      <4> QED
        BY <1>1, <2>0, <3>5, <4>3, <4>4, ObjAtEnd, AppendCurrent
    <3> QED
      BY <3>4, <3>5
  <2>7. ASSUME NEW o \in Obj
        PROVE  ObjAt(n + 1, o)' = LastWritten(n + 1, o)'
    <3>1. SubSeq(txns', 1, n + 1) = txns'
      BY <1>t, <2>3, SubSeqFull
    <3>2. ObjAt(n + 1, o)' = LS!Value(txns', o.Blkno)[o.Off]
      BY <3>1, ObjParts DEF ObjAt, LS!DiskAt
    <3> QED
      BY <2>6, <3>2
  <2>8. ASSUME NEW m \in DOMAIN txns', NEW o \in Obj
        PROVE  ObjAt(m, o)' = LastWritten(m, o)'
    <3>1. m \in 1 .. n \/ m = n + 1
      BY <1>t, <2>0, <2>3
    <3>2. CASE m \in 1 .. n
      BY <2>5, <3>2
    <3>3. CASE m = n + 1
      BY <2>7, <3>3
    <3> QED
      BY <3>1, <3>2, <3>3
  <2> QED
    BY <2>8 DEF ObjectsExact
<1>2. CASE Crash
  <2>1. PICK n \in 1 .. Len(txns) :
          /\ Len(txns') = n
          /\ \A i \in 1 .. n : txns'[i] = txns[i] /\ commits'[i] = commits[i]
    BY <1>2, CrashEffect
  <2>2. ASSUME NEW m \in DOMAIN txns', NEW o \in Obj
        PROVE  ObjAt(m, o)' = LastWritten(m, o)'
    <3>1. /\ m \in 1 .. Len(txns) /\ m <= Len(txns')
          /\ \A i \in 1 .. m : txns'[i] = txns[i] /\ commits'[i] = commits[i]
      BY <1>t, <2>1
    <3>2. ObjAt(m, o)' = ObjAt(m, o) /\ LastWritten(m, o)' = LastWritten(m, o)
      BY <3>1, SamePrefix
    <3> QED
      BY <1>t, <3>1, <3>2 DEF ObjectsExact
  <2> QED
    BY <2>2 DEF ObjectsExact
<1>3. CASE UNCHANGED <<txns, commits>>
  BY <1>3 DEF ObjectsExact, ObjAt, LS!DiskAt, LastWritten, Wrote
<1>4. ASSUME NEW c \in Client, ClientNext(c), ~CommitAppend(c)
      PROVE  UNCHANGED <<txns, commits>>
  BY <1>4 DEF ClientNext, Begin, Touch, ReadBuf, OverWrite, Abort, CommitReadOnly, CallCommit,
       CommitLock, InstallBuf, CommitFail, CommitWaited, Release, ReleaseDone,
       CallFlush, FlushRead, FlushReturn, logvars, histvars
<1>5. CASE BecomesDurable \/ UNCHANGED vars
  BY <1>5, <1>3 DEF BecomesDurable, LS!UpdateDurable, histvars, vars
<1> QED
  BY <1>1, <1>2, <1>3, <1>4, <1>5 DEF Next

-----------------------------------------------------------------------------
(* Commits                                                                   *)

(* Installing one more buffer leaves the blocks patched with those so far.   *)
LEMMA PatchStep ==
  ASSUME TypeOK, Committing, NEW c \in Client, InstallBuf(c)
  PROVE  BlocksPatched(c)'
<1>1. PICK o \in op[c].todo :
        LET blks == op[c].blks
            old  == IF o.Blkno \in DOMAIN blks THEN blks[o.Blkno] ELSE Read(o.Blkno)
        IN
        /\ o \in Obj /\ pc[c] = "install"
        /\ old \in Value
        /\ op'[c].todo = op[c].todo \ {o}
        /\ DOMAIN op'[c].blks = DOMAIN blks \cup {o.Blkno}
        /\ op'[c].blks[o.Blkno] = [old EXCEPT ![o.Off] = bufs[c][o].data]
        /\ \A b \in DOMAIN blks : b # o.Blkno => op'[c].blks[b] = blks[b]
  BY InstallEffect
<1> DEFINE blks == op[c].blks
           nblks == op'[c].blks
           old == IF o.Blkno \in DOMAIN blks THEN blks[o.Blkno] ELSE Read(o.Blkno)
<1>2. BlocksPatched(c)
  BY <1>1 DEF Committing
<1>3. bufs' = bufs /\ txns' = txns
  BY DEF InstallBuf, logvars
<1>4. Dirty(c)' = Dirty(c) /\ Dirty(c) \subseteq Obj /\ o \in Dirty(c)
  BY <1>1, <1>2, <1>3 DEF Dirty, BlocksPatched
<1>5. Installed(c)' = Installed(c) \cup {o} /\ o \notin Installed(c)
  BY <1>1, <1>2, <1>4 DEF Installed, BlocksPatched
<1>6. \A p \in Obj : Current(p)' = Current(p)
  BY <1>3 DEF Current, Read
<1>7. op'[c].todo \subseteq Dirty(c)'
  BY <1>1, <1>2, <1>4 DEF BlocksPatched
<1>8. IsFiniteSet(DOMAIN nblks)
  <2>1. IsFiniteSet(DOMAIN blks \cup {o.Blkno})
    BY <1>2, FS_AddElement DEF BlocksPatched
  <2> QED
    BY <1>1, <2>1
<1>9. DOMAIN nblks = { p.Blkno : p \in Installed(c)' }
  BY <1>1, <1>2, <1>5 DEF BlocksPatched
<1>10. ASSUME NEW p \in Obj, p.Blkno = o.Blkno, p # o
       PROVE  nblks[p.Blkno][p.Off] = old[p.Off]
  <2>1. p.Off # o.Off
    <3>1. p = [Blkno |-> p.Blkno, Off |-> p.Off] /\ o = [Blkno |-> o.Blkno, Off |-> o.Off]
      BY <1>1, ObjAssumption
    <3> QED
      BY <1>10, <3>1
  <2>2. p.Off \in Off
    BY ObjParts
  <2> QED
    BY <1>1, <1>10, <2>1, <2>2 DEF Value
<1>11. nblks[o.Blkno][o.Off] = bufs[c][o].data
  <2>1. o.Off \in Off
    BY <1>1, ObjParts
  <2> QED
    BY <1>1, <2>1 DEF Value
<1>12. ASSUME NEW p \in Installed(c)'
       PROVE  nblks[p.Blkno][p.Off] = bufs'[c][p].data
  <2>0. p \in Obj
    BY <1>1, <1>4, <1>5 DEF Installed
  <2>1. CASE p = o
    BY <1>3, <1>11, <2>1
  <2>2. CASE p # o
    <3>1. p \in Installed(c) /\ p.Blkno \in DOMAIN blks /\ blks[p.Blkno][p.Off] = bufs[c][p].data
      BY <1>2, <1>5, <2>2 DEF BlocksPatched
    <3>2. CASE p.Blkno = o.Blkno
      BY <1>3, <1>10, <2>0, <2>2, <3>1, <3>2
    <3>3. CASE p.Blkno # o.Blkno
      BY <1>1, <1>3, <3>1, <3>3
    <3> QED
      BY <3>2, <3>3
  <2> QED
    BY <2>1, <2>2
<1>13. ASSUME NEW p \in Obj \ Installed(c)', p.Blkno \in DOMAIN nblks
       PROVE  nblks[p.Blkno][p.Off] = Current(p)
  <2>1. p # o /\ p \in Obj \ Installed(c)
    BY <1>5, <1>13
  <2>2. CASE p.Blkno = o.Blkno
    <3>1. nblks[p.Blkno][p.Off] = old[p.Off]
      BY <1>10, <2>1, <2>2
    <3>2. old[p.Off] = Current(p)
      BY <1>2, <2>1, <2>2 DEF BlocksPatched, Current
    <3> QED
      BY <3>1, <3>2
  <2>3. CASE p.Blkno # o.Blkno
    BY <1>1, <1>2, <1>13, <2>1, <2>3 DEF BlocksPatched
  <2> QED
    BY <2>2, <2>3
<1> QED
  BY <1>6, <1>7, <1>8, <1>9, <1>12, <1>13 DEF BlocksPatched

(* Every step keeps the commits under way.                                   *)
LEMMA CommittingStep ==
  ASSUME TypeOK, Committing, [Next]_vars
  PROVE  Committing'
<1>t. /\ pc \in [Client -> Place] /\ op \in [Client -> Local]
  BY DEF TypeOK
<1> DEFINE Mine(c) == /\ pc'[c] = "commit" => op'[c].todo = Dirty(c)' /\ op'[c].blks = NoBlk
                      /\ pc'[c] = "install" => mu' = c /\ BlocksPatched(c)'
<1>1. ASSUME NEW c \in Client, ClientNext(c), Mine(c),
             (txns' = txns /\ mu' = mu) \/ \A d \in Client \ {c} : pc[d] # "install"
      PROVE  Committing'
  <2>1. ASSUME NEW d \in Client \ {c}
        PROVE  Mine(d)
    <3>1. pc'[d] = pc[d] /\ bufs'[d] = bufs[d] /\ op'[d] = op[d]
      BY <1>1, Others
    <3>2. Dirty(d)' = Dirty(d)
      BY <3>1 DEF Dirty
    <3>3. CASE pc[d] # "install"
      BY <3>1, <3>2, <3>3 DEF Committing
    <3>4. CASE pc[d] = "install" /\ txns' = txns /\ mu' = mu
      <4>1. \A o \in Obj : Current(o)' = Current(o)
        BY <3>4 DEF Current, Read
      <4>2. Installed(d)' = Installed(d)
        BY <3>1, <3>2 DEF Installed
      <4>3. BlocksPatched(d) /\ mu = d
        BY <3>4 DEF Committing
      <4>4. BlocksPatched(d)'
        BY <3>1, <3>2, <4>1, <4>2, <4>3 DEF BlocksPatched
      <4> QED
        BY <3>1, <3>4, <4>3, <4>4
    <3> QED
      BY <1>1, <3>3, <3>4
  <2>2. \A d \in Client : Mine(d)
    BY <1>1, <2>1
  <2> QED
    BY <2>2 DEF Committing, NoBlk, ZeroBlock
<1>2. ASSUME NEW c \in Client, ClientNext(c), txns' = txns, mu' = mu, pc'[c] \notin {"commit", "install"}
      PROVE  Committing'
  BY <1>1, <1>2
<1>3. ASSUME NEW c \in Client,
             \/ Begin(c) \/ (\E o \in Obj : Touch(c, o, "read") \/ Touch(c, o, "write"))
             \/ ReadBuf(c) \/ OverWrite(c) \/ Abort(c) \/ CommitReadOnly(c)
             \/ CommitWaited(c) \/ Release(c) \/ ReleaseDone(c)
             \/ CallFlush(c) \/ FlushRead(c) \/ FlushReturn(c)
      PROVE  Committing'
  <2>1. ClientNext(c)
    BY <1>3 DEF ClientNext
  <2>2. txns' = txns /\ mu' = mu
    BY <1>3 DEF Begin, Touch, ReadBuf, OverWrite, Abort, CommitReadOnly, CommitWaited, Release,
       ReleaseDone, CallFlush, FlushRead, FlushReturn, logvars
  <2>3. pc'[c] \in {"run", "read", "write", "release", "idle", "flush", "flushWait"}
    BY <1>3, <1>t DEF Begin, Touch, ReadBuf, OverWrite, Abort, CommitReadOnly, CommitWaited, Release,
       ReleaseDone, CallFlush, FlushRead, FlushReturn, Goto
  <2> QED
    BY <1>2, <2>1, <2>2, <2>3
<1>4. ASSUME NEW c \in Client, NEW w \in BOOLEAN, CallCommit(c, w)
      PROVE  Committing'
  <2>1. ClientNext(c) /\ txns' = txns /\ mu' = mu /\ bufs' = bufs
    BY <1>4 DEF ClientNext, CallCommit, logvars
  <2>2. pc'[c] = "commit" /\ op'[c].todo = Dirty(c) /\ op'[c].blks = NoBlk
    BY <1>4, <1>t DEF CallCommit, Goto, Local
  <2>3. Dirty(c)' = Dirty(c)
    BY <2>1 DEF Dirty
  <2> QED
    BY <1>1, <2>1, <2>2, <2>3
<1>5. ASSUME NEW c \in Client, CommitLock(c)
      PROVE  Committing'
  <2>1. ClientNext(c) /\ txns' = txns /\ bufs' = bufs /\ op' = op
    BY <1>5 DEF ClientNext, CommitLock, logvars
  <2>2. pc[c] = "commit" /\ pc'[c] = "install" /\ mu = Free /\ mu' = c
    BY <1>5, <1>t DEF CommitLock, Lock, Goto
  <2>3. \A d \in Client : pc[d] # "install"
    BY <2>2, ClientAssumption DEF Committing
  <2>4. Dirty(c)' = Dirty(c) /\ op[c].todo = Dirty(c) /\ op[c].blks = NoBlk
    BY <2>1, <2>2 DEF Dirty, Committing
  <2>5. Installed(c)' = {} /\ op'[c].todo = Dirty(c)' /\ DOMAIN op'[c].blks = {}
    BY <2>1, <2>4 DEF Installed, NoBlk
  <2>6. BlocksPatched(c)'
    BY <2>5, FS_EmptySet DEF BlocksPatched
  <2> QED
    BY <1>1, <2>1, <2>2, <2>3, <2>6
<1>6. ASSUME NEW c \in Client, InstallBuf(c)
      PROVE  Committing'
  <2>1. ClientNext(c) /\ txns' = txns /\ mu' = mu /\ pc' = pc /\ pc[c] = "install"
    BY <1>6 DEF ClientNext, InstallBuf, logvars
  <2>2. BlocksPatched(c)' /\ mu = c
    BY <1>6, <2>1, PatchStep DEF Committing
  <2> QED
    BY <1>1, <2>1, <2>2
<1>7. ASSUME NEW c \in Client, CommitFail(c) \/ CommitAppend(c)
      PROVE  Committing'
  <2>1. ClientNext(c) /\ pc[c] = "install"
    BY <1>7 DEF ClientNext, CommitFail, CommitAppend
  <2>2. pc'[c] \in {"release", "wait"}
    BY <1>7, <1>t DEF CommitFail, CommitAppend, Goto
  <2>3. \A d \in Client \ {c} : pc[d] # "install"
    BY <2>1 DEF Committing
  <2> QED
    BY <1>1, <2>1, <2>2, <2>3
<1>8. CASE BecomesDurable \/ UNCHANGED vars
  <2>1. UNCHANGED <<txns, mu, pc, bufs, op>>
    BY <1>8 DEF BecomesDurable, LS!UpdateDurable, vars, memvars
  <2> QED
    BY <2>1 DEF Committing, BlocksPatched, Installed, Dirty, Current, Read, NoBlk, ZeroBlock
<1>9. CASE Crash
  <2>1. pc' = [c \in Client |-> "idle"]
    BY <1>9 DEF Crash
  <2> QED
    BY <2>1 DEF Committing
<1> QED
  BY <1>3, <1>4, <1>5, <1>6, <1>7, <1>8, <1>9 DEF Next, ClientNext

-----------------------------------------------------------------------------
(* Promises                                                                  *)

(* What is on disk up to a position includes what the position covers.       *)
LEMMA FlushedCovered ==
  ASSUME TypeOK, NEW n \in Nat, n <= Len(txns), NEW p \in Nat, Covered(n, p), Flushed(p)
  PROVE  n <= durable
<1>1. CASE n = 0
  BY <1>1 DEF TypeOK
<1>2. CASE n # 0
  <2>1. n \in DOMAIN txns
    BY <1>2 DEF TypeOK
  <2> QED
    BY <2>1 DEF Covered, Flushed
<1> QED
  BY <1>1, <1>2

(* Every step keeps what positions cover.                                    *)
LEMMA PromisesStep ==
  ASSUME TypeOK, TypeOK', Committing, PromisesCovered, [Next]_vars
  PROVE  PromisesCovered'
<1>t. /\ pc \in [Client -> Place] /\ op \in [Client -> Local]
      /\ txns \in Seq(Txn) /\ Len(txns) \in Nat \ {0} /\ durable \in 1 .. Len(txns)
      /\ DOMAIN txns = 1 .. Len(txns)
  BY DEF TypeOK
<1>n. /\ promised.wait \in Nat /\ promised.flush \in Nat /\ promised.flushAfterFail \in Nat
      /\ durable \in Nat /\ pos \in Nat
  BY DEF TypeOK
<1>o. \A c \in Client : op[c].target \in Nat /\ op[c].pos \in Nat
  BY <1>t DEF Local
<1>p. /\ promised.wait <= durable /\ promised.flush <= durable
      /\ ~failed => Covered(Len(txns), pos)
      /\ \A c \in Client : CallCovered(c)
  BY DEF PromisesCovered
<1>2. ASSUME NEW c \in Client, ClientNext(c), txns' = txns, durable' = durable, CallCovered(c)',
             promised'.wait <= durable, promised'.flush <= durable,
             failed' \/ (failed' = failed /\ pos' = pos)
      PROVE  PromisesCovered'
  <2>1. ASSUME NEW d \in Client \ {c}
        PROVE  CallCovered(d)'
    <3>1. pc'[d] = pc[d] /\ op'[d] = op[d]
      BY <1>2, Others
    <3> QED
      BY <1>2, <1>p, <3>1 DEF CallCovered, Covered
  <2>2. ~failed' => Covered(Len(txns), pos)'
    BY <1>2, <1>p DEF Covered
  <2>3. \A d \in Client : CallCovered(d)'
    BY <1>2, <2>1
  <2> QED
    BY <1>2, <2>2, <2>3 DEF PromisesCovered
<1>3. ASSUME NEW c \in Client,
             \/ Begin(c) \/ (\E o \in Obj : Touch(c, o, "read") \/ Touch(c, o, "write"))
             \/ ReadBuf(c) \/ OverWrite(c) \/ Abort(c) \/ CommitReadOnly(c)
             \/ (\E w \in BOOLEAN : CallCommit(c, w)) \/ CommitLock(c) \/ InstallBuf(c) \/ CommitFail(c)
             \/ Release(c) \/ ReleaseDone(c)
      PROVE  PromisesCovered'
  <2>1. ClientNext(c) /\ promised' = promised
    BY <1>3 DEF ClientNext, Begin, Touch, ReadBuf, OverWrite, Abort, CommitReadOnly, CallCommit,
       CommitLock, InstallBuf, CommitFail, Release, ReleaseDone, histvars
  <2>2. txns' = txns /\ durable' = durable
    BY <1>3 DEF Begin, Touch, ReadBuf, OverWrite, Abort, CommitReadOnly, CallCommit,
       CommitLock, InstallBuf, CommitFail, Release, ReleaseDone, logvars
  <2>3. pc'[c] \in {"run", "read", "write", "release", "commit", "install", "idle"}
    BY <1>3, <1>t DEF Begin, Touch, ReadBuf, OverWrite, Abort, CommitReadOnly, CallCommit,
       CommitLock, InstallBuf, CommitFail, Release, ReleaseDone, Goto
  <2>4. failed' \/ (failed' = failed /\ pos' = pos)
    BY <1>3 DEF Begin, Touch, ReadBuf, OverWrite, Abort, CommitReadOnly, CallCommit,
       CommitLock, InstallBuf, CommitFail, Release, ReleaseDone, histvars
  <2>5. CallCovered(c)'
    BY <2>3 DEF CallCovered
  <2> QED
    BY <1>2, <1>p, <2>1, <2>2, <2>4, <2>5
<1>4. ASSUME NEW c \in Client, CommitAppend(c)
      PROVE  PromisesCovered'
  <2>1. PICK t \in Txn :
          /\ txns' = Append(txns, t)
          /\ \A i \in DOMAIN txns : txns[i].pos <= t.pos
          /\ pos' = t.pos
          /\ \A d \in Client \ {c} : op'[d] = op[d]
          /\ op'[c].pos = t.pos /\ op'[c].target = Len(txns) + 1
    BY <1>4, AppendEffect
  <2>2. /\ Len(txns') = Len(txns) + 1 /\ DOMAIN txns' = 1 .. Len(txns) + 1
        /\ txns'[Len(txns) + 1] = t
        /\ \A i \in 1 .. Len(txns) : txns'[i] = txns[i]
    BY <1>t, <2>1, AppendProperties
  <2>3. ClientNext(c) /\ durable' = durable /\ promised' = promised
    BY <1>4 DEF ClientNext, CommitAppend, LS!LogMemAppend
  <2>4. t.pos \in Nat
    BY DEF Txn
  <2>5. \A i \in DOMAIN txns' : txns'[i].pos <= t.pos
    <3> SUFFICES ASSUME NEW i \in DOMAIN txns' PROVE txns'[i].pos <= t.pos
      OBVIOUS
    <3>1. i \in 1 .. Len(txns) \/ i = Len(txns) + 1
      BY <1>t, <2>2
    <3>2. CASE i \in 1 .. Len(txns)
      BY <1>t, <2>1, <2>2, <3>2
    <3>3. CASE i = Len(txns) + 1
      BY <2>2, <2>4, <3>3
    <3> QED
      BY <3>1, <3>2, <3>3
  <2>6. pc'[c] \in {"wait", "release"}
    BY <1>4, <1>t DEF CommitAppend, Goto
  <2>7. CallCovered(c)'
    BY <1>t, <2>1, <2>2, <2>5, <2>6 DEF CallCovered, Covered
  <2>8. ASSUME NEW n \in Nat, n <= Len(txns), NEW p, Covered(n, p)
        PROVE  Covered(n, p)'
    BY <1>t, <2>2, <2>3, <2>8 DEF Covered
  <2>9. ASSUME NEW d \in Client \ {c}
        PROVE  CallCovered(d)'
    <3>1. pc'[d] = pc[d] /\ op'[d] = op[d]
      BY <2>3, Others
    <3>2. CallCovered(d) /\ op[d].target \in Nat
      BY <1>p, <1>o
    <3>3. PICK n \in Nat, p \in Nat : n = op[d].target /\ p = op[d].pos
      BY <1>o
    <3>4. n <= Len(txns) /\ Covered(n, p) => Covered(n, p)'
      BY <2>8
    <3>5. n <= Len(txns) => n <= Len(txns')
      BY <1>t, <2>2, <3>3
    <3> QED
      BY <3>1, <3>2, <3>3, <3>4, <3>5 DEF CallCovered, Covered
  <2>10. Covered(Len(txns), pos)'
    BY <2>1, <2>5 DEF Covered
  <2>11. \A d \in Client : CallCovered(d)'
    BY <2>7, <2>9
  <2> QED
    BY <1>p, <2>3, <2>10, <2>11 DEF PromisesCovered
<1>5. ASSUME NEW c \in Client, CommitWaited(c)
      PROVE  PromisesCovered'
  <2>1. ClientNext(c) /\ txns' = txns /\ durable' = durable /\ failed' = failed /\ pos' = pos
    BY <1>5 DEF ClientNext, CommitWaited, logvars
  <2>2. pc[c] = "wait" /\ pc'[c] = "release" /\ Flushed(op[c].pos)
    BY <1>5, <1>t DEF CommitWaited, Goto
  <2>3. op[c].target <= durable
    BY <1>p, <1>o, <2>2, FlushedCovered DEF CallCovered
  <2>4. promised'.wait = Max({promised.wait, op[c].target}) /\ promised'.flush = promised.flush
    BY <1>5 DEF CommitWaited, TypeOK
  <2>5. promised'.wait <= durable /\ promised'.flush <= durable
    BY <1>n, <1>o, <1>p, <2>3, <2>4, MaxOfTwo
  <2>6. CallCovered(c)'
    BY <2>2 DEF CallCovered
  <2> QED
    BY <1>2, <2>1, <2>5, <2>6
<1>6. ASSUME NEW c \in Client, CallFlush(c)
      PROVE  PromisesCovered'
  <2>1. /\ ClientNext(c) /\ txns' = txns /\ durable' = durable
        /\ failed' = failed /\ pos' = pos /\ promised' = promised
    BY <1>6 DEF ClientNext, CallFlush, logvars, histvars
  <2>2. pc'[c] = "flush" /\ op'[c].target = Len(txns)
    BY <1>6, <1>t DEF CallFlush, Goto, Local
  <2>3. CallCovered(c)'
    BY <1>t, <2>1, <2>2 DEF CallCovered
  <2> QED
    BY <1>2, <1>p, <2>1, <2>3
<1>7. ASSUME NEW c \in Client, FlushRead(c)
      PROVE  PromisesCovered'
  <2>1. /\ ClientNext(c) /\ txns' = txns /\ durable' = durable
        /\ failed' = failed /\ pos' = pos /\ promised' = promised
    BY <1>7 DEF ClientNext, FlushRead, logvars, histvars
  <2>2. /\ pc[c] = "flush" /\ pc'[c] = "flushWait"
        /\ op'[c].target = op[c].target /\ op'[c].pos = pos /\ op'[c].ok = ~failed
    BY <1>7, <1>t DEF FlushRead, Goto, Local
  <2>3. op[c].target <= Len(txns)
    BY <1>p, <2>2 DEF CallCovered
  <2>4. ASSUME ~failed
        PROVE  \A i \in DOMAIN txns : i <= op[c].target => i <= durable \/ txns[i].pos <= pos
    BY <1>p, <1>t, <2>4 DEF Covered
  <2>5. CallCovered(c)'
    BY <2>1, <2>2, <2>3, <2>4 DEF CallCovered, Covered
  <2> QED
    BY <1>2, <1>p, <2>1, <2>5
<1>8. ASSUME NEW c \in Client, FlushReturn(c)
      PROVE  PromisesCovered'
  <2>1. ClientNext(c) /\ txns' = txns /\ durable' = durable /\ failed' = failed /\ pos' = pos
    BY <1>8 DEF ClientNext, FlushReturn, logvars
  <2>2. pc[c] = "flushWait" /\ pc'[c] = "idle" /\ Flushed(op[c].pos)
    BY <1>8, <1>t DEF FlushReturn, Goto
  <2>3. promised'.wait = promised.wait
    BY <1>8 DEF FlushReturn, TypeOK
  <2>4. promised'.flush <= durable
    <3>1. CASE op[c].ok
      <4>1. op[c].target <= durable
        BY <1>p, <1>o, <2>2, <3>1, FlushedCovered DEF CallCovered
      <4>2. promised'.flush = Max({promised.flush, op[c].target})
        BY <1>8, <3>1 DEF FlushReturn, TypeOK
      <4> QED
        BY <1>n, <1>o, <1>p, <4>1, <4>2, MaxOfTwo
    <3>2. CASE ~op[c].ok
      <4>1. promised'.flush = promised.flush
        BY <1>8, <3>2 DEF FlushReturn, TypeOK
      <4> QED
        BY <1>p, <4>1
    <3> QED
      BY <3>1, <3>2
  <2>5. CallCovered(c)'
    BY <2>2 DEF CallCovered
  <2> QED
    BY <1>2, <1>p, <2>1, <2>3, <2>4, <2>5
<1>9. CASE BecomesDurable \/ UNCHANGED vars
  <2>1. /\ UNCHANGED <<txns, pc, op, pos, failed, promised>>
        /\ durable <= durable' /\ durable' \in Nat
    BY <1>9, <1>n, <1>t DEF BecomesDurable, LS!UpdateDurable, vars, memvars, histvars
  <2>2. \A n, p : Covered(n, p) => Covered(n, p)'
    BY <1>n, <1>t, <2>1 DEF Covered
  <2>3. \A c \in Client : CallCovered(c)'
    BY <1>n, <1>t, <1>p, <2>1 DEF CallCovered, Covered
  <2>4. promised'.wait <= durable' /\ promised'.flush <= durable'
    BY <1>n, <1>p, <2>1
  <2>5. ~failed' => Covered(Len(txns), pos)'
    BY <1>n, <1>t, <1>p, <2>1 DEF Covered
  <2> QED
    BY <2>3, <2>4, <2>5 DEF PromisesCovered
<1>10. CASE Crash
  <2>1. PICK n \in durable .. Len(txns) : Len(txns') = n /\ durable' = n
    BY <1>10, CrashEffect
  <2>2. pc' = [c \in Client |-> "idle"] /\ promised' = promised
    BY <1>10 DEF Crash
  <2>3. Covered(Len(txns), pos)'
    BY <2>1 DEF Covered, TypeOK
  <2>4. \A c \in Client : CallCovered(c)'
    BY <2>2 DEF CallCovered
  <2>5. promised'.wait <= durable' /\ promised'.flush <= durable'
    BY <1>n, <1>p, <2>1, <2>2
  <2> QED
    BY <2>3, <2>4, <2>5 DEF PromisesCovered
<1> QED
  BY <1>3, <1>4, <1>5, <1>6, <1>7, <1>8, <1>9, <1>10 DEF Next, ClientNext

-----------------------------------------------------------------------------
(* The invariant, and what follows from it                                   *)

(* At first nobody commits, nothing is buffered and nothing is promised.     *)
LEMMA InitRest == Init => ReadsBuffered /\ ReadsStable /\ Committing /\ PromisesCovered
<1> SUFFICES ASSUME Init PROVE ReadsBuffered /\ ReadsStable /\ Committing /\ PromisesCovered
  OBVIOUS
<1>1. \A c \in Client : pc[c] = "idle"
  BY DEF Init
<1>3. ReadsBuffered /\ ReadsStable
  <2>1. \A c \in Client : pc[c] \notin BeforeCommit
    BY <1>1 DEF BeforeCommit
  <2> QED
    BY <2>1 DEF ReadsBuffered, ReadsStable
<1>4. Committing
  BY <1>1 DEF Committing
<1>5. \A c \in Client : CallCovered(c)
  BY <1>1 DEF CallCovered
<1>6. promised.wait = 1 /\ promised.flush = 1 /\ durable = 1 /\ Len(txns) = 1
  BY DEF Init
<1>7. Covered(Len(txns), pos)
  BY <1>6 DEF Covered, Init
<1> QED
  BY <1>3, <1>4, <1>5, <1>6, <1>7 DEF PromisesCovered

(* The initial states satisfy the invariant.                                 *)
LEMMA InitInv == Init => IInv
  BY InitType, InitLocks, InitObjects, InitRest DEF IInv

(* Every step keeps it.                                                      *)
LEMMA NextInv == IInv /\ [Next]_vars => IInv'
<1> SUFFICES ASSUME IInv, [Next]_vars PROVE IInv'
  OBVIOUS
<1>1. TypeOK /\ LocksHeld /\ ReadsBuffered /\ ReadsStable /\ Committing /\ ObjectsExact /\ PromisesCovered
  BY DEF IInv
<1>2. TypeOK'
  BY <1>1, TypeStep
<1>3. LocksHeld'
  BY <1>1, <1>2, LocksStep
<1>4. ReadsStable'
  BY <1>1, <1>2, ReadsStep
<1>5. Committing'
  BY <1>1, <1>2, CommittingStep
<1>6. ObjectsExact'
  BY <1>1, <1>2, ObjectsStep
<1>7. PromisesCovered'
  BY <1>1, <1>2, PromisesStep
<1>8. ReadsBuffered'
  BY <1>1, BufferedStep
<1> QED
  BY <1>2, <1>3, <1>4, <1>5, <1>6, <1>7, <1>8 DEF IInv

(* The invariant of JournalInv holds in every reachable state.               *)
THEOREM JournalInvariant == Spec => []IInv
  BY InitInv, NextInv, PTL DEF Spec

(* Two-phase locking works: what a transaction has read (Op__ReadBuf of      *)
(* jrnl.v, under the locks of Txn__Acquire) is still the object's value when *)
(* its own writes enter the log.                                             *)
THEOREM ReadsAlwaysStable == Spec => []ReadsStable
<1>1. IInv => ReadsStable
  BY DEF IInv
<1> QED
  BY <1>1, JournalInvariant, PTL

(* Logging whole blocks loses no object: after any prefix of the log every   *)
(* object is as the last transaction that wrote it left it, however many     *)
(* transactions wrote to its block (installBufsMap and doCommit of obj.v).   *)
THEOREM ObjectsAlwaysExact == Spec => []ObjectsExact
<1>1. IInv => ObjectsExact
  BY DEF IInv
<1> QED
  BY <1>1, JournalInvariant, PTL

(* What CommitWait with wait and Flush promised (obj.v) survives each crash. *)
THEOREM PromisesAlwaysKept == Spec => []PromisesKept
<1>1. IInv => PromisesKept
  <2> SUFFICES ASSUME IInv PROVE PromisesKept
    OBVIOUS
  <2>1. promised.wait <= durable /\ promised.flush <= durable
    BY DEF IInv, PromisesCovered
  <2>2. durable \in 1 .. Len(txns) /\ Len(txns) \in Nat
    BY DEF IInv, TypeOK
  <2>3. promised.wait \in Nat /\ promised.flush \in Nat
    BY DEF IInv, TypeOK
  <2> QED
    BY <2>1, <2>2, <2>3 DEF PromisesKept
<1> QED
  BY <1>1, JournalInvariant, PTL

(* Only one transaction has an object locked, and what it has buffered it    *)
(* has locked, until it begins to release.                                   *)
THEOREM LocksAlwaysHeld == Spec => []LocksHeld
<1>1. IInv => LocksHeld
  BY DEF IInv
<1> QED
  BY <1>1, JournalInvariant, PTL

-----------------------------------------------------------------------------
(* Transactions are atomic                                                   *)

(* The store after each transaction, and now.                                *)
LEMMA StatesAre ==
  ASSUME TypeOK, ObjectsExact
  PROVE  /\ States \in Seq([Obj -> Nat]) /\ Len(States) = Len(txns)
         /\ \A n \in 1 .. Len(txns) : States[n] = [o \in Obj |-> ObjAt(n, o)]
         /\ \A o \in Obj : TX!Now[o] = Current(o)
<1>1. /\ txns \in Seq(Txn) /\ Len(txns) \in Nat \ {0} /\ DOMAIN txns = 1 .. Len(txns)
      /\ DOMAIN commits = 1 .. Len(txns)
  BY DEF TypeOK
<1>2. ASSUME NEW n \in 1 .. Len(txns), NEW o \in Obj
      PROVE  ObjAt(n, o) \in Nat
  <2>1. \A i \in 1 .. n : txns[i] \in Txn
    BY <1>1, ElementOfSeq
  <2>2. SubSeq(txns, 1, n) \in Seq(Txn)
    BY <1>1, <2>1, SubSeqProperties
  <2>3. LS!Value(SubSeq(txns, 1, n), o.Blkno) \in Value
    BY <2>2, ObjParts, ValueType
  <2> QED
    BY <2>3, ObjParts DEF ObjAt, LS!DiskAt, Value
<1>3. \A n \in 1 .. Len(txns) : States[n] = [o \in Obj |-> ObjAt(n, o)]
  BY <1>1 DEF States, ObjectsExact
<1>4. States \in [1 .. Len(txns) -> [Obj -> Nat]]
  <2>1. States = [n \in 1 .. Len(txns) |-> [o \in Obj |-> LastWritten(n, o)]]
    BY <1>1 DEF States
  <2> QED
    BY <1>1, <1>2, <1>3, <2>1
<1>5. States \in Seq([Obj -> Nat]) /\ Len(States) = Len(txns)
  BY <1>1, <1>4
<1>6. Len(txns) \in 1 .. Len(txns)
  BY <1>1
<1>7. ASSUME NEW o \in Obj
      PROVE  TX!Now[o] = Current(o)
  <2>1. ObjAt(Len(txns), o) = Current(o)
    BY ObjAtEnd
  <2>2. States[Len(txns)] = [x \in Obj |-> ObjAt(Len(txns), x)]
    BY <1>3, <1>6
  <2>3. TX!Now = States[Len(txns)]
    BY <1>5 DEF TX!Now
  <2> QED
    BY <2>1, <2>2, <2>3
<1> QED
  BY <1>3, <1>5, <1>7

(* And after a step.                                                         *)
LEMMA StatesNext ==
  ASSUME TypeOK', ObjectsExact'
  PROVE  /\ States' \in Seq([Obj -> Nat]) /\ Len(States') = Len(txns')
         /\ \A n \in 1 .. Len(txns') : States'[n] = [o \in Obj |-> ObjAt(n, o)']
<1>1. (States \in Seq([Obj -> Nat]) /\ Len(States) = Len(txns)
        /\ \A n \in 1 .. Len(txns) : States[n] = [o \in Obj |-> ObjAt(n, o)])'
  BY StatesAre, PTL
<1> QED
  BY ONLY <1>1

(* The store does not change while the log does not.                         *)
LEMMA SameStates ==
  ASSUME commits' = commits
  PROVE  States' = States
BY DEF States, LastWritten, Wrote

(* What a client is at, by its place in the code.                            *)
LEMMA DoingIs ==
  ASSUME NEW c \in Client
  PROVE  /\ pc[c] \in BeforeCommit => Doing(c) = TX!Running(saw[c], Pending(c))
         /\ pc[c] = "wait" => Doing(c) = TX!Waiting(op[c].target)
         /\ pc[c] \notin BeforeCommit \cup {"wait"} => Doing(c) = TX!Idle
BY DEF Doing, BeforeCommit, TX!Running, TX!Waiting, TX!Idle

(* And after a step.                                                         *)
LEMMA DoingNext ==
  ASSUME NEW c \in Client
  PROVE  /\ pc'[c] \in BeforeCommit => Doing(c)' = TX!Running(saw'[c], Pending(c)')
         /\ pc'[c] = "wait" => Doing(c)' = TX!Waiting(op'[c].target)
         /\ pc'[c] \notin BeforeCommit \cup {"wait"} => Doing(c)' = TX!Idle
<1>1. ASSUME pc'[c] \in BeforeCommit
      PROVE  Doing(c)' = TX!Running(saw'[c], Pending(c)')
  <2>1. pc'[c] \in BeforeCommit /\ pc'[c] # "wait"
    BY <1>1 DEF BeforeCommit
  <2>2. Doing(c)' = [at |-> "running", reads |-> saw'[c], writes |-> [o \in Dirty(c)' |-> bufs'[c][o].data]]
    BY <2>1 DEF Doing, Pending
  <2>3. Pending(c)' = [o \in Dirty(c)' |-> bufs'[c][o].data]
    BY DEF Pending
  <2> QED
    BY <2>2, <2>3 DEF TX!Running
<1>2. ASSUME pc'[c] = "wait"
      PROVE  Doing(c)' = TX!Waiting(op'[c].target)
  <2>1. pc'[c] \notin BeforeCommit
    BY <1>2 DEF BeforeCommit
  <2> QED
    BY <1>2, <2>1 DEF Doing, Pending, TX!Waiting
<1>3. ASSUME pc'[c] \notin BeforeCommit \cup {"wait"}
      PROVE  Doing(c)' = TX!Idle
  BY <1>3 DEF Doing, Pending, TX!Idle
<1> QED
  BY <1>1, <1>2, <1>3

(* A client of whom nothing changes is at what it was at.                    *)
LEMMA DoingSame ==
  ASSUME NEW c \in Client, saw'[c] = saw[c], bufs'[c] = bufs[c],
         \/ pc'[c] = pc[c] /\ op'[c] = op[c]
         \/ pc[c] \in BeforeCommit /\ pc'[c] \in BeforeCommit
  PROVE  Doing(c)' = Doing(c)
<1>1. Pending(c)' = Pending(c)
  BY DEF Pending, Dirty
<1>2. BeforeCommit' = BeforeCommit
  BY DEF BeforeCommit
<1> QED
  BY <1>1, DoingIs, DoingNext

(* The three differ.                                                         *)
LEMMA Differ ==
  ASSUME NEW r, NEW w
  PROVE  /\ TX!Running(r, w).at = "running"
         /\ TX!Running(r, w).reads = r /\ TX!Running(r, w).writes = w
BY DEF TX!Running

(* A client's step is a turn of that client.                                 *)
LEMMA TurnOf ==
  ASSUME TypeOK, NEW c \in Client, ClientNext(c)
  PROVE  TX!Turn(c, Doing(c)')
<1>1. ASSUME NEW d \in Client \ {c}
      PROVE  Doing(d)' = Doing(d)
  <2>1. pc'[d] = pc[d] /\ bufs'[d] = bufs[d] /\ op'[d] = op[d] /\ saw'[d] = saw[d]
    BY Others
  <2> QED
    BY <2>1, DoingSame
<1> QED
  BY <1>1 DEF TX!Turn

(* Steps that change neither the log nor what the client is at.              *)
LEMMA Stutters ==
  ASSUME TypeOK, NEW c \in Client, ClientNext(c), commits' = commits, durable' = durable, Doing(c)' = Doing(c)
  PROVE  UNCHANGED TX!txvars
<1>1. States' = States
  BY SameStates
<1>2. TX!Turn(c, Doing(c))
  BY TurnOf
<1>3. [d \in Client |-> Doing(d)]' = [d \in Client |-> Doing(d)]
  BY <1>2 DEF TX!Turn
<1> QED
  BY <1>1, <1>3 DEF TX!txvars

(* At first nobody runs and every object is as it was made.                  *)
LEMMA InitTransactions == Init => TX!Init
<1> SUFFICES ASSUME Init PROVE TX!Init
  OBVIOUS
<1>1. TypeOK /\ ObjectsExact /\ Len(txns) = 1 /\ durable = 1 /\ DOMAIN txns = {1}
  BY InitType, InitObjects DEF Init
<1>2. ASSUME NEW o \in Obj
      PROVE  ObjAt(1, o) = 0
  <2>1. Wrote(1, o) = {}
    BY DEF Init, Wrote, NoObjs
  <2> QED
    BY <1>1, <2>1 DEF ObjectsExact, LastWritten
<1>3. States = << [o \in Obj |-> 0] >>
  <2>1. States \in Seq([Obj -> Nat]) /\ Len(States) = 1 /\ States[1] = [o \in Obj |-> ObjAt(1, o)]
    BY <1>1, StatesAre
  <2>2. States[1] = [o \in Obj |-> 0]
    BY <1>2, <2>1
  <2> QED
    BY <2>1, <2>2
<1>4. ASSUME NEW c \in Client
      PROVE  Doing(c) = TX!Idle
  <2>1. pc[c] = "idle"
    BY DEF Init
  <2> QED
    BY <2>1, DoingIs DEF BeforeCommit
<1> QED
  BY <1>1, <1>3, <1>4 DEF TX!Init

(* What a transaction has read is what the store has now.                    *)
LEMMA ReadsCurrent ==
  ASSUME IInv, NEW c \in Client, pc[c] \in BeforeCommit
  PROVE  TX!Current(c)
<1>1. TypeOK /\ ObjectsExact /\ saw[c] \in Partial(Obj, Nat)
  BY DEF IInv, TypeOK
<1>2. DOMAIN saw[c] \subseteq Obj
  BY <1>1, PartialIs
<1>3. \A o \in DOMAIN saw[c] : saw[c][o] = TX!Now[o]
  BY <1>1, <1>2, StatesAre DEF IInv, ReadsStable
<1>4. [d \in Client |-> Doing(d)][c] = TX!Running(saw[c], Pending(c))
  BY DoingIs
<1> QED
  BY <1>3, <1>4, Differ DEF TX!Current

(* Steps before the commit, each a step of the transaction or none.          *)
LEMMA RunningSteps ==
  ASSUME IInv, NEW c \in Client,
         \/ Begin(c) \/ (\E o \in Obj : Touch(c, o, "read") \/ Touch(c, o, "write"))
         \/ ReadBuf(c) \/ OverWrite(c) \/ Abort(c) \/ CommitReadOnly(c) \/ CommitFail(c)
         \/ (\E w \in BOOLEAN : CallCommit(c, w)) \/ CommitLock(c) \/ InstallBuf(c)
  PROVE  [TX!Next]_(TX!txvars)
<1>t. /\ TypeOK /\ ObjectsExact /\ pc \in [Client -> Place] /\ bufs \in [Client -> [Obj -> Buf]] /\ op \in [Client -> Local]
      /\ saw \in [Client -> Partial(Obj, Nat)]
  BY DEF IInv, TypeOK
<1>0. ClientNext(c) /\ commits' = commits /\ durable' = durable
  <2>1. ClientNext(c)
    BY DEF ClientNext
  <2>2. ASSUME Begin(c) \/ ReadBuf(c) \/ CommitFail(c)
        PROVE  commits' = commits /\ durable' = durable
    BY ONLY <2>2 DEF Begin, ReadBuf, CommitFail, logvars
  <2>3. ASSUME OverWrite(c) \/ Abort(c) \/ CommitReadOnly(c) \/ CommitLock(c)
        PROVE  commits' = commits /\ durable' = durable
    BY ONLY <2>3 DEF OverWrite, Abort, CommitReadOnly, CommitLock, logvars, histvars
  <2>4. ASSUME InstallBuf(c)
        PROVE  commits' = commits /\ durable' = durable
    BY ONLY <2>4 DEF InstallBuf, logvars, histvars
  <2>5. ASSUME NEW o \in Obj, Touch(c, o, "read") \/ Touch(c, o, "write")
        PROVE  commits' = commits /\ durable' = durable
    BY ONLY <2>5 DEF Touch, logvars, histvars
  <2>6. ASSUME NEW w \in BOOLEAN, CallCommit(c, w)
        PROVE  commits' = commits /\ durable' = durable
    BY ONLY <2>6 DEF CallCommit, logvars, histvars
  <2> QED
    BY <2>1, <2>2, <2>3, <2>4, <2>5, <2>6
<1>s. States' = States /\ TX!Turn(c, Doing(c)')
  BY <1>0, <1>t, SameStates, TurnOf
<1>d. [d \in Client |-> Doing(d)][c] = Doing(c)
  OBVIOUS
<1>1. CASE Begin(c)
  <2>1. pc[c] = "idle" /\ pc'[c] = "run" /\ saw'[c] = NoObjs /\ bufs'[c] = NoBufs
    BY <1>1, <1>t DEF Begin, Goto
  <2>2. Doing(c) = TX!Idle
    BY <2>1, DoingIs DEF BeforeCommit
  <2>3. Pending(c)' = TX!Nothing
    <3>1. Dirty(c)' = {}
      BY <2>1 DEF Dirty, NoBufs, NoBuf
    <3> QED
      BY <3>1 DEF Pending, TX!Nothing
  <2>4. Doing(c)' = TX!Running(TX!Nothing, TX!Nothing)
    <3>1. pc'[c] \in BeforeCommit /\ NoObjs = TX!Nothing
      BY <2>1 DEF BeforeCommit, NoObjs, TX!Nothing
    <3>2. Doing(c)' = TX!Running(saw'[c], Pending(c)')
      BY <3>1, DoingNext
    <3> QED
      BY <2>1, <2>3, <3>1, <3>2
  <2>5. TX!Begin(c)
    BY <1>0, <1>s, <1>d, <2>2, <2>4 DEF TX!Begin
  <2> QED
    BY <2>5 DEF TX!Next
<1>2. CASE ReadBuf(c)
  <2> DEFINE a == op[c].arg
  <2>1. pc[c] = "read" /\ pc'[c] = "run" /\ a \in Obj
    BY <1>2, <1>t, ReadSaw DEF ReadBuf, Goto
  <2>2. pc[c] \in BeforeCommit /\ pc'[c] \in BeforeCommit
    BY <2>1 DEF BeforeCommit
  <2>3. Doing(c) = TX!Running(saw[c], Pending(c))
    BY <2>2, DoingIs
  <2>4. Doing(c)' = TX!Running(saw'[c], Pending(c)')
    BY <2>2, DoingNext
  <2>5. CASE bufs[c][a].st # "none"
    <3>1. bufs' = bufs /\ saw' = saw
      BY <1>2, <2>5 DEF ReadBuf
    <3>2. Pending(c)' = Pending(c)
      BY <3>1 DEF Pending, Dirty
    <3> QED
      BY <1>0, <1>t, <2>3, <2>4, <3>1, <3>2, Stutters
  <2>6. CASE bufs[c][a].st = "none"
    <3>1. saw'[c] = [x \in DOMAIN saw[c] \cup {a} |-> IF x = a THEN Current(a) ELSE saw[c][x]]
      BY <1>2, <1>t, <2>6, ReadSaw
    <3>2. a \notin DOMAIN saw[c] \cup Dirty(c)
      BY <2>2, <2>6 DEF IInv, ReadsBuffered, Dirty
    <3>3. bufs'[c] = [bufs[c] EXCEPT ![a] = [st |-> "clean", data |-> Current(a)]]
      BY <1>2, <1>t, <2>1, <2>6 DEF ReadBuf
    <3>4. Dirty(c)' = Dirty(c) /\ \A o \in Dirty(c) : bufs'[c][o] = bufs[c][o]
      <4>1. bufs[c] \in [Obj -> Buf] /\ bufs'[c][a].st = "clean"
            /\ \A o \in Obj \ {a} : bufs'[c][o] = bufs[c][o]
        BY <1>t, <2>1, <3>3
      <4> QED
        BY <2>1, <3>2, <4>1 DEF Dirty
    <3>5. Pending(c)' = Pending(c)
      BY <3>4 DEF Pending
    <3>6. DOMAIN Pending(c) = Dirty(c)
      BY DEF Pending
    <3>7. saw'[c] = [x \in DOMAIN saw[c] \cup {a} |-> IF x = a THEN TX!Now[a] ELSE saw[c][x]]
      BY <1>t, <2>1, <3>1, StatesAre
    <3>8. TX!Read(c, a)
      <4> DEFINE r == [x \in DOMAIN saw[c] \cup {a} |-> IF x = a THEN TX!Now[a] ELSE saw[c][x]]
                 t == [d \in Client |-> Doing(d)][c]
      <4>1. t.at = "running" /\ t.reads = saw[c] /\ t.writes = Pending(c)
        BY <2>3, Differ
      <4>2. TX!Turn(c, TX!Running(r, Pending(c)))
        BY <1>s, <2>4, <3>5, <3>7
      <4>3. States' = States /\ durable' = durable /\ a \notin DOMAIN saw[c] \cup DOMAIN Pending(c)
        BY <1>0, <1>s, <3>2, <3>6
      <4> QED
        BY ONLY <4>1, <4>2, <4>3 DEF TX!Read
    <3> QED
      BY <2>1, <3>8 DEF TX!Next
  <2> QED
    BY <2>5, <2>6
<1>3. CASE OverWrite(c)
  <2> DEFINE a == op[c].arg
             v == op[c].n
  <2>1. pc[c] = "write" /\ pc'[c] = "run" /\ a \in Obj /\ v \in 0 .. MaxTxns /\ saw' = saw
    BY <1>3, <1>t DEF OverWrite, Goto, Local, histvars
  <2>2. pc[c] \in BeforeCommit /\ pc'[c] \in BeforeCommit
    BY <2>1 DEF BeforeCommit
  <2>3. Doing(c) = TX!Running(saw[c], Pending(c))
    BY <2>2, DoingIs
  <2>4. Doing(c)' = TX!Running(saw[c], Pending(c)')
    BY <2>1, <2>2, DoingNext
  <2>5. bufs'[c] = [bufs[c] EXCEPT ![a] = [st |-> "dirty", data |-> v]]
    BY <1>3, <1>t, <2>1 DEF OverWrite
  <2>6. bufs[c] \in [Obj -> Buf] /\ bufs'[c][a] = [st |-> "dirty", data |-> v]
        /\ \A o \in Obj \ {a} : bufs'[c][o] = bufs[c][o]
    BY <1>t, <2>1, <2>5
  <2>7. Dirty(c)' = Dirty(c) \cup {a}
    BY <2>1, <2>6 DEF Dirty
  <2>8. DOMAIN Pending(c) = Dirty(c)
    BY DEF Pending
  <2>9. Pending(c)' = [x \in DOMAIN Pending(c) \cup {a} |-> IF x = a THEN v ELSE Pending(c)[x]]
    <3>1. Pending(c)' = [x \in Dirty(c) \cup {a} |-> bufs'[c][x].data]
      BY <2>7 DEF Pending
    <3>2. ASSUME NEW x \in Dirty(c) \cup {a}
          PROVE  bufs'[c][x].data = IF x = a THEN v ELSE Pending(c)[x]
      <4>1. CASE x = a
        BY <2>6, <4>1
      <4>2. CASE x # a
        <5>1. x \in Dirty(c) /\ x \in Obj \ {a}
          BY <4>2 DEF Dirty
        <5> QED
          BY <2>6, <4>2, <5>1 DEF Pending
      <4> QED
        BY <4>1, <4>2
    <3> QED
      BY <2>8, <3>1, <3>2
  <2>10. TX!Write(c, a)
    <3> DEFINE w == [x \in DOMAIN Pending(c) \cup {a} |-> IF x = a THEN v ELSE Pending(c)[x]]
               t == [d \in Client |-> Doing(d)][c]
    <3>1. t.at = "running" /\ t.reads = saw[c] /\ t.writes = Pending(c)
      BY <2>3, Differ
    <3>2. TX!Turn(c, TX!Running(saw[c], w))
      BY <1>s, <2>4, <2>9
    <3>3. States' = States /\ durable' = durable /\ v \in 0 .. MaxTxns
      BY <1>0, <1>s, <2>1
    <3> QED
      BY ONLY <3>1, <3>2, <3>3 DEF TX!Write
  <2> QED
    BY <2>1, <2>10 DEF TX!Next
<1>4. CASE Abort(c) \/ CommitFail(c)
  <2>1. pc[c] \in BeforeCommit /\ pc'[c] = "release"
    BY <1>4, <1>t DEF Abort, CommitFail, Goto, BeforeCommit
  <2>2. Doing(c).at = "running"
    BY <2>1, DoingIs, Differ
  <2>3. Doing(c)' = TX!Idle
    BY <2>1, DoingNext DEF BeforeCommit
  <2>4. TX!Abort(c)
    BY <1>0, <1>s, <1>d, <2>2, <2>3 DEF TX!Abort
  <2> QED
    BY <2>4 DEF TX!Next
<1>5. CASE CommitReadOnly(c)
  <2>1. pc[c] \in BeforeCommit /\ pc'[c] = "release" /\ Dirty(c) = {}
    BY <1>5, <1>t DEF CommitReadOnly, Goto, BeforeCommit
  <2>2. Doing(c) = TX!Running(saw[c], Pending(c)) /\ Pending(c) = TX!Nothing
    BY <2>1, DoingIs DEF Pending, TX!Nothing
  <2>3. Doing(c)' = TX!Idle
    BY <2>1, DoingNext DEF BeforeCommit
  <2>4. TX!Current(c)
    BY <2>1, <2>2, ReadsCurrent
  <2>5. TX!CommitReadOnly(c)
    BY <1>0, <1>s, <1>d, <2>2, <2>3, <2>4, Differ DEF TX!CommitReadOnly
  <2> QED
    BY <2>5 DEF TX!Next
<1>6. CASE (\E o \in Obj : Touch(c, o, "read") \/ Touch(c, o, "write"))
           \/ (\E w \in BOOLEAN : CallCommit(c, w)) \/ CommitLock(c) \/ InstallBuf(c)
  <2>1. pc[c] \in BeforeCommit /\ pc'[c] \in BeforeCommit /\ bufs' = bufs /\ saw' = saw
    <3>1. pc \in [Client -> Place]
      BY <1>t
    <3>2. CASE CommitLock(c)
      BY ONLY <3>1, <3>2 DEF CommitLock, Goto, BeforeCommit, histvars
    <3>3. CASE InstallBuf(c)
      BY ONLY <3>3 DEF InstallBuf, BeforeCommit, histvars
    <3>4. CASE \E o \in Obj : Touch(c, o, "read") \/ Touch(c, o, "write")
      <4>1. PICK o \in Obj, l \in {"read", "write"} : Touch(c, o, l)
        BY <3>4
      <4> QED
        BY ONLY <3>1, <4>1 DEF Touch, Goto, BeforeCommit, histvars
    <3>5. CASE \E w \in BOOLEAN : CallCommit(c, w)
      <4>1. PICK w \in BOOLEAN : CallCommit(c, w)
        BY <3>5
      <4> QED
        BY ONLY <3>1, <4>1 DEF CallCommit, Goto, BeforeCommit, histvars
    <3> QED
      BY <1>6, <3>2, <3>3, <3>4, <3>5
  <2>2. Doing(c)' = Doing(c)
    BY <2>1, DoingSame
  <2> QED
    BY <1>0, <1>t, <2>2, Stutters
<1> QED
  BY <1>1, <1>2, <1>3, <1>4, <1>5, <1>6

(* The append of a commit is the whole transaction in one step.              *)
LEMMA AppendStep ==
  ASSUME IInv, TypeOK', ObjectsExact', NEW c \in Client, CommitAppend(c)
  PROVE  TX!Commit(c)
<1> DEFINE new == [o \in Obj |-> IF o \in Dirty(c) THEN bufs[c][o].data ELSE Current(o)]
<1>t. /\ TypeOK /\ ObjectsExact /\ Committing /\ pc \in [Client -> Place] /\ op \in [Client -> Local]
      /\ txns \in Seq(Txn) /\ txns' \in Seq(Txn)
  BY DEF IInv, TypeOK
<1>0. PICK n \in Nat : n = Len(txns) /\ n \in 1 .. n
  BY <1>t DEF TypeOK
<1>1. PICK t \in Txn : txns' = Append(txns, t) /\ op'[c].target = n + 1
  BY <1>t, <1>0, AppendEffect
<1>2. Len(txns') = n + 1 /\ \A i \in 1 .. n : txns'[i] = txns[i]
  BY <1>t, <1>0, <1>1, AppendProperties
<1>3. /\ ClientNext(c) /\ durable' = durable /\ pc[c] \in BeforeCommit
      /\ pc'[c] \in {"wait", "release"}
  <2>1. ClientNext(c)
    BY DEF ClientNext
  <2>2. durable' = durable /\ pc[c] = "install" /\ pc' = [pc EXCEPT ![c] = IF op[c].wait THEN "wait" ELSE "release"]
    BY DEF CommitAppend, LS!LogMemAppend, Goto
  <2> QED
    BY <1>t, <2>1, <2>2 DEF BeforeCommit
<1>4. /\ States \in Seq([Obj -> Nat]) /\ Len(States) = n
      /\ \A m \in 1 .. n : States[m] = [o \in Obj |-> ObjAt(m, o)]
  BY <1>t, <1>0, StatesAre
<1>5. /\ States' \in Seq([Obj -> Nat]) /\ Len(States') = n + 1
      /\ \A m \in 1 .. n + 1 : States'[m] = [o \in Obj |-> ObjAt(m, o)']
  BY <1>2, StatesNext
<1>6. \A m \in 1 .. n : States'[m] = States[m]
  <2> SUFFICES ASSUME NEW m \in 1 .. n PROVE States'[m] = States[m]
    OBVIOUS
  <2>1. SubSeq(txns', 1, m) = SubSeq(txns, 1, m)
    BY <1>t, <1>0, <1>1, <1>2
  <2>2. \A o \in Obj : ObjAt(m, o)' = ObjAt(m, o)
    BY <2>1 DEF ObjAt, LS!DiskAt
  <2> QED
    BY <1>4, <1>5, <2>2
<1>7. States'[n + 1] = new
  <2>1. SubSeq(txns', 1, n + 1) = txns'
    BY <1>t, <1>2, SubSeqFull
  <2>2. ASSUME NEW o \in Obj
        PROVE  ObjAt(n + 1, o)' = new[o]
    <3>1. ObjAt(n + 1, o)' = LS!Value(txns', o.Blkno)[o.Off]
      BY <2>1, ObjParts DEF ObjAt, LS!DiskAt
    <3> QED
      BY <1>t, <3>1, AppendCurrent
  <2>3. States'[n + 1] = [o \in Obj |-> ObjAt(n + 1, o)']
    BY <1>5
  <2> QED
    BY <2>2, <2>3
<1>8. States' = Append(States, new)
  <2> HIDE DEF new
  <2>1. new \in [Obj -> Nat]
    BY <1>5, <1>7, ElementOfSeq
  <2>2. Append(States, new) \in Seq([Obj -> Nat]) /\ Len(Append(States, new)) = n + 1
        /\ Append(States, new)[n + 1] = new /\ \A m \in 1 .. n : Append(States, new)[m] = States[m]
    BY <1>4, <2>1, AppendProperties
  <2>3. \A m \in 1 .. n + 1 : m \in 1 .. n \/ m = n + 1
    OBVIOUS
  <2>4. \A m \in 1 .. n + 1 : States'[m] = Append(States, new)[m]
    BY <1>6, <1>7, <2>2, <2>3
  <2> QED
    BY <1>5, <2>2, <2>4, SeqEqual
<1>9. Doing(c) = TX!Running(saw[c], Pending(c)) /\ DOMAIN Pending(c) = Dirty(c)
      /\ \A o \in Dirty(c) : Pending(c)[o] = bufs[c][o].data
  BY <1>3, DoingIs DEF Pending
<1>10. Doing(c)' = TX!Waiting(n + 1) \/ Doing(c)' = TX!Idle
  BY <1>1, <1>3, DoingNext DEF BeforeCommit
<1>11. TX!Turn(c, TX!Waiting(n + 1)) \/ TX!Turn(c, TX!Idle)
  BY <1>t, <1>3, <1>10, TurnOf
<1>12. [d \in Client |-> Doing(d)][c] = Doing(c)
  OBVIOUS
<1>13. TX!Current(c)
  BY <1>3, ReadsCurrent
<1>14. new = [o \in Obj |-> IF o \in DOMAIN Pending(c) THEN Pending(c)[o] ELSE TX!Now[o]]
  BY <1>t, <1>9, StatesAre
<1> HIDE DEF new
<1>15. Len(States) = n /\ States' = Append(States, new) /\ durable' = durable
  BY <1>3, <1>4, <1>8
<1>16. LET w == [d \in Client |-> Doing(d)][c]
       IN  w.at = "running" /\ w.writes = Pending(c)
  BY <1>9, <1>12, Differ
<1> QED
  BY ONLY <1>11, <1>13, <1>14, <1>15, <1>16 DEF TX!Commit

(* Steps after the commit, and flushes.                                      *)
LEMMA LaterSteps ==
  ASSUME IInv, NEW c \in Client,
         CommitWaited(c) \/ Release(c) \/ ReleaseDone(c) \/ CallFlush(c) \/ FlushRead(c) \/ FlushReturn(c)
  PROVE  [TX!Next]_(TX!txvars)
<1>t. /\ TypeOK /\ ObjectsExact /\ PromisesCovered /\ pc \in [Client -> Place] /\ op \in [Client -> Local]
  BY DEF IInv, TypeOK
<1>0. ClientNext(c) /\ commits' = commits /\ durable' = durable
  BY DEF ClientNext, CommitWaited, Release, ReleaseDone, CallFlush, FlushRead, FlushReturn, logvars, histvars
<1>1. CASE CommitWaited(c)
  <2>1. pc[c] = "wait" /\ pc'[c] = "release" /\ Flushed(op[c].pos)
    BY <1>1, <1>t DEF CommitWaited, Goto
  <2>2. op[c].target \in Nat /\ op[c].pos \in Nat
    BY <1>t DEF Local
  <2>3. op[c].target <= Len(txns) /\ Covered(op[c].target, op[c].pos)
    BY <1>t, <2>1 DEF PromisesCovered, CallCovered
  <2>4. op[c].target <= durable
    BY <1>t, <2>1, <2>2, <2>3, FlushedCovered
  <2>5. Doing(c) = TX!Waiting(op[c].target) /\ Doing(c)' = TX!Idle
    BY <2>1, DoingIs, DoingNext DEF BeforeCommit
  <2>6. TX!Turn(c, TX!Idle) /\ States' = States
    BY <1>0, <1>t, <2>5, TurnOf, SameStates
  <2>7. [d \in Client |-> Doing(d)][c] = TX!Waiting(op[c].target)
    BY <2>5
  <2>8. TX!Return(c)
    BY <1>0, <2>4, <2>6, <2>7 DEF TX!Return, TX!Waiting
  <2> QED
    BY <2>8 DEF TX!Next
<1>2. CASE Release(c) \/ ReleaseDone(c) \/ CallFlush(c) \/ FlushRead(c) \/ FlushReturn(c)
  <2>1. pc[c] \in {"release", "idle", "flush", "flushWait"} /\ pc'[c] \in {"release", "idle", "flush", "flushWait"}
    BY <1>2, <1>t DEF Release, ReleaseDone, CallFlush, FlushRead, FlushReturn, Goto
  <2>2. Doing(c) = TX!Idle /\ Doing(c)' = TX!Idle
    BY <2>1, DoingIs, DoingNext DEF BeforeCommit
  <2> QED
    BY <1>0, <1>t, <2>2, Stutters
<1> QED
  BY <1>1, <1>2

(* The log gets to disk, or the machine stops.                               *)
LEMMA LogSteps ==
  ASSUME IInv, TypeOK', ObjectsExact', BecomesDurable \/ Crash
  PROVE  TX!Next
<1>t. /\ TypeOK /\ ObjectsExact /\ txns \in Seq(Txn) /\ durable \in 1 .. Len(txns) /\ Len(txns) \in Nat
  <2>1. TypeOK /\ ObjectsExact
    BY DEF IInv
  <2>2. txns \in Seq(Txn) /\ durable \in 1 .. Len(txns)
    BY ONLY <2>1 DEF TypeOK
  <2> QED
    BY ONLY <2>1, <2>2
<1>s. States \in Seq([Obj -> Nat]) /\ Len(States) = Len(txns)
  BY <1>t, StatesAre
<1>1. CASE BecomesDurable
  <2>1. durable' \in durable .. Len(txns) /\ UNCHANGED <<commits, pc, bufs, op, saw>>
    BY <1>1 DEF BecomesDurable, LS!UpdateDurable, memvars, histvars
  <2>2. ASSUME NEW c \in Client
        PROVE  Doing(c)' = Doing(c)
    BY <2>1, DoingSame
  <2>3. States' = States
    BY <2>1, SameStates
  <2>4. TX!Persist
    BY <1>s, <2>1, <2>2, <2>3 DEF TX!Persist
  <2> QED
    BY <2>4 DEF TX!Next
<1>2. CASE Crash
  <2>1. PICK n \in durable .. Len(txns) :
          /\ n \in 1 .. Len(txns) /\ txns' = SubSeq(txns, 1, n) /\ Len(txns') = n
          /\ \A i \in 1 .. n : txns'[i] = txns[i] /\ commits'[i] = commits[i]
          /\ durable' = n
    BY <1>2, <1>t, CrashEffect
  <2>2. States' \in Seq([Obj -> Nat]) /\ Len(States') = n
        /\ \A m \in 1 .. n : States'[m] = [o \in Obj |-> ObjAt(m, o)']
    BY <2>1, StatesNext
  <2>3. \A m \in 1 .. n : States'[m] = States[m]
    <3> SUFFICES ASSUME NEW m \in 1 .. n PROVE States'[m] = States[m]
      OBVIOUS
    <3>1. /\ m \in 1 .. Len(txns) /\ m <= Len(txns')
          /\ \A i \in 1 .. m : txns'[i] = txns[i] /\ commits'[i] = commits[i]
      BY <1>t, <2>1
    <3>2. \A o \in Obj : ObjAt(m, o)' = ObjAt(m, o)
      BY <1>t, <3>1, SamePrefix
    <3> QED
      BY <1>t, <2>2, <3>1, <3>2, StatesAre
  <2>4. States' = SubSeq(States, 1, n)
    <3>1. \A i \in 1 .. n : States[i] \in [Obj -> Nat]
      BY <1>s, <1>t, <2>1, ElementOfSeq
    <3>2. /\ SubSeq(States, 1, n) \in Seq([Obj -> Nat]) /\ Len(SubSeq(States, 1, n)) = n
          /\ \A i \in 1 .. n : SubSeq(States, 1, n)[i] = States[i]
      BY <1>s, <1>t, <2>1, <3>1, SubSeqProperties
    <3> QED
      BY <2>2, <2>3, <3>2, SeqEqual
  <2>5. \A c \in Client : Doing(c)' = TX!Idle
    <3>1. pc' = [c \in Client |-> "idle"]
      BY <1>2 DEF Crash
    <3> QED
      BY <3>1, DoingNext DEF BeforeCommit
  <2>6. TX!Crash
    BY <1>s, <2>1, <2>4, <2>5 DEF TX!Crash
  <2> QED
    BY <2>6 DEF TX!Next
<1> QED
  BY <1>1, <1>2

(* Every step is a step of the store of transactions, or none.               *)
LEMMA StepTransactions == IInv /\ IInv' /\ [Next]_vars => [TX!Next]_(TX!txvars)
<1> SUFFICES ASSUME IInv, IInv', [Next]_vars PROVE [TX!Next]_(TX!txvars)
  OBVIOUS
<1>t. TypeOK /\ TypeOK' /\ ObjectsExact'
  BY DEF IInv
<1>1. ASSUME NEW c \in Client, CommitAppend(c)
      PROVE  [TX!Next]_(TX!txvars)
  BY <1>1, <1>t, AppendStep DEF TX!Next
<1>2. ASSUME NEW c \in Client, ClientNext(c)
      PROVE  [TX!Next]_(TX!txvars)
  BY <1>1, <1>2, RunningSteps, LaterSteps DEF ClientNext
<1>3. CASE BecomesDurable \/ Crash
  BY <1>3, <1>t, LogSteps
<1>4. CASE UNCHANGED vars
  <2>1. UNCHANGED <<commits, durable, pc, bufs, op, saw>>
    BY <1>4 DEF vars, memvars
  <2>2. ASSUME NEW c \in Client
        PROVE  Doing(c)' = Doing(c)
    BY <2>1, DoingSame
  <2> QED
    BY <2>1, <2>2, SameStates DEF TX!txvars
<1> QED
  BY <1>2, <1>3, <1>4 DEF Next

(* txn.v keeps the promise of its title, "a full transaction interface":     *)
(* two-phase locking over buffers, whole blocks and the write-ahead log is a *)
(* store whose transactions take effect one at a time, each at once, survive *)
(* every crash once a CommitWait that waits has returned, and are otherwise  *)
(* lost as a whole and from the last one on.                                 *)
THEOREM JournalImplementsTransactions == Spec => ImplementsTransactions
<1>1. Init => TX!Init
  BY InitTransactions
<1>2. IInv /\ IInv' /\ [Next]_vars => [TX!Next]_(TX!txvars)
  BY StepTransactions
<1> QED
  BY <1>1, <1>2, JournalInvariant, PTL DEF Spec, ImplementsTransactions, TX!Spec
=============================================================================
