------------------------------- MODULE RpcProofs ------------------------------
(* Lemmas about the RPC client and server, toward the theorems of module     *)
(* RpcStreamProofs: every action keeps SafeInv where the streams are as      *)
(* StreamInv says.  A step changes one thread, its list and one connection;  *)
(* most lemmas are about these three records before and after.               *)
EXTENDS RpcInv, SequenceTheorems, FiniteSetTheorems, TLAPS

-----------------------------------------------------------------------------
(* Sequences of pieces.                                                      *)

(* The elements of a sequence are those at its indices.                      *)
LEMMA InRange ==
  ASSUME NEW S, NEW s \in Seq(S)
  PROVE  /\ \A i \in 1..Len(s) : s[i] \in Range(s)
         /\ \A y \in Range(s) : y \in S /\ \E i \in 1..Len(s) : y = s[i]
BY RangeEquality, ElementOfSeq

(* An empty sequence has no elements.                                        *)
LEMMA EmptyRange ==
  ASSUME NEW s \in Seq(Pieces), s = <<>> \/ Len(s) = 0
  PROVE  s = <<>> /\ Len(s) = 0 /\ (\A y : y \notin Range(s)) /\ InOrder(s)
<1>1. Len(s) = 0
  BY EmptySeq
<1>2. s = <<>>
  BY <1>1, EmptySeq
<1>3. 1..Len(s) = {}
  BY <1>1
<1>4. \A y : y \notin Range(s)
  BY <1>3, InRange
<1> QED BY <1>1, <1>2, <1>3, <1>4 DEF InOrder

(* Concatenation is associative.                                             *)
LEMMA Associative ==
  ASSUME NEW s \in Seq(Pieces), NEW t \in Seq(Pieces), NEW u \in Seq(Pieces)
  PROVE  (s \o t) \o u = s \o (t \o u)
BY ConcatAssociative

(* And it is closed.                                                         *)
LEMMA Concatenated ==
  ASSUME NEW s \in Seq(Pieces), NEW t \in Seq(Pieces)
  PROVE  s \o t \in Seq(Pieces)
BY ConcatProperties, Zenon

(* A concatenation has the elements of both.                                 *)
LEMMA RangeOfConcat ==
  ASSUME NEW S, NEW a \in Seq(S), NEW b \in Seq(S)
  PROVE  \A y : y \in Range(a \o b) <=> y \in Range(a) \/ y \in Range(b)
BY RangeConcatenation

(* The place of a piece is a number from one on, and tells part and half.    *)
LEMMA PlaceOfPiece ==
  ASSUME NEW x \in Pieces
  PROVE  /\ Place(x) \in Nat \ {0} /\ Place(x) = 2 * (x.part - 1) + x.half
         /\ x.half = 1 \/ x.half = 2
         /\ x.part \in Nat \ {0} /\ x.msg \in Messages
BY DEF Place, Pieces

(* What the assumption says of the constants, one by one.                    *)
LEMMA ConstantTypes ==
  /\ XidMod \in Nat /\ XidMod > 0 /\ RecvMax \in Nat /\ RecvMax > 0 /\ Creator \in Threads
  /\ Sizes \in Seq((Nat \ {0}) \X (Nat \ {0})) /\ Len(Sizes) \in Nat
BY RpcAssumption, LenProperties

(* A piece is within a part just if it is within its two places.             *)
LEMMA PlaceBounds ==
  ASSUME NEW y \in Pieces, NEW p \in Nat
  PROVE  /\ y.part <= p <=> Place(y) <= 2 * p
         /\ y.part < p <=> Place(y) < 2 * p - 1
         /\ y.part = p /\ y.half = 2 <=> Place(y) = 2 * p
         /\ y.part = p /\ y.half = 1 <=> Place(y) = 2 * p - 1
BY PlaceOfPiece

(* Counting modulo M.                                                        *)
LEMMA NextModulo ==
  ASSUME NEW n \in Nat, NEW M \in Nat, M > 0
  PROVE  ((n % M) + 1) % M = (n + 1) % M /\ (n + 1) % M \in Nat
<1> DEFINE q == n \div M
           r == n % M
<1>1. n = M * q + r /\ r \in 0..(M-1) /\ q \in Int
  OBVIOUS
<1> HIDE DEF q, r
<1>2. CASE r + 1 < M
  <2>1. (r + 1) % M = r + 1
    BY <1>1, <1>2
  <2>2. (n + 1) % M = r + 1
    <3>1. n + 1 = M * q + (r + 1)
      BY <1>1
    <3> QED BY <3>1, <1>1, <1>2
  <2> QED BY <2>1, <2>2 DEF r
<1>3. CASE r + 1 = M
  <2>1. (r + 1) % M = 0
    BY <1>1, <1>3
  <2>2. (n + 1) % M = 0
    <3>1. n + 1 = M * (q + 1) + 0
      BY <1>1, <1>3
    <3> QED BY <3>1, <1>1
  <2> QED BY <2>1, <2>2 DEF r
<1>4. (n + 1) % M \in Nat
  OBVIOUS
<1> QED BY <1>1, <1>2, <1>3, <1>4

(* A message has at least one fragment, and so has its reply.                *)
LEMMA MessageSizes ==
  ASSUME NEW m \in Messages
  PROVE  /\ m.no \in 1..Len(Sizes) /\ m = MessageAt(m.no)
         /\ m.frags \in Nat \ {0} /\ m.back \in Nat \ {0} /\ m.xid \in Nat
<1>1. PICK n \in 1..Len(Sizes) : m = MessageAt(n)
  BY DEF Messages
<1>2. Sizes[n] \in (Nat \ {0}) \X (Nat \ {0})
  BY <1>1, ConstantTypes, ElementOfSeq
<1>3. n % XidMod \in Nat
  <2>1. n \in Int /\ XidMod \in Nat /\ XidMod > 0
    BY <1>1, ConstantTypes
  <2> QED BY <2>1
<1> QED BY <1>1, <1>2, <1>3 DEF MessageAt

(* A message is no piece of nothing.                                         *)
LEMMA MessageNotNone ==
  ASSUME NEW m \in Messages
  PROVE  m # None
<1>1. PICK n \in 1..Len(Sizes) : m = MessageAt(n)
  BY DEF Messages
<1>2. "no" \in DOMAIN m
  BY <1>1 DEF MessageAt
<1>3. "no" \notin DOMAIN None
  BY DEF None
<1> QED BY <1>2, <1>3

(* A fragment is two pieces.                                                 *)
LEMMA FragmentPieces ==
  ASSUME NEW m \in Messages, NEW p \in Nat \ {0}
  PROVE  LET f == Fragment(m, p)
         IN  /\ f \in Seq(Pieces) /\ Len(f) = 2
             /\ f[1].msg = m /\ f[1].part = p /\ f[1].half = 1
             /\ f[2].msg = m /\ f[2].part = p /\ f[2].half = 2
             /\ Range(f) = {f[1], f[2]}
             /\ \A y \in Range(f) : y.msg = m /\ y.part = p
<1> DEFINE f == Fragment(m, p)
<1>1. f \in Seq(Pieces) /\ Len(f) = 2
  BY DEF Fragment, Pieces
<1>2. f[1].msg = m /\ f[1].part = p /\ f[1].half = 1 /\ f[2].msg = m /\ f[2].part = p /\ f[2].half = 2
  BY DEF Fragment
<1>3. Range(f) = {f[1], f[2]}
  <2>1. Range(f) = {f[i] : i \in 1..Len(f)}
    BY <1>1, RangeEquality
  <2> HIDE DEF f
  <2> QED BY <2>1, <1>1
<1> QED BY <1>1, <1>2, <1>3

(* The parts of an ordered sequence are ordered, and their common messages   *)
(* come on one before those of the other.                                    *)
LEMMA InOrderSplit ==
  ASSUME NEW a \in Seq(Pieces), NEW b \in Seq(Pieces), InOrder(a \o b)
  PROVE  /\ InOrder(a) /\ InOrder(b)
         /\ \A y \in Range(a), z \in Range(b) : y.msg = z.msg => Place(y) < Place(z)
<1> DEFINE s == a \o b
<1>1. /\ Len(s) = Len(a) + Len(b) /\ Len(a) \in Nat /\ Len(b) \in Nat
      /\ \A i \in 1..(Len(a) + Len(b)) : s[i] = IF i <= Len(a) THEN a[i] ELSE b[i - Len(a)]
  BY ConcatProperties, LenProperties
<1>2. \A i, j \in 1..Len(s) : i < j /\ s[i].msg = s[j].msg => Place(s[i]) < Place(s[j])
  BY DEF InOrder
<1> HIDE DEF s
<1>3. InOrder(a)
  <2> SUFFICES ASSUME NEW i \in 1..Len(a), NEW j \in 1..Len(a), i < j, a[i].msg = a[j].msg
               PROVE  Place(a[i]) < Place(a[j])
    BY DEF InOrder
  <2>1. s[i] = a[i] /\ s[j] = a[j] /\ i \in 1..Len(s) /\ j \in 1..Len(s)
    BY <1>1
  <2> QED BY <2>1, <1>2
<1>4. InOrder(b)
  <2> SUFFICES ASSUME NEW i \in 1..Len(b), NEW j \in 1..Len(b), i < j, b[i].msg = b[j].msg
               PROVE  Place(b[i]) < Place(b[j])
    BY DEF InOrder
  <2>1. PICK x \in 1..Len(s), y \in 1..Len(s) : x = i + Len(a) /\ y = j + Len(a)
    <3>1. i + Len(a) \in 1..Len(s) /\ j + Len(a) \in 1..Len(s)
      BY <1>1
    <3> QED BY <3>1
  <2>2. x < y /\ ~(x <= Len(a)) /\ ~(y <= Len(a)) /\ x - Len(a) = i /\ y - Len(a) = j
    BY <2>1, <1>1
  <2>3. s[x] = b[i] /\ s[y] = b[j]
    BY <2>2, <1>1
  <2> QED BY <2>2, <2>3, <1>2
<1>5. ASSUME NEW y \in Range(a), NEW z \in Range(b), y.msg = z.msg
      PROVE  Place(y) < Place(z)
  <2>1. PICK i \in 1..Len(a) : y = a[i]
    BY InRange
  <2>2. PICK j \in 1..Len(b) : z = b[j]
    BY InRange
  <2>3. s[i] = a[i] /\ s[j + Len(a)] = b[j] /\ i \in 1..Len(s) /\ j + Len(a) \in 1..Len(s) /\ i < j + Len(a)
    BY <1>1
  <2> QED BY <2>1, <2>2, <2>3, <1>2, <1>5
<1> QED BY <1>3, <1>4, <1>5

(* Ordered sequences joined are ordered if what they share comes first on    *)
(* the first.                                                                *)
LEMMA InOrderJoin ==
  ASSUME NEW a \in Seq(Pieces), NEW b \in Seq(Pieces), InOrder(a), InOrder(b),
         \A y \in Range(a), z \in Range(b) : y.msg = z.msg => Place(y) < Place(z)
  PROVE  InOrder(a \o b)
<1> DEFINE s == a \o b
<1>1. /\ Len(s) = Len(a) + Len(b) /\ Len(a) \in Nat /\ Len(b) \in Nat
      /\ \A i \in 1..(Len(a) + Len(b)) : s[i] = IF i <= Len(a) THEN a[i] ELSE b[i - Len(a)]
  BY ConcatProperties, LenProperties
<1> HIDE DEF s
<1> SUFFICES ASSUME NEW i \in 1..Len(s), NEW j \in 1..Len(s), i < j, s[i].msg = s[j].msg
             PROVE  Place(s[i]) < Place(s[j])
  BY DEF InOrder, s
<1>2. CASE j <= Len(a)
  BY <1>1, <1>2 DEF InOrder
<1>3. CASE i > Len(a)
  <2>1. s[i] = b[i - Len(a)] /\ s[j] = b[j - Len(a)] /\ i - Len(a) \in 1..Len(b) /\ j - Len(a) \in 1..Len(b)
        /\ i - Len(a) < j - Len(a)
    BY <1>1, <1>3
  <2> QED BY <2>1 DEF InOrder
<1>4. CASE i <= Len(a) /\ j > Len(a)
  <2>1. s[i] = a[i] /\ i \in 1..Len(a) /\ s[j] = b[j - Len(a)] /\ j - Len(a) \in 1..Len(b)
    BY <1>1, <1>4
  <2>2. a[i] \in Range(a) /\ b[j - Len(a)] \in Range(b)
    BY <2>1, InRange
  <2> QED BY <2>1, <2>2
<1> QED BY <1>2, <1>3, <1>4, <1>1

(* A fragment appended to pieces of lower parts keeps them in order.         *)
LEMMA InOrderFragment ==
  ASSUME NEW s \in Seq(Pieces), InOrder(s), NEW m \in Messages, NEW p \in Nat \ {0},
         \A y \in Range(s) : y.msg = m => y.part < p
  PROVE  InOrder(s \o Fragment(m, p))
<1> DEFINE f == Fragment(m, p)
<1>1. /\ f \in Seq(Pieces) /\ Len(f) = 2 /\ Range(f) = {f[1], f[2]}
      /\ f[1].msg = m /\ f[1].part = p /\ f[1].half = 1
      /\ f[2].msg = m /\ f[2].part = p /\ f[2].half = 2
  BY FragmentPieces
<1> HIDE DEF f
<1>2. Place(f[1]) = 2 * (p - 1) + 1 /\ Place(f[2]) = 2 * (p - 1) + 2
  BY <1>1 DEF Place
<1>3. InOrder(f)
  BY <1>1, <1>2 DEF InOrder
<1>4. ASSUME NEW y \in Range(s), NEW z \in Range(f), y.msg = z.msg
      PROVE  Place(y) < Place(z)
  <2>1. y \in Pieces
    BY InRange
  <2>2. y.part < p
    BY <1>1, <1>4
  <2>3. Place(z) >= 2 * (p - 1) + 1
    BY <1>1, <1>2
  <2>4. Place(z) \in Int
    BY <1>1, <1>2
  <2>5. /\ Place(y) \in Int /\ Place(y) = 2 * (y.part - 1) + y.half
        /\ y.half \in {1, 2} /\ y.part \in Int
    BY <2>1, PlaceOfPiece
  <2>6. \A u, h, v, k \in Int : u < k /\ h \in {1, 2} /\ v >= 2 * (k - 1) + 1 => 2 * (u - 1) + h < v
    OBVIOUS
  <2>7. p \in Int
    OBVIOUS
  <2>8. y.half \in Int
    BY <2>5
  <2> QED BY ONLY <2>2, <2>3, <2>4, <2>5, <2>6, <2>7, <2>8
<1> QED BY <1>1, <1>3, <1>4, InOrderJoin DEF f

-----------------------------------------------------------------------------
(* The two streams of a connection.                                          *)

(* The fields of a connection have their types.                              *)
LEMMA ConnectionFields ==
  ASSUME NEW r \in Connections
  PROVE  /\ r.by \in Threads /\ r.open \in BOOLEAN /\ r.broken \in BOOLEAN
         /\ r.cut \in BOOLEAN /\ r.torn \in BOOLEAN
         /\ r.up \in Seq(Pieces) /\ r.down \in Seq(Pieces) /\ r.readbuf \in Seq(Pieces)
         /\ r.packetbuf \in Seq(Pieces) /\ r.writebuf \in Seq(Pieces)
         /\ r.recordbuf \in Seq(Queued)
         /\ Len(r.up) \in Nat /\ Len(r.down) \in Nat /\ Len(r.readbuf) \in Nat
         /\ Len(r.packetbuf) \in Nat /\ Len(r.writebuf) \in Nat /\ Len(r.recordbuf) \in Nat
<1>1. /\ r.by \in Threads /\ r.open \in BOOLEAN /\ r.broken \in BOOLEAN
      /\ r.cut \in BOOLEAN /\ r.torn \in BOOLEAN
      /\ r.up \in Seq(Pieces) /\ r.down \in Seq(Pieces) /\ r.readbuf \in Seq(Pieces)
      /\ r.packetbuf \in Seq(Pieces) /\ r.writebuf \in Seq(Pieces)
      /\ r.recordbuf \in Seq(Queued)
  BY DEF Connections
<1> QED BY <1>1, LenProperties

(* And so have those of a thread.                                            *)
LEMMA ThreadFields ==
  ASSUME NEW T \in ThreadStates
  PROVE  /\ T.msg \in Messages \union {None} /\ T.part \in Nat /\ T.want \in Int
         /\ T.got \in Seq(Pieces) /\ Len(T.got) \in Nat /\ T.sock \in Nat
         /\ T.answer \in Answers \union {None}
         /\ T.pc \in {"idle", "send", "retry", "resend", "add", "listen", "relisten"}
<1>1. T.got \in Seq(Pieces)
  BY DEF ThreadStates
<1> QED BY <1>1, LenProperties DEF ThreadStates

(* A thread that does nothing.                                               *)
LEMMA SomeThread == \E T \in ThreadStates : T = Thread(0)
<1>1. <<>> \in Seq(Pieces) /\ NoXid \in Int /\ None \in Messages \union {None} /\ 0 \in Nat
      /\ None \in Answers \union {None}
  BY DEF NoXid
<1> QED BY <1>1 DEF Thread, ThreadStates

(* The streams are sequences of pieces, with the elements of their parts.    *)
LEMMA Streams ==
  ASSUME NEW r \in Connections, NEW T \in ThreadStates
  PROVE  /\ Asked(r) \in Seq(Pieces) /\ Told(T, r) \in Seq(Pieces)
         /\ Len(Asked(r)) \in Nat /\ Len(Told(T, r)) \in Nat
         /\ Len(Asked(r)) = Len(r.packetbuf) + Len(r.readbuf) + Len(r.up)
         /\ Len(Told(T, r)) = Len(T.got) + Len(r.down) + Len(r.writebuf)
         /\ \A y : y \in Range(Asked(r)) <=> \/ y \in Range(r.packetbuf)
                                             \/ y \in Range(r.readbuf) \/ y \in Range(r.up)
         /\ \A y : y \in Range(Told(T, r)) <=> \/ y \in Range(T.got)
                                               \/ y \in Range(r.down) \/ y \in Range(r.writebuf)
<1>1. /\ r.packetbuf \in Seq(Pieces) /\ r.readbuf \in Seq(Pieces) /\ r.up \in Seq(Pieces)
      /\ r.down \in Seq(Pieces) /\ r.writebuf \in Seq(Pieces) /\ T.got \in Seq(Pieces)
  BY ConnectionFields, ThreadFields
<1>2. /\ r.packetbuf \o r.readbuf \in Seq(Pieces) /\ T.got \o r.down \in Seq(Pieces)
      /\ Len(r.packetbuf \o r.readbuf) = Len(r.packetbuf) + Len(r.readbuf)
      /\ Len(T.got \o r.down) = Len(T.got) + Len(r.down)
  BY <1>1, ConcatProperties
<1>3. /\ Asked(r) \in Seq(Pieces) /\ Told(T, r) \in Seq(Pieces)
      /\ Len(Asked(r)) = Len(r.packetbuf) + Len(r.readbuf) + Len(r.up)
      /\ Len(Told(T, r)) = Len(T.got) + Len(r.down) + Len(r.writebuf)
  BY <1>1, <1>2, ConcatProperties DEF Asked, Told
<1>4. /\ \A y : y \in Range(r.packetbuf \o r.readbuf) <=> y \in Range(r.packetbuf) \/ y \in Range(r.readbuf)
      /\ \A y : y \in Range(T.got \o r.down) <=> y \in Range(T.got) \/ y \in Range(r.down)
  BY <1>1, RangeOfConcat
<1>5. /\ \A y : y \in Range(Asked(r)) <=> y \in Range(r.packetbuf \o r.readbuf) \/ y \in Range(r.up)
      /\ \A y : y \in Range(Told(T, r)) <=> y \in Range(T.got \o r.down) \/ y \in Range(r.writebuf)
  BY <1>1, <1>2, RangeOfConcat DEF Asked, Told
<1> QED BY <1>3, <1>4, <1>5, LenProperties

(* What the server reads stays in the order it came in.                      *)
LEMMA ReadMoves ==
  ASSUME NEW r \in Connections, NEW k \in 1..Len(r.up)
  PROVE  LET data == r.readbuf \o SubSeq(r.up, 1, k)
             up2 == SubSeq(r.up, k + 1, Len(r.up))
         IN  /\ data \in Seq(Pieces) /\ up2 \in Seq(Pieces) /\ Len(data) \in Nat
             /\ data \o up2 = r.readbuf \o r.up
<1> DEFINE data == r.readbuf \o SubSeq(r.up, 1, k)
           up2 == SubSeq(r.up, k + 1, Len(r.up))
<1>1. /\ r.packetbuf \in Seq(Pieces) /\ r.readbuf \in Seq(Pieces) /\ r.up \in Seq(Pieces) /\ Len(r.up) \in Nat
  BY ConnectionFields
<1>2. /\ SubSeq(r.up, 1, k) \in Seq(Pieces) /\ up2 \in Seq(Pieces)
  <2>1. \A i \in 1..k : r.up[i] \in Pieces
    BY <1>1, ElementOfSeq
  <2>2. \A i \in (k + 1)..Len(r.up) : r.up[i] \in Pieces
    BY <1>1, ElementOfSeq
  <2> QED BY <1>1, <2>1, <2>2, SubSeqProperties
<1>3. SubSeq(r.up, 1, k) \o up2 = r.up
  <2>1. SubSeq(r.up, 1, k) \o SubSeq(r.up, k + 1, Len(r.up)) = SubSeq(r.up, 1, Len(r.up))
    <3>1. /\ 1 \in 1..Len(r.up) + 1 /\ k \in (1 - 1)..Len(r.up) /\ Len(r.up) \in k..Len(r.up)
      BY <1>1
    <3> QED BY ONLY <1>1, <3>1, ConcatAdjacentSubSeq
  <2> QED BY <2>1, <1>1, SubSeqFull
<1>4. data \in Seq(Pieces) /\ data \o up2 = r.readbuf \o (SubSeq(r.up, 1, k) \o up2)
  <2>1. (r.readbuf \o SubSeq(r.up, 1, k)) \o up2 = r.readbuf \o (SubSeq(r.up, 1, k) \o up2)
    BY <1>1, <1>2, Associative, Zenon
  <2>2. r.readbuf \o SubSeq(r.up, 1, k) \in Seq(Pieces)
    BY <1>1, <1>2, Concatenated, Zenon
  <2> QED BY <2>1, <2>2, Zenon
<1>5. Len(data) \in Nat
  BY <1>4, LenProperties
<1> QED BY <1>2, <1>3, <1>4, <1>5

(* A packet is taken off the front of what was read.                         *)
LEMMA PacketTaken ==
  ASSUME NEW data \in Seq(Pieces), NEW n \in 0..Len(data)
  PROVE  /\ SubSeq(data, 1, n) \in Seq(Pieces) /\ Len(SubSeq(data, 1, n)) = n
         /\ \A i \in 1..n : SubSeq(data, 1, n)[i] = data[i]
         /\ SubSeq(data, n + 1, Len(data)) \in Seq(Pieces)
         /\ data = SubSeq(data, 1, n) \o SubSeq(data, n + 1, Len(data))
<1>1. Len(data) \in Nat /\ n \in Nat
  BY LenProperties
<1>2. /\ SubSeq(data, 1, n) \in Seq(Pieces) /\ Len(SubSeq(data, 1, n)) = n
      /\ \A i \in 1..n : SubSeq(data, 1, n)[i] = data[i]
  <2>1. \A i \in 1..n : data[i] \in Pieces
    BY <1>1, ElementOfSeq
  <2>2. /\ SubSeq(data, 1, n) \in Seq(Pieces) /\ Len(SubSeq(data, 1, n)) = IF 1 <= n THEN n - 1 + 1 ELSE 0
        /\ \A i \in 1..(n - 1 + 1) : SubSeq(data, 1, n)[i] = data[1 + i - 1]
    BY <2>1, <1>1, SubSeqProperties
  <2>3. (IF 1 <= n THEN n - 1 + 1 ELSE 0) = n
    BY <1>1
  <2> QED BY <2>2, <2>3, <1>1
<1>3. SubSeq(data, n + 1, Len(data)) \in Seq(Pieces)
  <2>1. \A i \in (n + 1)..Len(data) : data[i] \in Pieces
    BY <1>1, ElementOfSeq
  <2> QED BY <2>1, <1>1, SubSeqProperties
<1>4. SubSeq(data, 1, n) \o SubSeq(data, n + 1, Len(data)) = data
  <2>1. SubSeq(data, 1, n) \o SubSeq(data, n + 1, Len(data)) = SubSeq(data, 1, Len(data))
    <3>1. 1 \in 1..Len(data) + 1 /\ n \in (1 - 1)..Len(data) /\ Len(data) \in n..Len(data)
      BY <1>1
    <3> QED BY ONLY <3>1, data \in Seq(Pieces), ConcatAdjacentSubSeq
  <2> QED BY <2>1, SubSeqFull
<1> QED BY <1>2, <1>3, <1>4

-----------------------------------------------------------------------------
(* What a step does to the link of a thread and its connection, as lemmas    *)
(* about the records before and after.                                       *)

(* A call that was answered is in the stream of replies or to be written.    *)
LEMMA AnsweredIn ==
  ASSUME NEW T, NEW r
  PROVE  /\ \A y \in Range(Told(T, r)) : Answered(T, r, y.msg)
         /\ \A i \in 1..Len(r.recordbuf) : Answered(T, r, r.recordbuf[i].msg)
BY DEF Answered

(* The link is about the streams, and a thread's place in its program.       *)
LEMMA SameLink ==
  ASSUME NEW C, NEW T, NEW T2, NEW X, NEW lost, NEW r, NEW r2, NEW n,
         Asked(r2) = Asked(r), Told(T2, r2) = Told(T, r), r2.recordbuf = r.recordbuf,
         T2.pc = T.pc, T2.msg = T.msg, T2.part = T.part,
         Link(T, X, lost, r, n, C)
  PROVE  Link(T2, X, lost, r2, n, C)
<1>1. \A m : Answered(T2, r2, m) <=> Answered(T, r, m)
  BY DEF Answered
<1>2. \A m : Known(T2, X, lost, m) <=> Known(T, X, lost, m)
  BY DEF Known
<1>3. AllKnown(T2, X, lost, r2, C)
  BY <1>2 DEF Link, AllKnown, Knows
<1>4. AskedOrAnswered(T2, r2, C)
  BY <1>1 DEF Link, AskedOrAnswered
<1>5. Tells(T2, r2)
  BY DEF Link, Tells
<1>6. SentSoFar(T2, r2)
  BY <1>1 DEF Link, SentSoFar, IsSending
<1>7. KeptOnce(T2, X, r2, C)
  BY <1>1 DEF Link, KeptOnce
<1>8. Made(T2, r2, n)
  BY <1>1 DEF Link, Made
<1> QED BY <1>3, <1>4, <1>5, <1>6, <1>7, <1>8 DEF Link

(* What is about a request is about the stream of requests.                  *)
LEMMA SameAsks ==
  ASSUME NEW r, NEW r2, NEW n, Asked(r2) = Asked(r), Asks(r, n)
  PROVE  Asks(r2, n)
BY DEF Asks

(* More calls, a lost lock, or more calls cut, leave a link as it is.        *)
LEMMA LinkMonotone ==
  ASSUME NEW C, NEW C2, NEW T, NEW X, NEW lost, NEW lost2, NEW r, NEW n \in Nat, NEW n2 \in Nat,
         lost => lost2, n <= n2, C \subseteq C2, Link(T, X, lost, r, n, C)
  PROVE  Link(T, X, lost2, r, n2, C2)
<1>0. Xids(C) \subseteq Xids(C2)
  BY DEF Xids
<1>1. \A m : Knows(T, X, lost, m, C) => Knows(T, X, lost2, m, C2)
  BY <1>0 DEF Knows, Known
<1>2. AllKnown(T, X, lost2, r, C2)
  BY <1>1 DEF Link, AllKnown
<1>3. Made(T, r, n2)
  <2> SUFFICES ASSUME NEW m \in Messages, Answered(T, r, m) PROVE m.no <= n2
    BY DEF Made
  <2>1. m.no <= n
    BY DEF Link, Made
  <2>2. m.no \in Int
    BY MessageSizes, ConstantTypes
  <2> QED BY <2>1, <2>2
<1>4. AskedOrAnswered(T, r, C2)
  BY DEF Link, AskedOrAnswered
<1>5. KeptOnce(T, X, r, C2)
  BY <1>0 DEF Link, KeptOnce
<1> QED BY <1>2, <1>3, <1>4, <1>5 DEF Link

(* A link is about no more than what is asked.                               *)
LEMMA LessAsked ==
  ASSUME NEW C, NEW T, NEW X, NEW lost, NEW r, NEW r2, NEW n,
         \A y \in Range(Asked(r2)) : y \in Range(Asked(r)),
         Told(T, r2) = Told(T, r), r2.recordbuf = r.recordbuf,
         Link(T, X, lost, r, n, C)
  PROVE  Link(T, X, lost, r2, n, C)
<1>1. \A m : Answered(T, r2, m) <=> Answered(T, r, m)
  BY DEF Answered
<1>2. AllKnown(T, X, lost, r2, C)
  BY DEF Link, AllKnown
<1>3. AskedOrAnswered(T, r2, C)
  BY <1>1 DEF Link, AskedOrAnswered
<1>4. Tells(T, r2)
  BY DEF Link, Tells
<1>5. SentSoFar(T, r2)
  BY <1>1 DEF Link, SentSoFar
<1>6. KeptOnce(T, X, r2, C)
  BY <1>1 DEF Link, KeptOnce
<1>7. Made(T, r2, n)
  BY <1>1 DEF Link, Made
<1> QED BY <1>2, <1>3, <1>4, <1>5, <1>6, <1>7 DEF Link

(* What is asked stays within the calls made when there are more of them.    *)
LEMMA AsksMonotone ==
  ASSUME NEW r \in Connections, NEW n \in Nat, NEW n2 \in Nat, n <= n2, Asks(r, n)
  PROVE  Asks(r, n2)
<1> SUFFICES ASSUME NEW y \in Range(Asked(r)) PROVE y.msg.no <= n2
  BY DEF Asks
<1>1. Asked(r) \in Seq(Pieces)
  <2>1. /\ r.packetbuf \in Seq(Pieces) /\ r.readbuf \in Seq(Pieces) /\ r.up \in Seq(Pieces)
    BY ConnectionFields
  <2> QED BY <2>1, Concatenated DEF Asked
<1>2. y \in Pieces
  BY <1>1, InRange
<1>3. y.msg.no \in Int
  BY <1>2, PlaceOfPiece, MessageSizes, ConstantTypes
<1> QED BY <1>3 DEF Asks

(* Nothing is asked or answered on a new connection.                         *)
LEMMA EmptyLink ==
  ASSUME NEW C, NEW T, NEW X, NEW lost, NEW r, NEW n,
         T.got = <<>>, r.up = <<>>, r.down = <<>>, r.readbuf = <<>>, r.packetbuf = <<>>,
         r.recordbuf = <<>>, r.writebuf = <<>>
  PROVE  Link(T, X, lost, r, n, C) /\ Asks(r, n)
<1>1. PICK e \in Seq(Pieces) : e = <<>>
  BY EmptySeq
<1>2. Asked(r) = e /\ Told(T, r) = e
  <2>1. e \o e = e
    BY ConcatEmptySeq, <1>1
  <2> QED BY <2>1, <1>1 DEF Asked, Told
<1>3. \A y : y \notin Range(e)
  BY <1>1, EmptyRange
<1>4. InOrder(e)
  BY <1>1, EmptyRange
<1>5. 1..Len(r.recordbuf) = {}
  <2>1. Len(e) = 0
    BY <1>1, EmptyRange
  <2> QED BY <2>1, <1>1
<1>6. \A m : ~Answered(T, r, m)
  BY <1>2, <1>3, <1>5 DEF Answered
<1>7. AllKnown(T, X, lost, r, C)
  BY <1>2, <1>3, <1>5 DEF AllKnown
<1>8. Tells(T, r)
  BY <1>2, <1>3, <1>4, <1>5 DEF Tells
<1>9. AskedOrAnswered(T, r, C) /\ SentSoFar(T, r) /\ KeptOnce(T, X, r, C) /\ Made(T, r, n)
  BY <1>2, <1>3, <1>6 DEF AskedOrAnswered, SentSoFar, KeptOnce, Made
<1> QED BY <1>2, <1>3, <1>4, <1>7, <1>8, <1>9 DEF Link, Asks

(* A whole record ends with the last piece of its message.                   *)
LEMMA WholeRecord ==
  ASSUME NEW rec \in Seq(Pieces), NEW n \in Nat \ {0}, Whole(rec, n)
  PROVE  /\ Len(rec) = 2 * n /\ Len(rec) \in 1..Len(rec) /\ 1 \in 1..Len(rec)
         /\ rec[1] \in Range(rec) /\ rec[Len(rec)] \in Range(rec) /\ rec[1].msg \in Messages
         /\ rec[Len(rec)].msg = rec[1].msg /\ Place(rec[Len(rec)]) = 2 * n
         /\ rec[Len(rec)].part = n /\ rec[Len(rec)].half = 2
         /\ \A y \in Range(rec) : y.msg = rec[1].msg
<1>1. Len(rec) = 2 * n /\ \A i \in 1..Len(rec) : rec[i].msg = rec[1].msg /\ Place(rec[i]) = i
  BY DEF Whole
<1>2. Len(rec) \in 1..Len(rec) /\ 1 \in 1..Len(rec)
  BY <1>1
<1>3. rec[1] \in Range(rec) /\ rec[Len(rec)] \in Range(rec)
  BY <1>2, InRange
<1>4. rec[1] \in Pieces /\ rec[Len(rec)] \in Pieces
  BY <1>3, InRange
<1>5. rec[Len(rec)].msg = rec[1].msg /\ Place(rec[Len(rec)]) = 2 * n
  BY <1>1, <1>2
<1>6. rec[Len(rec)].part = n /\ rec[Len(rec)].half = 2
  BY <1>4, <1>5, PlaceOfPiece
<1>7. \A y \in Range(rec) : y.msg = rec[1].msg
  BY <1>1, InRange
<1> QED BY <1>1, <1>2, <1>3, <1>4, <1>5, <1>6, <1>7, PlaceOfPiece

\* rec, a whole call m or a record that begins like the call m, which was cut, is taken
\* off the stream of r
Takes(r, r2, rec, m, C) ==
  /\ rec # <<>> /\ m = rec[1].msg /\ Place(rec[1]) = 1 /\ Asked(r) = rec \o Asked(r2)
  /\ Whole(rec, m.frags) \/ m.no \in C

(* The first piece of a sequence that is not empty.                          *)
LEMMA FirstPiece ==
  ASSUME NEW s \in Seq(Pieces), s # <<>>
  PROVE  /\ Len(s) \in Nat /\ Len(s) >= 1 /\ s[1] \in Range(s) /\ s[1] \in Pieces
         /\ s[1].msg \in Messages
<1>1. Len(s) \in Nat /\ Len(s) # 0
  BY EmptySeq, LenProperties
<1>2. 1 \in 1..Len(s)
  BY <1>1
<1> QED BY <1>1, <1>2, InRange, PlaceOfPiece

(* What is asked is a sequence of pieces.                                    *)
LEMMA AskedType ==
  ASSUME NEW r \in Connections
  PROVE  Asked(r) \in Seq(Pieces) /\ Len(Asked(r)) \in Nat
<1>1. /\ r.packetbuf \in Seq(Pieces) /\ r.readbuf \in Seq(Pieces) /\ r.up \in Seq(Pieces)
  BY ConnectionFields
<1> QED BY <1>1, Concatenated, LenProperties DEF Asked

(* What is taken off a stream leaves it in order.                            *)
LEMMA LessAsks ==
  ASSUME NEW r \in Connections, NEW r2 \in Connections, NEW n \in Nat, NEW rec \in Seq(Pieces),
         Asked(r) = rec \o Asked(r2), Asks(r, n)
  PROVE  /\ Asks(r2, n)
         /\ \A y : y \in Range(Asked(r)) <=> y \in Range(rec) \/ y \in Range(Asked(r2))
         /\ \A y \in Range(rec), z \in Range(Asked(r2)) : y.msg = z.msg => Place(y) < Place(z)
<1>1. Asked(r) \in Seq(Pieces) /\ Asked(r2) \in Seq(Pieces)
  BY AskedType
<1>2. \A y : y \in Range(Asked(r)) <=> y \in Range(rec) \/ y \in Range(Asked(r2))
  BY <1>1, RangeOfConcat
<1>3. /\ InOrder(Asked(r2))
      /\ \A y \in Range(rec), z \in Range(Asked(r2)) : y.msg = z.msg => Place(y) < Place(z)
  BY <1>1, InOrderSplit DEF Asks
<1> QED BY <1>2, <1>3 DEF Asks

(* A call taken off its stream: nothing is left of one that was whole, and   *)
(* no beginning of one that was cut.                                         *)
LEMMA TakenOff ==
  ASSUME NEW r \in Connections, NEW r2 \in Connections, NEW n \in Nat, NEW C,
         NEW rec \in Seq(Pieces), NEW m \in Messages,
         Takes(r, r2, rec, m, C), Asks(r, n)
  PROVE  /\ Asks(r2, n) /\ m.no <= n
         /\ \A y \in Range(Asked(r2)) : y \in Range(Asked(r)) /\ (y.msg = m => Place(y) # 1 /\ m.no \in C)
         /\ rec[1] \in Range(Asked(r)) /\ rec[1].msg = m /\ Place(rec[1]) = 1
         /\ m.no \notin C => \E y \in Range(Asked(r)) : y.msg = m /\ y.part = m.frags /\ y.half = 2
<1>0. /\ rec # <<>> /\ m = rec[1].msg /\ Place(rec[1]) = 1 /\ Asked(r) = rec \o Asked(r2)
      /\ Whole(rec, m.frags) \/ m.no \in C
  BY DEF Takes
<1>1. Asked(r) \in Seq(Pieces) /\ Asked(r2) \in Seq(Pieces)
  BY AskedType
<1>2. m.frags \in Nat \ {0}
  BY MessageSizes
<1>3. rec[1] \in Range(rec)
  BY <1>0, FirstPiece
<1>4. /\ Asks(r2, n)
      /\ \A y : y \in Range(Asked(r)) <=> y \in Range(rec) \/ y \in Range(Asked(r2))
      /\ \A y \in Range(rec), z \in Range(Asked(r2)) : y.msg = z.msg => Place(y) < Place(z)
  BY ONLY <1>0, r \in Connections, r2 \in Connections, n \in Nat, rec \in Seq(Pieces), Asks(r, n), LessAsks
<1>5. ASSUME m.no \notin C
      PROVE  /\ rec[Len(rec)] \in Range(rec) /\ rec[Len(rec)].msg = m
             /\ rec[Len(rec)].part = m.frags /\ rec[Len(rec)].half = 2 /\ Place(rec[Len(rec)]) = 2 * m.frags
  BY <1>0, <1>2, <1>5, WholeRecord
<1>6. ASSUME NEW y \in Range(Asked(r2)), y.msg = m PROVE Place(y) # 1 /\ m.no \in C
  <2>1. y \in Pieces /\ y.part <= m.frags
    BY <1>1, <1>4, <1>6, InRange DEF Asks
  <2>2. Place(y) <= 2 * m.frags /\ Place(y) \in Nat
    BY <2>1, <1>2, PlaceBounds, PlaceOfPiece
  <2>3. 1 < Place(y)
    BY <1>0, <1>3, <1>4, <1>6
  <2>4. m.no \in C
    <3> SUFFICES ASSUME m.no \notin C PROVE FALSE
      OBVIOUS
    <3>1. 2 * m.frags < Place(y)
      BY <1>4, <1>5, <1>6
    <3> QED BY <3>1, <2>2, <1>2
  <2> QED BY <2>2, <2>3, <2>4
<1>7. m.no <= n
  BY <1>0, <1>3, <1>4 DEF Asks
<1> QED BY <1>0, <1>3, <1>4, <1>5, <1>6, <1>7

(* The server queues the reply to a call, run or not.                        *)
LEMMA RunLink ==
  ASSUME NEW C, NEW T \in ThreadStates, NEW X, NEW lost, NEW n,
         NEW r \in Connections, NEW r2 \in Connections, NEW m \in Messages, m.no <= n,
         \A y \in Range(Asked(r2)) : y \in Range(Asked(r)) /\ (y.msg = m => Place(y) # 1 /\ m.no \in C),
         NEW first \in Range(Asked(r)), first.msg = m, Place(first) = 1,
         m.no \notin C => \E y \in Range(Asked(r)) : y.msg = m /\ y.part = m.frags /\ y.half = 2,
         r2.recordbuf = Append(r.recordbuf, [msg |-> m, part |-> 1]), Told(T, r2) = Told(T, r),
         IsSending(T) => T.part \in 1..T.msg.frags /\ T.msg.no \notin C,
         \A x \in DOMAIN X : X[x].msg.no \notin C,
         Link(T, X, lost, r, n, C)
  PROVE  Link(T, X, lost, r2, n, C)
<1> DEFINE R == r.recordbuf
           R2 == r2.recordbuf
           q == [msg |-> m, part |-> 1]
<1>1. /\ \A y \in Range(Asked(r2)) : y \in Range(Asked(r)) /\ (y.msg = m => Place(y) # 1 /\ m.no \in C)
      /\ first \in Range(Asked(r)) /\ first.msg = m /\ Place(first) = 1
  OBVIOUS
<1>2. ASSUME m.no \notin C
      PROVE  \E y \in Range(Asked(r)) : y.msg = m /\ y.part = m.frags /\ Ends(y, y.msg.frags)
  BY <1>2 DEF Ends
<1>3. ~Answered(T, r, m) /\ Knows(T, X, lost, m, C)
  <2>1. ~Answered(T, r, m)
    BY <1>1 DEF Link, AskedOrAnswered
  <2>2. CASE m.no \notin C
    BY <2>1, <2>2, <1>2 DEF Link, AllKnown
  <2>3. CASE m.no \in C
    <3>1. m.xid = m.no % XidMod
      <4>1. m = MessageAt(m.no)
        BY MessageSizes
      <4> QED BY <4>1 DEF MessageAt
    <3> QED BY <3>1, <2>1, <2>3 DEF Knows, Xids
  <2> QED BY <2>2, <2>3
<1>4. /\ R \in Seq(Queued) /\ Len(R) \in Nat /\ q \in Queued
      /\ Len(R2) = Len(R) + 1 /\ \A i \in 1..Len(R) : R2[i] = R[i]
      /\ R2[Len(R) + 1] = q
  <2>1. R \in Seq(Queued) /\ Len(R) \in Nat /\ q \in Queued
    <3>1. 1 \in Nat \ {0}
      OBVIOUS
    <3> QED BY <3>1, ConnectionFields DEF Queued
  <2> QED BY <2>1, AppendProperties
<1>5. q.msg = m /\ q.part = 1
  OBVIOUS
<1> HIDE DEF q
<1>6. \A i \in 1..Len(R2) : (i \in 1..Len(R) /\ R2[i] = R[i]) \/ (i = Len(R) + 1 /\ R2[i] = q)
  BY <1>4
<1>7. \A m2 : Answered(T, r2, m2) <=> Answered(T, r, m2) \/ m2 = m
  <2>1. 1..Len(R) \subseteq 1..Len(R2) /\ Len(R) + 1 \in 1..Len(R2)
    BY <1>4
  <2> QED BY <2>1, <1>4, <1>5, <1>6 DEF Answered
<1>8. AllKnown(T, X, lost, r2, C)
  <2>1. \A i \in 1..Len(R2) : Knows(T, X, lost, R2[i].msg, C)
    BY <1>3, <1>5, <1>6 DEF Link, AllKnown
  <2> QED BY <2>1, <1>1 DEF Link, AllKnown
<1>9. AskedOrAnswered(T, r2, C)
  BY <1>1, <1>7 DEF Link, AskedOrAnswered
<1>10. Tells(T, r2)
  <2>1. m.back \in Nat \ {0}
    BY MessageSizes
  <2>2. \A i \in 1..Len(R2) : R2[i].part <= R2[i].msg.back
    BY <1>5, <1>6, <2>1 DEF Link, Tells
  <2>3. \A i \in 1..Len(R) : R[i].msg # m
    BY <1>3 DEF Answered
  <2>4. \A i, j \in 1..Len(R2) : i # j => R2[i].msg # R2[j].msg
    BY <1>5, <1>6, <2>3 DEF Link, Tells
  <2>5. \A y \in Range(Told(T, r)) : y.msg # m
    BY <1>3 DEF Answered
  <2>6. \A y \in Range(Told(T, r2)) : \A i \in 1..Len(R2) :
          y.msg = R2[i].msg => y.part < R2[i].part
    BY <1>5, <1>6, <2>5 DEF Link, Tells
  <2> QED BY <2>2, <2>4, <2>6 DEF Link, Tells
<1>11. SentSoFar(T, r2)
  <2> SUFFICES ASSUME IsSending(T)
               PROVE  /\ \A y \in Range(Asked(r2)) : y.msg = T.msg => y.part < T.part
                      /\ ~Answered(T, r2, T.msg)
    BY DEF SentSoFar
  <2>1. /\ \A y \in Range(Asked(r)) : y.msg = T.msg => y.part < T.part
        /\ ~Answered(T, r, T.msg)
    BY DEF Link, SentSoFar
  <2>2. T.msg # m
    <3> SUFFICES ASSUME T.msg = m PROVE FALSE
      OBVIOUS
    <3>1. PICK y \in Range(Asked(r)) : y.msg = m /\ y.part = m.frags
      BY <1>2
    <3>2. m.frags < T.part /\ T.part \in 1..m.frags /\ m.frags \in Nat
      BY <2>1, <3>1, MessageSizes
    <3> QED BY <3>2
  <2> QED BY <2>1, <2>2, <1>1, <1>7
<1>12. KeptOnce(T, X, r2, C)
  <2> SUFFICES ASSUME NEW x \in DOMAIN X, X[x].rdata # None, x \notin Xids(C)
               PROVE  /\ \A y \in Range(Asked(r2)) : y.msg = X[x].msg => ~Ends(y, y.msg.frags)
                      /\ ~Answered(T, r2, X[x].msg)
    BY DEF KeptOnce
  <2>1. /\ \A y \in Range(Asked(r)) : y.msg = X[x].msg => ~Ends(y, y.msg.frags)
        /\ ~Answered(T, r, X[x].msg)
    BY DEF Link, KeptOnce
  <2>2. X[x].msg # m
    BY <2>1, <1>2
  <2> QED BY <2>1, <2>2, <1>1, <1>7
<1>13. Made(T, r2, n)
  BY <1>1, <1>7 DEF Link, Made
<1> QED BY <1>8, <1>9, <1>10, <1>11, <1>12, <1>13 DEF Link

(* The server writes the next fragment of the reply at the head of its queue.*)
LEMMA ChunkQueue ==
  ASSUME NEW R \in Seq(Queued), R # <<>>
  PROVE  LET h == R[1]
             R2 == AfterChunk(R)
         IN  /\ R2 \in Seq(Queued) /\ Len(R) \in Nat \ {0} /\ Len(R2) \in Nat /\ Head(R) = h
             /\ h \in Queued /\ h.msg \in Messages /\ h.part \in Nat \ {0}
             /\ h.part = h.msg.back =>
                  Len(R2) = Len(R) - 1 /\ \A i \in 1..Len(R2) : R2[i] = R[i + 1]
             /\ h.part # h.msg.back =>
                  /\ Len(R2) = Len(R) /\ R2[1].msg = h.msg /\ R2[1].part = h.part + 1
                  /\ \A i \in 1..Len(R2) : i # 1 => R2[i] = R[i]
<1> DEFINE h == R[1]
           R2 == AfterChunk(R)
<1>1. Len(R) \in Nat \ {0}
  BY EmptySeq
<1>2. Head(R) = h /\ h \in Queued
  BY <1>1, ElementOfSeq
<1>3. /\ Tail(R) \in Seq(Queued) /\ Len(Tail(R)) = Len(R) - 1
      /\ \A i \in 1..Len(Tail(R)) : Tail(R)[i] = R[i + 1]
  BY HeadTailProperties
<1>4. h.msg \in Messages /\ h.part \in Nat \ {0}
  BY <1>2 DEF Queued
<1>5. R2 = IF h.part = h.msg.back THEN Tail(R) ELSE <<[h EXCEPT !.part = @ + 1]>> \o Tail(R)
  BY <1>2 DEF AfterChunk
<1> HIDE DEF h, R2
<1>6. CASE h.part = h.msg.back
  <2>1. R2 = Tail(R)
    BY <1>5, <1>6
  <2> QED BY <2>1, <1>1, <1>2, <1>3, <1>4, <1>6 DEF h, R2
<1>7. CASE h.part # h.msg.back
  <2>1. PICK h2 \in Queued : h2 = [h EXCEPT !.part = @ + 1] /\ h2.msg = h.msg /\ h2.part = h.part + 1
    <3>1. [h EXCEPT !.part = @ + 1] \in Queued
      BY <1>2, <1>4 DEF Queued
    <3>2. [h EXCEPT !.part = @ + 1].msg = h.msg /\ [h EXCEPT !.part = @ + 1].part = h.part + 1
      BY <1>2 DEF Queued
    <3> QED BY <3>1, <3>2
  <2>2. R2 = <<h2>> \o Tail(R)
    BY <1>5, <1>7, <2>1
  <2>3. <<h2>> \in Seq(Queued) /\ Len(<<h2>>) = 1 /\ <<h2>>[1] = h2
    OBVIOUS
  <2>4. PICK one \in Seq(Queued) : one = <<h2>> /\ Len(one) = 1 /\ one[1] = h2
    BY <2>3
  <2>5. PICK rest \in Seq(Queued) : rest = Tail(R)
    BY <1>3
  <2>6. one \o rest \in Seq(Queued) /\ Len(one \o rest) = Len(one) + Len(rest)
        /\ \A i \in 1..(Len(one) + Len(rest)) :
              (one \o rest)[i] = IF i <= Len(one) THEN one[i] ELSE rest[i - Len(one)]
    BY ONLY one \in Seq(Queued), rest \in Seq(Queued), ConcatProperties, Zenon
  <2>7. R2 = one \o rest /\ Len(rest) = Len(R) - 1 /\ \A i \in 1..Len(rest) : rest[i] = R[i + 1]
    BY <2>2, <2>4, <2>5, <1>3
  <2>8. /\ R2 \in Seq(Queued) /\ Len(R2) = Len(R)
        /\ \A i \in 1..Len(R) : R2[i] = IF i <= 1 THEN one[i] ELSE rest[i - 1]
    BY ONLY <2>4, <2>6, <2>7, <1>1
  <2>9. R2[1] = h2
    BY ONLY <2>4, <2>8, <1>1
  <2>10. ASSUME NEW i \in 1..Len(R2), i # 1 PROVE R2[i] = R[i]
    <3>1. R2[i] = rest[i - 1] /\ i - 1 \in 1..Len(rest) /\ (i - 1) + 1 = i
      BY ONLY <2>7, <2>8, <2>10, <1>1
    <3> QED BY ONLY <3>1, <2>7
  <2> QED BY <2>1, <2>8, <2>9, <2>10, <1>1, <1>2, <1>4, <1>7 DEF h, R2
<1> QED BY <1>6, <1>7

(* What the link says of the reply is kept.                                  *)
LEMMA ChunkLink ==
  ASSUME NEW C, NEW T \in ThreadStates, NEW X, NEW lost, NEW n,
         NEW r \in Connections, NEW r2 \in Connections, r.recordbuf # <<>>,
         NEW h, h = r.recordbuf[1], r2.recordbuf = AfterChunk(r.recordbuf),
         Asked(r2) = Asked(r), Told(T, r2) = Told(T, r) \o Fragment(h.msg, h.part),
         Link(T, X, lost, r, n, C)
  PROVE  Link(T, X, lost, r2, n, C)
<1> DEFINE R == r.recordbuf
           R2 == r2.recordbuf
           f == Fragment(h.msg, h.part)
<1>1. R \in Seq(Queued) /\ Told(T, r) \in Seq(Pieces) /\ Told(T, r2) \in Seq(Pieces)
  BY ConnectionFields, Streams
<1>2. /\ R2 \in Seq(Queued) /\ 1 \in 1..Len(R) /\ R[1] = h
      /\ h.msg \in Messages /\ h.part \in Nat \ {0}
  BY <1>1, ChunkQueue
<1>2a. h.part = h.msg.back => Len(R2) = Len(R) - 1 /\ \A i \in 1..Len(R2) : R2[i] = R[i + 1]
  BY <1>1, ChunkQueue
<1>2b. h.part # h.msg.back =>
         /\ Len(R2) = Len(R) /\ R2[1].msg = h.msg /\ R2[1].part = h.part + 1
         /\ \A i \in 1..Len(R2) : i # 1 => R2[i] = R[i]
  BY <1>1, ChunkQueue
<1>2c. h.msg.back \in Nat \ {0}
  BY <1>2, MessageSizes
<1>3. Len(R) \in Nat /\ Len(R2) \in Nat
  BY <1>1, <1>2, LenProperties
<1>4. f \in Seq(Pieces) /\ Range(f) = {f[1], f[2]} /\ \A y \in Range(f) : y.msg = h.msg /\ y.part = h.part
  BY <1>2, FragmentPieces
<1> HIDE DEF f, R, R2
<1>5. \A y : y \in Range(Told(T, r2)) <=> y \in Range(Told(T, r)) \/ y \in Range(f)
  <2>1. PICK a \in Seq(Pieces), b \in Seq(Pieces) : a = Told(T, r) /\ b = f
    BY <1>1, <1>4
  <2>2. \A y : y \in Range(a \o b) <=> y \in Range(a) \/ y \in Range(b)
    BY RangeOfConcat
  <2>3. Told(T, r2) = a \o b
    BY <2>1 DEF f
  <2> QED BY ONLY <2>1, <2>2, <2>3
<1>6. /\ \A i \in 1..Len(R) : R[i].part <= R[i].msg.back
      /\ \A i, j \in 1..Len(R) : i # j => R[i].msg # R[j].msg
      /\ \A y \in Range(Told(T, r)) : \A i \in 1..Len(R) : y.msg = R[i].msg => y.part < R[i].part
      /\ InOrder(Told(T, r)) /\ \A y \in Range(Told(T, r)) : y.part <= y.msg.back
  BY DEF Link, Tells, R
\* what is queued after was queued before, or has the next part
<1>7. ASSUME NEW i \in 1..Len(R2)
      PROVE  \/ i = 1 /\ h.part # h.msg.back /\ R2[i].msg = h.msg /\ R2[i].part = h.part + 1
             \/ h.part # h.msg.back /\ i \in 2..Len(R) /\ R2[i] = R[i]
             \/ h.part = h.msg.back /\ i + 1 \in 2..Len(R) /\ R2[i] = R[i + 1]
  <2>1. CASE h.part = h.msg.back
    BY <2>1, <1>2a, <1>3
  <2>2. CASE h.part # h.msg.back
    BY <2>2, <1>2b, <1>3
  <2> QED BY <2>1, <2>2
<1>7a. \A j \in 2..Len(R) : j \in 1..Len(R) /\ R[j].msg # h.msg
  BY <1>2, <1>3, <1>6
<1>7b. ASSUME NEW i \in 1..Len(R2)
       PROVE  \/ i = 1 /\ h.part # h.msg.back /\ R2[i].msg = h.msg /\ R2[i].part = h.part + 1
              \/ \E j \in 1..Len(R) : R2[i] = R[j] /\ R[j].msg # h.msg
  BY <1>7, <1>7a
<1>8. \A m : Answered(T, r2, m) <=> Answered(T, r, m)
  <2>0. /\ \A m : Answered(T, r, m) <=> \/ \E y \in Range(Told(T, r)) : y.msg = m
                                        \/ \E i \in 1..Len(R) : R[i].msg = m
        /\ \A m : Answered(T, r2, m) <=> \/ \E y \in Range(Told(T, r2)) : y.msg = m
                                         \/ \E i \in 1..Len(R2) : R2[i].msg = m
    BY DEF Answered, R, R2
  <2> TAKE m
  <2>1. ASSUME NEW y \in Range(Told(T, r2)), y.msg = m PROVE Answered(T, r, m)
    <3>1. CASE y \in Range(Told(T, r))
      BY <3>1, <2>0, <2>1
    <3>2. CASE y \in Range(f)
      BY <3>2, <2>0, <2>1, <1>2, <1>4
    <3> QED BY <3>1, <3>2, <1>5
  <2>2. ASSUME NEW i \in 1..Len(R2), R2[i].msg = m PROVE Answered(T, r, m)
    BY <2>0, <2>2, <1>2, <1>7b
  <2>3. ASSUME NEW y \in Range(Told(T, r)), y.msg = m PROVE Answered(T, r2, m)
    BY <2>0, <2>3, <1>5
  <2>4. ASSUME NEW i \in 1..Len(R), R[i].msg = m PROVE Answered(T, r2, m)
    <3>1. CASE i = 1
      <4>1. f[1] \in Range(f) /\ f[1].msg = m
        BY <2>4, <3>1, <1>2, <1>4
      <4>2. f[1] \in Range(Told(T, r2))
        BY <4>1, <1>5
      <4> QED BY <2>0, <4>1, <4>2
    <3>2. CASE i # 1 /\ h.part = h.msg.back
      <4>1. i - 1 \in 1..Len(R2) /\ (i - 1) + 1 = i
        BY <3>2, <1>2a, <1>3
      <4>2. R2[i - 1] = R[i]
        BY <4>1, <3>2, <1>2a
      <4> QED BY <2>0, <2>4, <4>1, <4>2
    <3>3. CASE i # 1 /\ h.part # h.msg.back
      <4>1. i \in 1..Len(R2) /\ R2[i] = R[i]
        BY <3>3, <1>2b
      <4> QED BY <2>0, <2>4, <4>1
    <3> QED BY <3>1, <3>2, <3>3
  <2> QED BY <2>0, <2>1, <2>2, <2>3, <2>4
<1>9. AllKnown(T, X, lost, r2, C)
  <2>0. \A i \in 1..Len(R) : Knows(T, X, lost, R[i].msg, C)
    BY DEF Link, AllKnown, R
  <2>1. Knows(T, X, lost, h.msg, C)
    BY <2>0, <1>2
  <2>2. \A y \in Range(Told(T, r2)) : Knows(T, X, lost, y.msg, C)
    BY <2>1, <1>4, <1>5 DEF Link, AllKnown
  <2>3. \A i \in 1..Len(R2) : Knows(T, X, lost, R2[i].msg, C)
    BY <2>0, <2>1, <1>7b
  <2> QED BY <2>2, <2>3 DEF Link, AllKnown, R2
<1>10. Tells(T, r2)
  <2>1. \A y \in Range(Told(T, r)) : y.msg = h.msg => y.part < h.part
    BY <1>2, <1>6
  <2>2. InOrder(Told(T, r2))
    BY <1>1, <1>2, <1>6, <2>1, InOrderFragment DEF f
  <2>3. h.part <= h.msg.back
    BY <1>2, <1>6
  <2>4. \A y \in Range(Told(T, r2)) : y.part <= y.msg.back
    BY <1>4, <1>5, <1>6, <2>3
  <2>5. \A i \in 1..Len(R2) : R2[i].part <= R2[i].msg.back
    <3> SUFFICES ASSUME NEW i \in 1..Len(R2) PROVE R2[i].part <= R2[i].msg.back
      OBVIOUS
    <3>1. CASE R2[i].msg = h.msg /\ h.part # h.msg.back /\ R2[i].part = h.part + 1
      BY <3>1, <2>3, <1>2, <1>2c
    <3>2. CASE \E j \in 1..Len(R) : R2[i] = R[j]
      BY <3>2, <1>6
    <3> QED BY <3>1, <3>2, <1>7b
  <2>7. \A i, j \in 1..Len(R2) : i # j => R2[i].msg # R2[j].msg
    <3> SUFFICES ASSUME NEW i \in 1..Len(R2), NEW j \in 1..Len(R2), i # j PROVE R2[i].msg # R2[j].msg
      OBVIOUS
    <3>1. CASE h.part = h.msg.back
      <4>1. R2[i] = R[i + 1] /\ R2[j] = R[j + 1] /\ Len(R2) = Len(R) - 1
        BY <3>1, <1>2a
      <4>2. i + 1 \in 1..Len(R) /\ j + 1 \in 1..Len(R) /\ i + 1 # j + 1
        BY <4>1, <1>3
      <4>3. R[i + 1].msg # R[j + 1].msg
        BY <4>2, <1>6
      <4> QED BY <4>1, <4>3
    <3>2. CASE h.part # h.msg.back
      <4>1. R2[i].msg = R[i].msg /\ R2[j].msg = R[j].msg /\ i \in 1..Len(R) /\ j \in 1..Len(R)
        BY <3>2, <1>2, <1>2b
      <4> QED BY <4>1, <1>6
    <3> QED BY <3>1, <3>2
  <2>8. \A y \in Range(Told(T, r2)) : \A i \in 1..Len(R2) : y.msg = R2[i].msg => y.part < R2[i].part
    <3> SUFFICES ASSUME NEW y \in Range(Told(T, r2)), NEW i \in 1..Len(R2), y.msg = R2[i].msg
                 PROVE  y.part < R2[i].part
      OBVIOUS
    <3>0. y \in Pieces /\ y.part \in Nat
      BY <1>1, InRange, PlaceOfPiece
    <3>1. CASE R2[i].msg = h.msg /\ R2[i].part = h.part + 1
      <4>1. y.part <= h.part
        <5>1. y \in Range(f) => y.part = h.part
          BY <1>4
        <5>2. y \in Range(Told(T, r)) => y.part < h.part
          BY <2>1, <3>1
        <5> QED BY <5>1, <5>2, <1>5, <1>2, <3>0
      <4> QED BY <4>1, <3>0, <3>1, <1>2
    <3>2. CASE \E j \in 1..Len(R) : R2[i] = R[j] /\ R[j].msg # h.msg
      <4>1. PICK j \in 1..Len(R) : R2[i] = R[j] /\ R[j].msg # h.msg
        BY <3>2
      <4>3. y \in Range(Told(T, r))
        BY <4>1, <1>4, <1>5
      <4> QED BY <4>1, <4>3, <1>6
    <3> QED BY <3>1, <3>2, <1>7b
  <2> QED BY <2>2, <2>4, <2>5, <2>7, <2>8 DEF Tells, R2
<1>11. AskedOrAnswered(T, r2, C) /\ SentSoFar(T, r2) /\ KeptOnce(T, X, r2, C) /\ Made(T, r2, n)
  BY <1>8 DEF Link, AskedOrAnswered, SentSoFar, KeptOnce, Made
<1> QED BY <1>9, <1>10, <1>11 DEF Link

(* A call is begun.                                                          *)
LEMMA SendLink ==
  ASSUME NEW C, NEW T \in ThreadStates, NEW T2 \in ThreadStates, NEW X, NEW n \in Nat, List(X),
         NEW r \in Connections, T.pc = "idle", T.got = <<>>, T2.got = <<>>,
         T2.pc = "send", T2.msg \in Messages, T2.msg.no = n + 1, T2.part = 1,
         \A x \in DOMAIN X : X[x].msg.no <= n,
         Asks(r, n), Link(T, X, FALSE, r, n, C)
  PROVE  Link(T2, X, FALSE, r, n + 1, C)
<1>1. Told(T2, r) = Told(T, r)
  BY DEF Told
<1>2. \A m : Answered(T2, r, m) <=> Answered(T, r, m)
  BY <1>1 DEF Answered
<1>3. \A m : Knows(T, X, FALSE, m, C) => Knows(T2, X, FALSE, m, C)
  BY DEF Knows, Known
<1>4. AllKnown(T2, X, FALSE, r, C)
  BY <1>1, <1>3 DEF Link, AllKnown
<1>5. AskedOrAnswered(T2, r, C) /\ Tells(T2, r) /\ KeptOnce(T2, X, r, C)
  BY <1>1, <1>2 DEF Link, AskedOrAnswered, Tells, KeptOnce
<1>6. SentSoFar(T2, r)
  <2>1. \A y \in Range(Asked(r)) : y.msg # T2.msg
    BY DEF Asks
  <2>2. ~Answered(T, r, T2.msg)
    BY DEF Link, Made
  <2> QED BY <2>1, <2>2, <1>2 DEF SentSoFar
<1>7. Made(T2, r, n + 1)
  <2> SUFFICES ASSUME NEW m \in Messages, Answered(T2, r, m) PROVE m.no <= n + 1
    BY DEF Made
  <2>1. m.no <= n /\ m.no \in Int
    BY <1>2, MessageSizes, ConstantTypes DEF Link, Made
  <2> QED BY <2>1
<1> QED BY <1>4, <1>5, <1>6, <1>7 DEF Link

(* A fragment is sent.                                                       *)
LEMMA FragmentAsked ==
  ASSUME NEW r \in Connections, NEW r2 \in Connections, NEW m \in Messages, NEW p \in Nat \ {0},
         NEW n, Asked(r2) = Asked(r) \o Fragment(m, p)
  PROVE  /\ \A y : y \in Range(Asked(r2)) <=>
                     y \in Range(Asked(r)) \/ y \in Range(Fragment(m, p))
         /\ \A y \in Range(Fragment(m, p)) : y.msg = m /\ y.part = p
         /\ Fragment(m, p)[2] \in Range(Asked(r2)) /\ Fragment(m, p)[2].msg = m
         /\ Fragment(m, p)[2].part = p /\ Fragment(m, p)[2].half = 2
         /\ (Asks(r, n) /\ m.no <= n /\ p <= m.frags
              /\ \A y \in Range(Asked(r)) : y.msg = m => y.part < p) => Asks(r2, n)
<1>1. Asked(r) \in Seq(Pieces)
  <2>1. /\ r.packetbuf \in Seq(Pieces) /\ r.readbuf \in Seq(Pieces) /\ r.up \in Seq(Pieces)
    BY ConnectionFields
  <2> QED BY <2>1, Concatenated DEF Asked
<1> DEFINE f == Fragment(m, p)
<1>2. /\ f \in Seq(Pieces) /\ Range(f) = {f[1], f[2]} /\ f[2].msg = m /\ f[2].part = p /\ f[2].half = 2
      /\ \A y \in Range(f) : y.msg = m /\ y.part = p
  BY FragmentPieces
<1> HIDE DEF f
<1>3. \A y : y \in Range(Asked(r2)) <=> y \in Range(Asked(r)) \/ y \in Range(f)
  BY <1>1, <1>2, RangeOfConcat DEF f
<1>4. ASSUME Asks(r, n), m.no <= n, p <= m.frags, \A y \in Range(Asked(r)) : y.msg = m => y.part < p
      PROVE  Asks(r2, n)
  <2>1. InOrder(Asked(r2))
    BY <1>1, <1>4, InOrderFragment DEF Asks
  <2>2. \A y \in Range(Asked(r2)) : y.part <= y.msg.frags /\ y.msg.no <= n
    BY <1>2, <1>3, <1>4 DEF Asks
  <2> QED BY <2>1, <2>2 DEF Asks
<1> QED BY <1>2, <1>3, <1>4 DEF f

(* A fragment asks what its message may ask next.                            *)
LEMMA FragmentAsks ==
  ASSUME NEW r \in Connections, NEW r2 \in Connections, NEW m \in Messages, NEW p \in Nat \ {0},
         NEW n, Asked(r2) = Asked(r) \o Fragment(m, p), Asks(r, n), m.no <= n, p <= m.frags,
         \A y \in Range(Asked(r)) : y.msg = m => y.part < p
  PROVE  Asks(r2, n)
BY FragmentAsked

\* a thread puts the fragment p of m on the wire, and goes on
FragmentSent(T, T2, X, X2, r, r2, m, p, n) ==
  /\ IsSending(T) /\ T.msg = m /\ T.part = p /\ p <= m.frags /\ m.no <= n
  /\ Asked(r2) = Asked(r) \o Fragment(m, p) /\ r2.recordbuf = r.recordbuf
  /\ Told(T2, r2) = Told(T, r) /\ T2.msg = m
  /\ \/ T2.pc = T.pc /\ T2.part = p + 1 /\ p # m.frags
     \/ T2.pc = "add" /\ p = m.frags
     \/ T2.pc = "relisten" /\ p = m.frags /\ m.xid \in DOMAIN X /\ X[m.xid].msg = m
  /\ DOMAIN X2 = DOMAIN X
  /\ \A x \in DOMAIN X : X2[x].msg = X[x].msg /\ X2[x].rdata = X[x].rdata
  /\ \A x \in DOMAIN X : X[x].rdata # None => X[x].msg # m

(* And the link stays.                                                       *)
LEMMA FragmentLink ==
  ASSUME NEW C, NEW T \in ThreadStates, NEW T2 \in ThreadStates, NEW X, NEW X2, NEW lost, NEW n,
         NEW r \in Connections, NEW r2 \in Connections, NEW m \in Messages, NEW p \in Nat \ {0},
         FragmentSent(T, T2, X, X2, r, r2, m, p, n), Link(T, X, lost, r, n, C)
  PROVE  Link(T2, X2, lost, r2, n, C)
<1> DEFINE f == Fragment(m, p)
<1>0. /\ IsSending(T) /\ T.msg = m /\ T.part = p /\ p <= m.frags /\ m.no <= n
      /\ Asked(r2) = Asked(r) \o Fragment(m, p) /\ r2.recordbuf = r.recordbuf
      /\ Told(T2, r2) = Told(T, r) /\ T2.msg = m
      /\ \/ T2.pc = T.pc /\ T2.part = p + 1 /\ p # m.frags
         \/ T2.pc = "add" /\ p = m.frags
         \/ T2.pc = "relisten" /\ p = m.frags /\ m.xid \in DOMAIN X /\ X[m.xid].msg = m
      /\ DOMAIN X2 = DOMAIN X
      /\ \A x \in DOMAIN X : X2[x].msg = X[x].msg /\ X2[x].rdata = X[x].rdata
      /\ \A x \in DOMAIN X : X[x].rdata # None => X[x].msg # m
  BY DEF FragmentSent
<1> USE <1>0
<1>1. /\ \A y : y \in Range(Asked(r2)) <=> y \in Range(Asked(r)) \/ y \in Range(f)
      /\ \A y \in Range(f) : y.msg = m /\ y.part = p
  <2>1. Asked(r) \in Seq(Pieces)
    BY Streams
  <2>2. f \in Seq(Pieces) /\ \A y \in Range(f) : y.msg = m /\ y.part = p
    BY FragmentPieces
  <2>3. Asked(r2) = Asked(r) \o f
    OBVIOUS
  <2> HIDE DEF f
  <2> QED BY <2>1, <2>2, <2>3, RangeOfConcat
<1> HIDE DEF f
<1>2. \A m2 : Answered(T2, r2, m2) <=> Answered(T, r, m2)
  BY DEF Answered
<1>3. ~Answered(T, r, m) /\ \A y \in Range(Asked(r)) : y.msg = m => y.part < p
  BY DEF Link, SentSoFar
<1>4. \A m2 : Knows(T, X, lost, m2, C) => Knows(T2, X2, lost, m2, C)
  BY DEF Knows, Known, IsSending
<1>5. p = m.frags => Knows(T2, X2, lost, m, C)
  BY DEF Knows, Known
<1>6. AllKnown(T2, X2, lost, r2, C)
  <2>1. \A y \in Range(Asked(r2)) : Ends(y, y.msg.frags) => Knows(T2, X2, lost, y.msg, C)
    BY <1>1, <1>4, <1>5 DEF Link, AllKnown, Ends
  <2>2. /\ \A y \in Range(Told(T2, r2)) : Knows(T2, X2, lost, y.msg, C)
        /\ \A i \in 1..Len(r2.recordbuf) : Knows(T2, X2, lost, r2.recordbuf[i].msg, C)
    BY <1>4 DEF Link, AllKnown
  <2> QED BY <2>1, <2>2 DEF AllKnown
<1>7. AskedOrAnswered(T2, r2, C)
  BY <1>1, <1>2, <1>3 DEF Link, AskedOrAnswered
<1>8. Tells(T2, r2)
  BY DEF Link, Tells
<1>9. SentSoFar(T2, r2)
  <2>1. CASE T2.pc \in {"add", "relisten"}
    BY <2>1 DEF SentSoFar, IsSending
  <2>2. CASE T2.part = p + 1
    <3>1. \A y \in Range(Asked(r2)) : y.msg = m => y.part < p + 1
      <4> SUFFICES ASSUME NEW y \in Range(Asked(r2)), y.msg = m PROVE y.part < p + 1
        OBVIOUS
      <4>1. CASE y \in Range(Asked(r))
        <5>1. y.part < p
          BY <1>3, <4>1
        <5>2. y.part \in Int
          <6>1. Asked(r) \in Seq(Pieces)
            BY Streams
          <6>2. y \in Pieces
            BY <4>1, <6>1, InRange
          <6> QED BY <6>2, PlaceOfPiece
        <5> QED BY <5>1, <5>2
      <4>2. CASE y \in Range(f)
        BY <4>2, <1>1
      <4> QED BY <4>1, <4>2, <1>1
    <3> QED BY <2>2, <3>1, <1>2, <1>3 DEF SentSoFar
  <2> QED BY <2>1, <2>2
<1>10. KeptOnce(T2, X2, r2, C)
  BY <1>1, <1>2 DEF Link, KeptOnce
<1>11. Made(T2, r2, n)
  BY <1>2 DEF Link, Made
<1> QED BY <1>6, <1>7, <1>8, <1>9, <1>10, <1>11 DEF Link

(* What a thread has read, or what it has not, is forgotten.                 *)
LEMMA Forgotten ==
  ASSUME NEW T, NEW T2, NEW r, NEW r2, NEW d \in Seq(Pieces),
         Told(T2, r2) \in Seq(Pieces), Told(T, r) = d \o Told(T2, r2),
         r2.recordbuf = r.recordbuf, Tells(T, r)
  PROVE  /\ Tells(T2, r2)
         /\ \A y \in Range(Told(T2, r2)) : y \in Range(Told(T, r))
         /\ \A m : Answered(T2, r2, m) => Answered(T, r, m)
         /\ \A y \in Range(d), z \in Range(Told(T2, r2)) : y.msg = z.msg => Place(y) < Place(z)
         /\ \A y \in Range(d) : y \in Range(Told(T, r))
<1>1. \A y : y \in Range(Told(T, r)) <=> y \in Range(d) \/ y \in Range(Told(T2, r2))
  BY RangeOfConcat
<1>2. /\ InOrder(Told(T2, r2))
      /\ \A y \in Range(d), z \in Range(Told(T2, r2)) : y.msg = z.msg => Place(y) < Place(z)
  BY InOrderSplit DEF Tells
<1>3. Tells(T2, r2)
  BY <1>1, <1>2 DEF Tells
<1>4. \A m : Answered(T2, r2, m) => Answered(T, r, m)
  BY <1>1 DEF Answered
<1> QED BY <1>1, <1>2, <1>3, <1>4

(* A thread leaves what it is doing.                                         *)
LEMMA LeaveLink ==
  ASSUME NEW C, NEW T, NEW T2, NEW X, NEW lost, NEW lost2, NEW r, NEW r2, NEW n, NEW d \in Seq(Pieces),
         Told(T2, r2) \in Seq(Pieces), Told(T, r) = d \o Told(T2, r2),
         r2.recordbuf = r.recordbuf, Asked(r2) = Asked(r),
         T2.pc \in {"idle", "listen"}, lost => lost2,
         (T.pc # "add" /\ (T.pc = "idle" => ~lost \/ T2.pc = "idle")) \/ (T2.pc = "idle" /\ lost2),
         Link(T, X, lost, r, n, C)
  PROVE  Link(T2, X, lost2, r2, n, C)
<1>1. /\ Tells(T2, r2)
      /\ \A y \in Range(Told(T2, r2)) : y \in Range(Told(T, r))
      /\ \A m : Answered(T2, r2, m) => Answered(T, r, m)
  BY Forgotten DEF Link
<1>2. \A m : Knows(T, X, lost, m, C) => Knows(T2, X, lost2, m, C)
  BY DEF Knows, Known
<1>3. AllKnown(T2, X, lost2, r2, C)
  BY <1>1, <1>2 DEF Link, AllKnown
<1>4. AskedOrAnswered(T2, r2, C) /\ KeptOnce(T2, X, r2, C) /\ Made(T2, r2, n)
  BY <1>1 DEF Link, AskedOrAnswered, KeptOnce, Made
<1>5. SentSoFar(T2, r2)
  BY DEF SentSoFar, IsSending
<1> QED BY <1>1, <1>3, <1>4, <1>5 DEF Link

(* A call sent is put on the list.                                           *)
LEMMA AddLink ==
  ASSUME NEW C, NEW T, NEW T2, NEW X, NEW lost, NEW r, NEW n, NEW k,
         T.pc = "add", T.msg.xid \notin DOMAIN X, T2.pc = "idle", Told(T2, r) = Told(T, r),
         Link(T, X, lost, r, n, C)
  PROVE  Link(T2, With(X, T.msg.xid, [msg |-> T.msg, rdata |-> None, on |-> k]), lost, r, n, C)
<1> DEFINE m == T.msg
           e == [msg |-> T.msg, rdata |-> None, on |-> k]
           X2 == With(X, m.xid, e)
<1>1. /\ DOMAIN X2 = DOMAIN X \union {m.xid} /\ X2[m.xid] = e
      /\ \A x \in DOMAIN X : X2[x] = X[x]
  BY DEF With
<1>2. e.msg = m /\ e.rdata = None
  OBVIOUS
<1> HIDE DEF e, X2
<1>3. \A q : Knows(T, X, lost, q, C) => Knows(T2, X2, lost, q, C)
  BY <1>1, <1>2 DEF Knows, Known
<1>4. \A q : Answered(T2, r, q) <=> Answered(T, r, q)
  BY DEF Answered
<1>5. AllKnown(T2, X2, lost, r, C)
  BY <1>3 DEF Link, AllKnown
<1>6. AskedOrAnswered(T2, r, C) /\ Tells(T2, r) /\ Made(T2, r, n)
  BY <1>4 DEF Link, AskedOrAnswered, Tells, Made
<1>7. KeptOnce(T2, X2, r, C)
  BY <1>1, <1>2, <1>4 DEF Link, KeptOnce
<1>8. SentSoFar(T2, r)
  BY DEF SentSoFar, IsSending
<1>9. Link(T2, X2, lost, r, n, C)
  BY <1>5, <1>6, <1>7, <1>8 DEF Link
<1> QED BY <1>9 DEF X2, e

\* a list that is another but for one call, gone or with its answer
OnlyAt(x, X, X2) ==
  /\ \A z \in DOMAIN X : z # x => z \in DOMAIN X2 /\ X2[z] = X[z]
  /\ \A z \in DOMAIN X2 : z # x => z \in DOMAIN X
  /\ x \in DOMAIN X2 => X2[x].msg = X[x].msg

(* A call is answered: it leaves the list, or its answer is kept there.  Of a*)
(* call whose xid is that of one that was cut, more may be under way.        *)
LEMMA AnswerLink ==
  ASSUME NEW C, NEW T, NEW T2, NEW X, NEW X2, NEW lost, NEW r, NEW r2, NEW n, NEW d \in Seq(Pieces),
         Told(T2, r2) \in Seq(Pieces), Told(T, r) = d \o Told(T2, r2),
         r2.recordbuf = r.recordbuf, Asked(r2) = Asked(r),
         T2.pc \in {"idle", "listen"}, T.pc # "add", T.pc = "idle" => ~lost,
         NEW x \in DOMAIN X, \A z \in DOMAIN X : X[z].msg.xid = z,
         OnlyAt(x, X, X2),
         x \notin Xids(C) =>
           /\ \A y \in Range(Asked(r)) : y.msg = X[x].msg => ~Ends(y, y.msg.frags)
           /\ ~Answered(T2, r2, X[x].msg),
         Link(T, X, lost, r, n, C)
  PROVE  Link(T2, X2, lost, r2, n, C)
<1>1. /\ Tells(T2, r2)
      /\ \A y \in Range(Told(T2, r2)) : y \in Range(Told(T, r))
      /\ \A m : Answered(T2, r2, m) => Answered(T, r, m)
  BY Forgotten DEF Link
<1>2. \A m : Known(T, X, lost, m) /\ m # X[x].msg => Known(T2, X2, lost, m)
  BY DEF Known, OnlyAt
<1>3. ASSUME NEW m, Knows(T, X, lost, m, C), ~Knows(T2, X2, lost, m, C)
      PROVE  m = X[x].msg /\ x \notin Xids(C)
  BY <1>2, <1>3 DEF Knows
<1>4. AllKnown(T2, X2, lost, r2, C)
  <2>1. \A y \in Range(Asked(r2)) : Ends(y, y.msg.frags) => Knows(T2, X2, lost, y.msg, C)
    BY <1>3 DEF Link, AllKnown
  <2>2. \A y \in Range(Told(T2, r2)) : Knows(T2, X2, lost, y.msg, C)
    BY <1>1, <1>3 DEF Link, AllKnown, Answered
  <2>3. \A i \in 1..Len(r2.recordbuf) : Knows(T2, X2, lost, r2.recordbuf[i].msg, C)
    BY <1>3 DEF Link, AllKnown, Answered
  <2> QED BY <2>1, <2>2, <2>3 DEF AllKnown
<1>5. AskedOrAnswered(T2, r2, C) /\ Made(T2, r2, n)
  BY <1>1 DEF Link, AskedOrAnswered, Made
<1>6. KeptOnce(T2, X2, r2, C)
  <2> SUFFICES ASSUME NEW z \in DOMAIN X2, X2[z].rdata # None, z \notin Xids(C)
               PROVE  /\ \A y \in Range(Asked(r2)) : y.msg = X2[z].msg => ~Ends(y, y.msg.frags)
                      /\ ~Answered(T2, r2, X2[z].msg)
    BY DEF KeptOnce
  <2>1. CASE z = x
    <3>1. X2[z].msg = X[x].msg
      BY <2>1 DEF OnlyAt
    <3> QED BY <2>1, <3>1
  <2>2. CASE z # x
    <3>1. z \in DOMAIN X /\ X2[z] = X[z]
      BY <2>2 DEF OnlyAt
    <3>2. /\ \A y \in Range(Asked(r)) : y.msg = X[z].msg => ~Ends(y, y.msg.frags)
          /\ ~Answered(T, r, X[z].msg)
      BY <3>1 DEF Link, KeptOnce
    <3> QED BY <3>1, <3>2, <1>1
  <2> QED BY <2>1, <2>2
<1>7. SentSoFar(T2, r2)
  BY DEF SentSoFar, IsSending
<1> QED BY <1>1, <1>4, <1>5, <1>6, <1>7 DEF Link

-----------------------------------------------------------------------------
(* The invariant, one thread or one connection at a time.                    *)

(* What the invariant says of a thread.                                      *)
LEMMA ThreadFacts ==
  ASSUME SafeInv, NEW t \in Threads
  PROVE  /\ th[t] \in ThreadStates /\ List(xidlist[t])
         /\ Client(th[t], xidlist[t], Len(calls), Len(conn), CutBy(t))
         /\ Linked(th[t], xidlist[t], lockLost, conn, Len(calls), CutBy(t))
         /\ Owned(th[t], t, conn)
         /\ th[t].sock # NoSocket => th[t].sock \in 1..Len(conn) /\ conn[th[t].sock].by = t
         /\ Caller(th[t], t, calls) /\ Outcome(th[t], conn, CutBy(t))
         /\ th[t].pc # "idle" => th[t].ended # "stray"
         /\ th[t].answer # None => Fits(th[t].answer, CutBy(t))
<1>1. th[t] \in ThreadStates /\ List(xidlist[t])
  BY DEF SafeInv, TypeInv
<1>2. th[t].sock \in Nat /\ Len(conn) \in Nat
  BY <1>1, ThreadFields, LenProperties DEF SafeInv, TypeInv
<1>3. th[t].sock <= Len(conn)
  BY DEF SafeInv, Client
<1>4. Caller(th[t], t, calls) /\ Outcome(th[t], conn, CutBy(t))
  BY DEF SafeInv
<1>5. Client(th[t], xidlist[t], Len(calls), Len(conn), CutBy(t)) /\ Owned(th[t], t, conn)
      /\ Linked(th[t], xidlist[t], lockLost, conn, Len(calls), CutBy(t))
  BY DEF SafeInv
<1>6. th[t].sock # NoSocket => th[t].sock \in 1..Len(conn) /\ conn[th[t].sock].by = t
  BY <1>2, <1>3, <1>5 DEF Owned, NoSocket
<1> QED BY <1>1, <1>4, <1>5, <1>6 DEF Outcome

(* Calls that are the same were cut or not as before.                        *)
LEMMA SameCut ==
  ASSUME calls' = calls
  PROVE  /\ \A u \in Threads : CutBy(u)' = CutBy(u)
         /\ \A n \in 1..Len(calls) : calls'[n].by = calls[n].by
         /\ \A T, t : Caller(T, t, calls') <=> Caller(T, t, calls)
BY DEF CutBy, Caller

(* And a thread that is not sending cuts nothing.                            *)
LEMMA NotSending ==
  ASSUME calls' = calls, NEW T, T.pc # "send"
  PROVE  /\ \A u \in Threads : CutBy(u)' = CutBy(u)
         /\ \A n \in 1..Len(calls) : calls'[n].by = calls[n].by
         /\ \A t : Caller(T, t, calls')
BY DEF CutBy, Caller

(* And of a connection, and of the rest.                                     *)
LEMMA StateFacts ==
  ASSUME SafeInv
  PROVE  /\ conn \in Seq(Connections) /\ Len(conn) \in Nat /\ \A c \in 1..Len(conn) : conn[c] \in Connections
         /\ \A c \in 1..Len(conn) : ~conn[c].broken => Asks(conn[c], Len(calls))
         /\ DOMAIN conn = 1..Len(conn)
         /\ xidlist = [t \in Threads |-> xidlist[t]]
         /\ th \in [Threads -> ThreadStates] /\ DOMAIN th = Threads /\ DOMAIN xidlist = Threads
         /\ calls \in Seq(Asking) /\ Len(calls) \in Nat /\ Len(calls) <= Len(Sizes)
         /\ ran \in Seq(Nat) /\ Len(ran) = Len(calls)
         /\ xid \in Nat /\ lockLost \in BOOLEAN /\ alive \in BOOLEAN /\ faults \in Nat
         /\ xid = Len(calls) % XidMod
<1>1. conn \in Seq(Connections) /\ calls \in Seq(Asking)
  BY DEF SafeInv, TypeInv
<1>2. DOMAIN xidlist = Threads
  BY DEF SafeInv, TypeInv
<1> QED BY <1>1, <1>2, LenProperties, ElementOfSeq DEF SafeInv, TypeInv

(* A step of the server, or of the network, on one connection.               *)
LEMMA ServerStep ==
  ASSUME SafeInv, NEW c \in 1..Len(conn), NEW r2 \in Connections,
         conn' = [conn EXCEPT ![c] = r2], r2.by = conn[c].by, r2.cut = conn[c].cut,
         UNCHANGED <<xid, lockLost, th, xidlist, calls>>,
         alive' \in BOOLEAN, faults' \in Nat, ran' \in Seq(Nat), Len(ran') = Len(ran),
         ~r2.broken =>
           /\ ~conn[c].broken /\ Asks(r2, Len(calls))
           /\ \A t \in Threads :
                th[t].sock = c /\ Link(th[t], xidlist[t], lockLost, conn[c], Len(calls), Cuts(conn[c], CutBy(t)))
                  => Link(th[t], xidlist[t], lockLost, r2, Len(calls), Cuts(r2, CutBy(t)))
  PROVE  SafeInv'
<1>1. /\ conn' \in Seq(Connections) /\ Len(conn') = Len(conn) /\ conn'[c] = r2
      /\ \A k \in 1..Len(conn) : k # c => conn'[k] = conn[k]
  BY StateFacts, ExceptSeq
<1>2. TypeInv'
  BY <1>1 DEF SafeInv, TypeInv
<1>3. \A k \in 1..Len(conn') : ~conn'[k].broken => Asks(conn'[k], Len(calls'))
  BY <1>1, StateFacts
<1>4. \A t \in Threads : Owned(th'[t], t, conn')
  BY <1>1, ThreadFacts DEF Owned
<1>0. /\ \A u \in Threads : CutBy(u)' = CutBy(u)
      /\ \A T, t : Caller(T, t, calls') <=> Caller(T, t, calls)
  BY SameCut
<1>5. \A t \in Threads : Client(th'[t], xidlist'[t], Len(calls'), Len(conn'), CutBy(t)')
  BY <1>0, <1>1, ThreadFacts
<1>6. \A t \in Threads : Linked(th'[t], xidlist'[t], lockLost', conn', Len(calls'), CutBy(t)')
  <2> SUFFICES ASSUME NEW t \in Threads, th[t].sock # NoSocket, ~conn'[th[t].sock].broken
               PROVE  Link(th[t], xidlist[t], lockLost, conn'[th[t].sock], Len(calls), Cuts(conn'[th[t].sock], CutBy(t)))
    BY <1>0 DEF Linked
  <2>1. th[t].sock \in 1..Len(conn) /\ Linked(th[t], xidlist[t], lockLost, conn, Len(calls), CutBy(t))
    BY ThreadFacts
  <2>2. CASE th[t].sock = c
    BY <2>1, <2>2, <1>1 DEF Linked
  <2>3. CASE th[t].sock # c
    BY <2>1, <2>3, <1>1 DEF Linked
  <2> QED BY <2>2, <2>3
<1>7. \A t \in Threads : Outcome(th'[t], conn', CutBy(t)')
  <2> SUFFICES ASSUME NEW t \in Threads PROVE Outcome(th[t], conn', CutBy(t))
    BY <1>0
  <2>1. \A k \in 1..Len(conn) : conn'[k].cut = conn[k].cut
    BY <1>1
  <2> QED BY <2>1, ThreadFacts DEF Outcome
<1>8. xid' = Len(calls') % XidMod
  BY StateFacts
<1>9. \A t \in Threads : Caller(th'[t], t, calls')
  BY <1>0, ThreadFacts
<1> QED BY <1>2, <1>3, <1>4, <1>5, <1>6, <1>7, <1>8, <1>9 DEF SafeInv

(* A step of a thread, on its connection or on a new one.                    *)
LEMMA ClientStep ==
  ASSUME SafeInv, NEW t \in Threads, NEW T2 \in ThreadStates, NEW X2, List(X2),
         NEW C2, CutBy(t)' = C2, \A u \in Threads : u # t => CutBy(u)' = CutBy(u),
         \A n \in 1..Len(calls) : calls'[n].by = calls[n].by, Caller(T2, t, calls'),
         th' = [th EXCEPT ![t] = T2], xidlist' = [xidlist EXCEPT ![t] = X2],
         conn' \in Seq(Connections), Len(conn) <= Len(conn'),
         \A c \in 1..Len(conn) : c # th[t].sock => conn'[c] = conn[c],
         \A c \in 1..Len(conn') : (c \notin 1..Len(conn) \/ c = th[t].sock) /\ ~conn'[c].broken =>
           Asks(conn'[c], Len(calls')),
         Owned(T2, t, conn'),
         xid' \in Nat, xid' = Len(calls') % XidMod, lockLost' \in BOOLEAN, lockLost => lockLost',
         alive' \in BOOLEAN, faults' \in Nat,
         calls' \in Seq(Asking), Len(calls) <= Len(calls'), Len(calls') <= Len(Sizes),
         ran' \in Seq(Nat), Len(ran') = Len(calls'),
         Client(T2, X2, Len(calls'), Len(conn'), C2),
         Linked(T2, X2, lockLost', conn', Len(calls'), C2), Outcome(T2, conn', C2)
  PROVE  SafeInv'
<1>0. Len(conn) \in Nat /\ Len(conn') \in Nat /\ Len(calls) \in Nat /\ Len(calls') \in Nat
  BY StateFacts, LenProperties
<1>1. /\ th' \in [Threads -> ThreadStates] /\ th'[t] = T2 /\ xidlist'[t] = X2
      /\ xidlist' = [u \in Threads |-> xidlist'[u]]
      /\ \A u \in Threads : u # t => th'[u] = th[u] /\ xidlist'[u] = xidlist[u]
  BY StateFacts
<1>2. TypeInv'
  <2>1. \A u \in Threads : List(xidlist'[u])
    BY <1>1, ThreadFacts
  <2> QED BY <1>1, <2>1 DEF TypeInv
<1>3. \A c \in 1..Len(conn') : ~conn'[c].broken => Asks(conn'[c], Len(calls'))
  <2> SUFFICES ASSUME NEW c \in 1..Len(conn'), ~conn'[c].broken PROVE Asks(conn'[c], Len(calls'))
    OBVIOUS
  <2>1. CASE c \in 1..Len(conn) /\ c # th[t].sock
    <3>1. conn'[c] = conn[c] /\ conn[c] \in Connections /\ Asks(conn[c], Len(calls))
      BY <2>1, StateFacts
    <3> QED BY <3>1, <1>0, AsksMonotone
  <2> QED BY <2>1
\* the connections of the other threads are the same
<1>4. ASSUME NEW u \in Threads, u # t, th[u].sock # NoSocket
      PROVE  th[u].sock \in 1..Len(conn) /\ conn'[th[u].sock] = conn[th[u].sock]
  <2>1. th[u].sock \in 1..Len(conn) /\ conn[th[u].sock].by = u
    BY <1>4, ThreadFacts
  <2>2. th[t].sock # NoSocket => conn[th[t].sock].by = t
    BY ThreadFacts
  <2>3. th[u].sock # th[t].sock
    BY <2>1, <2>2, <1>4
  <2> QED BY <2>1, <2>3
<1>5. \A u \in Threads : Owned(th'[u], u, conn')
  <2> SUFFICES ASSUME NEW u \in Threads PROVE Owned(th'[u], u, conn')
    OBVIOUS
  <2>1. CASE u = t
    BY <2>1, <1>1
  <2>2. CASE u # t
    BY <2>2, <1>1, <1>4, ThreadFacts DEF Owned
  <2> QED BY <2>1, <2>2
<1>6. \A u \in Threads : Client(th'[u], xidlist'[u], Len(calls'), Len(conn'), CutBy(u)')
  <2> SUFFICES ASSUME NEW u \in Threads, u # t
               PROVE  Client(th[u], xidlist[u], Len(calls'), Len(conn'), CutBy(u))
    BY <1>1
  <2>1. /\ Client(th[u], xidlist[u], Len(calls), Len(conn), CutBy(u)) /\ List(xidlist[u])
        /\ th[u] \in ThreadStates
    BY ThreadFacts
  <2>2. th[u].sock \in Nat
    BY <2>1, ThreadFields
  <2>4. \A x \in DOMAIN xidlist[u] : xidlist[u][x].msg \in Messages /\ xidlist[u][x].on \in Int
    BY <2>1 DEF List, Entries
  <2>5. th[u].sock <= Len(conn')
    BY <2>1, <2>2, <1>0 DEF Client
  <2>6. (1..Len(calls)) \ CutBy(u) \subseteq (1..Len(calls')) \ CutBy(u)
    BY <1>0
  <2>7. \A x \in DOMAIN xidlist[u] : xidlist[u][x].on <= Len(conn')
    BY <2>1, <2>4, <1>0 DEF Client
  <2> QED BY <2>1, <2>5, <2>6, <2>7 DEF Client
<1>7. \A u \in Threads : Linked(th'[u], xidlist'[u], lockLost', conn', Len(calls'), CutBy(u)')
  <2> SUFFICES ASSUME NEW u \in Threads, u # t, th[u].sock # NoSocket, ~conn'[th[u].sock].broken
               PROVE  Link(th[u], xidlist[u], lockLost', conn'[th[u].sock], Len(calls'), Cuts(conn'[th[u].sock], CutBy(u)))
    BY <1>1 DEF Linked
  <2>1. Link(th[u], xidlist[u], lockLost, conn'[th[u].sock], Len(calls), Cuts(conn'[th[u].sock], CutBy(u)))
    BY <1>4, ThreadFacts DEF Linked
  <2> QED BY <2>1, <1>0, LinkMonotone
<1>8. \A u \in Threads : Outcome(th'[u], conn', CutBy(u)')
  <2> SUFFICES ASSUME NEW u \in Threads, u # t PROVE Outcome(th[u], conn', CutBy(u))
    BY <1>1
  <2>1. Outcome(th[u], conn, CutBy(u))
    BY ThreadFacts
  <2> QED BY <2>1, <1>4 DEF Outcome
<1>9. \A u \in Threads : Caller(th'[u], u, calls')
  <2> SUFFICES ASSUME NEW u \in Threads, u # t, th[u].pc = "send" PROVE calls'[th[u].msg.no].by = u
    BY <1>1 DEF Caller
  <2>1. th[u].msg.no \in 1..Len(calls) /\ calls[th[u].msg.no].by = u
    BY ThreadFacts DEF Client, Caller
  <2> QED BY <2>1
<1> QED BY <1>2, <1>3, <1>5, <1>6, <1>7, <1>8, <1>9 DEF SafeInv

(* A step of a thread that leaves the connections as they are.               *)
LEMMA ClientStay ==
  ASSUME SafeInv, NEW t \in Threads, NEW T2 \in ThreadStates, NEW X2, List(X2),
         \A u \in Threads : CutBy(u)' = CutBy(u),
         \A n \in 1..Len(calls) : calls'[n].by = calls[n].by, Caller(T2, t, calls'),
         th' = [th EXCEPT ![t] = T2], xidlist' = [xidlist EXCEPT ![t] = X2], conn' = conn,
         T2.sock = th[t].sock,
         xid' \in Nat, xid' = Len(calls') % XidMod, lockLost' \in BOOLEAN, lockLost => lockLost',
         alive' \in BOOLEAN, faults' \in Nat,
         calls' \in Seq(Asking), Len(calls) <= Len(calls'), Len(calls') <= Len(Sizes),
         ran' \in Seq(Nat), Len(ran') = Len(calls'),
         Client(T2, X2, Len(calls'), Len(conn), CutBy(t)),
         \A r \in Connections :
           (/\ th[t].sock # NoSocket /\ r = conn[th[t].sock] /\ Asks(r, Len(calls))
            /\ Link(th[t], xidlist[t], lockLost, r, Len(calls), Cuts(r, CutBy(t))))
             => Link(T2, X2, lockLost', r, Len(calls'), Cuts(r, CutBy(t))),
         T2.ended # "stray", T2.answer # None => Fits(T2.answer, CutBy(t))
  PROVE  SafeInv'
<1>0. Len(conn) \in Nat /\ Len(calls) \in Nat /\ Len(calls') \in Nat
  BY StateFacts, LenProperties
<1>1. conn' \in Seq(Connections) /\ Len(conn) <= Len(conn')
  BY <1>0, StateFacts
<1>2. \A c \in 1..Len(conn) : c # th[t].sock => conn'[c] = conn[c]
  OBVIOUS
<1>3. \A c \in 1..Len(conn') : (c \notin 1..Len(conn) \/ c = th[t].sock) /\ ~conn'[c].broken =>
        Asks(conn'[c], Len(calls'))
  BY <1>0, StateFacts, AsksMonotone
<1>4. Owned(T2, t, conn')
  BY ThreadFacts DEF Owned
<1>5. Linked(T2, X2, lockLost', conn', Len(calls'), CutBy(t))
  <2> SUFFICES ASSUME T2.sock # NoSocket, ~conn[T2.sock].broken
               PROVE  Link(T2, X2, lockLost', conn[T2.sock], Len(calls'), Cuts(conn[T2.sock], CutBy(t)))
    BY DEF Linked
  <2>1. conn[th[t].sock] \in Connections /\ Asks(conn[th[t].sock], Len(calls))
    BY ThreadFacts, StateFacts
  <2>2. Link(th[t], xidlist[t], lockLost, conn[th[t].sock], Len(calls), Cuts(conn[th[t].sock], CutBy(t)))
    BY ThreadFacts DEF Linked
  <2> QED BY <2>1, <2>2
<1>6. Client(T2, X2, Len(calls'), Len(conn'), CutBy(t))
  OBVIOUS
<1>7. Outcome(T2, conn', CutBy(t))
  BY DEF Outcome
<1> QED BY <1>1, <1>2, <1>3, <1>4, <1>5, <1>6, <1>7, ClientStep

(* A step of a thread that changes its connection.                           *)
LEMMA ClientUpdate ==
  ASSUME SafeInv, NEW t \in Threads, NEW T2 \in ThreadStates, NEW X2, List(X2),
         NEW C2, CutBy(t)' = C2, \A u \in Threads : u # t => CutBy(u)' = CutBy(u),
         \A n \in 1..Len(calls) : calls'[n].by = calls[n].by, Caller(T2, t, calls'),
         NEW r \in Connections, NEW r2 \in Connections,
         th[t].sock # NoSocket, r = conn[th[t].sock], r2.by = r.by, r2.broken = r.broken,
         conn' = [conn EXCEPT ![th[t].sock] = r2],
         th' = [th EXCEPT ![t] = T2], xidlist' = [xidlist EXCEPT ![t] = X2], T2.sock = th[t].sock,
         UNCHANGED <<xid, lockLost, alive>>, faults' \in Nat,
         calls' \in Seq(Asking), Len(calls') = Len(calls),
         ran' \in Seq(Nat), Len(ran') = Len(ran),
         Client(T2, X2, Len(calls), Len(conn), C2),
         ~r.broken /\ Asks(r, Len(calls)) /\ Link(th[t], xidlist[t], lockLost, r, Len(calls), Cuts(r, CutBy(t))) =>
           Asks(r2, Len(calls)) /\ Link(T2, X2, lockLost, r2, Len(calls), Cuts(r2, C2)),
         T2.ended = "stray" => T2.pc = "idle" /\ r2.cut, T2.answer # None => Fits(T2.answer, C2)
  PROVE  SafeInv'
<1> DEFINE s == th[t].sock
<1>0. Len(conn) \in Nat /\ Len(calls) \in Nat /\ s \in 1..Len(conn) /\ r.by = t
  BY StateFacts, ThreadFacts
<1>1. /\ conn' \in Seq(Connections) /\ Len(conn') = Len(conn) /\ conn'[s] = r2
      /\ \A k \in 1..Len(conn) : k # s => conn'[k] = conn[k]
  BY <1>0, StateFacts, ExceptSeq
<1>2. ~r.broken => Asks(r, Len(calls)) /\ Link(th[t], xidlist[t], lockLost, r, Len(calls), Cuts(r, CutBy(t)))
  BY <1>0, StateFacts, ThreadFacts DEF Linked
<1>3. \A c \in 1..Len(conn') : (c \notin 1..Len(conn) \/ c = s) /\ ~conn'[c].broken =>
        Asks(conn'[c], Len(calls'))
  BY <1>1, <1>2
<1>4. Owned(T2, t, conn')
  BY <1>0, <1>1 DEF Owned
<1>5. Linked(T2, X2, lockLost', conn', Len(calls'), C2)
  BY <1>1, <1>2 DEF Linked
<1>6. Client(T2, X2, Len(calls'), Len(conn'), C2)
  BY <1>1
<1>7. xid' \in Nat /\ xid' = Len(calls') % XidMod /\ lockLost' \in BOOLEAN /\ alive' \in BOOLEAN
      /\ (lockLost => lockLost') /\ Len(calls) <= Len(calls') /\ Len(calls') <= Len(Sizes)
      /\ Len(ran') = Len(calls') /\ Len(conn) <= Len(conn')
  BY <1>0, <1>1, StateFacts
<1>8. \A k \in 1..Len(conn) : k # th[t].sock => conn'[k] = conn[k]
  BY <1>1
<1>9. Outcome(T2, conn', C2)
  BY <1>1 DEF Outcome
<1> QED BY <1>1, <1>3, <1>4, <1>5, <1>6, <1>7, <1>8, <1>9, ClientStep

(* A new connection, and the ones there were with the old one closed.        *)
LEMMA NewConnection ==
  ASSUME NEW t \in Threads
  PROVE  /\ Connection(t) \in Connections /\ Connection(t).by = t /\ ~Connection(t).broken
         /\ Connection(t).up = <<>> /\ Connection(t).down = <<>> /\ Connection(t).readbuf = <<>>
         /\ Connection(t).packetbuf = <<>> /\ Connection(t).recordbuf = <<>>
         /\ Connection(t).writebuf = <<>> /\ Connection(t).open /\ ~Connection(t).cut
         /\ ~Connection(t).torn
<1>1. <<>> \in Seq(Pieces) /\ <<>> \in Seq(Queued)
  OBVIOUS
<1> QED BY <1>1 DEF Connection, Connections

(* Closing a thread's socket changes one flag of one connection.             *)
LEMMA ClosedConnections ==
  ASSUME SafeInv, NEW t \in Threads
  PROVE  /\ Closed(t) \in Seq(Connections) /\ Len(Closed(t)) = Len(conn)
         /\ \A c \in 1..Len(conn) : c # th[t].sock => Closed(t)[c] = conn[c]
         /\ \A c \in 1..Len(conn) :
              /\ Closed(t)[c] = [conn[c] EXCEPT !.open = Closed(t)[c].open]
              /\ Closed(t)[c].open \in BOOLEAN
<1> DEFINE s == th[t].sock
<1>0. \A c \in 1..Len(conn) : conn[c] = [conn[c] EXCEPT !.open = conn[c].open] /\ conn[c].open \in BOOLEAN
  BY StateFacts DEF Connections
<1>1. CASE s = NoSocket
  BY <1>0, <1>1, StateFacts DEF Closed
<1>2. CASE s # NoSocket
  <2>1. s \in 1..Len(conn) /\ conn \in Seq(Connections) /\ conn[s] \in Connections
    BY <1>2, ThreadFacts, StateFacts
  <2>2. PICK r2 \in Connections : r2 = [conn[s] EXCEPT !.open = FALSE] /\ r2.open = FALSE
    <3>1. [conn[s] EXCEPT !.open = FALSE] \in Connections
      BY <2>1 DEF Connections
    <3>2. [conn[s] EXCEPT !.open = FALSE].open = FALSE
      BY <2>1 DEF Connections
    <3> QED BY <3>1, <3>2
  <2>3. Closed(t) = [conn EXCEPT ![s] = r2]
    BY <1>2, <2>2 DEF Closed
  <2>4. /\ Closed(t) \in Seq(Connections) /\ Len(Closed(t)) = Len(conn)
        /\ Closed(t)[s] = r2 /\ \A c \in 1..Len(conn) : c # s => Closed(t)[c] = conn[c]
    BY <2>1, <2>3, ExceptSeq
  <2> QED BY <1>0, <2>2, <2>4
<1> QED BY <1>1, <1>2

(* A thread that has left what it did.                                       *)
LEMMA Left ==
  ASSUME NEW T \in ThreadStates,
         NEW e \in {"none", "error", "timeout", "inuse", "returned", "garbled", "stray"}
  PROVE  /\ Leaving(T, e) \in ThreadStates /\ Leaving(T, e).pc = "idle" /\ Leaving(T, e).got = <<>>
         /\ Leaving(T, e).sock = T.sock /\ Leaving(T, e).ended = e
         /\ Leaving(T, e).answer = T.answer
<1>1. <<>> \in Seq(Pieces) /\ NoXid \in Int /\ None \in Messages \union {None} /\ 0 \in Nat
  BY DEF NoXid
<1> QED BY <1>1 DEF Leaving, Idle, ThreadStates

(* A thread that leaves its operation is where it may be.                    *)
LEMMA ClientIdle ==
  ASSUME NEW C, NEW T, NEW T2, NEW X, NEW n, NEW k, Client(T, X, n, k, C),
         T2.pc = "idle", T2.got = <<>>, T2.sock <= k
  PROVE  Client(T2, X, n, k, C)
BY DEF Client, IsSending

(* A thread with another socket.                                             *)
LEMMA OtherSock ==
  ASSUME NEW r \in ThreadStates, NEW k \in Nat
  PROVE  /\ [r EXCEPT !.sock = k] \in ThreadStates /\ [r EXCEPT !.sock = k].sock = k
         /\ [r EXCEPT !.sock = k].got = r.got /\ [r EXCEPT !.sock = k].ended = r.ended
         /\ [r EXCEPT !.sock = k].answer = r.answer /\ [r EXCEPT !.sock = k].pc = r.pc
         /\ [r EXCEPT !.sock = k].msg = r.msg /\ [r EXCEPT !.sock = k].part = r.part
         /\ [r EXCEPT !.sock = k].want = r.want
BY DEF ThreadStates

(* reconnect, by a thread that goes on or raises.                            *)
LEMMA ReconnectStep ==
  ASSUME SafeInv, NEW t \in Threads, NEW r \in ThreadStates, Reconnect(t, r),
         r.got = <<>>, r.pc \in {"idle", "retry", "resend"}, r.sock = th[t].sock,
         r.ended # "stray", r.answer = th[t].answer,
         Client(r, xidlist[t], Len(calls), Len(conn), CutBy(t)),
         UNCHANGED <<xid, lockLost, xidlist, alive, calls, ran>>, faults' \in Nat
  PROVE  SafeInv'
<1>0. /\ Len(conn) \in Nat /\ Len(calls) \in Nat /\ xidlist' = [xidlist EXCEPT ![t] = xidlist[t]]
      /\ List(xidlist[t]) /\ th[t] \in ThreadStates /\ Len(calls) <= Len(calls')
      /\ Client(th[t], xidlist[t], Len(calls), Len(conn), CutBy(t))
      /\ (th[t].answer # None => Fits(th[t].answer, CutBy(t)))
  <2>1. xidlist' = [xidlist EXCEPT ![t] = xidlist[t]]
    BY StateFacts
  <2>2. Len(conn) \in Nat /\ Len(calls) \in Nat /\ Len(calls) <= Len(calls')
    BY StateFacts
  <2>3. /\ List(xidlist[t]) /\ th[t] \in ThreadStates
        /\ Client(th[t], xidlist[t], Len(calls), Len(conn), CutBy(t))
        /\ (th[t].answer # None => Fits(th[t].answer, CutBy(t)))
    BY ThreadFacts
  <2> QED BY <2>1, <2>2, <2>3
<1>6. /\ \A u \in Threads : CutBy(u)' = CutBy(u)
      /\ \A n \in 1..Len(calls) : calls'[n].by = calls[n].by
  BY SameCut
<1>1. /\ xid' \in Nat /\ xid' = Len(calls') % XidMod /\ lockLost' \in BOOLEAN /\ alive' \in BOOLEAN
      /\ (lockLost => lockLost') /\ Len(calls') <= Len(Sizes)
      /\ calls' \in Seq(Asking) /\ ran' \in Seq(Nat) /\ Len(ran') = Len(calls')
  BY StateFacts
<1>2. /\ Closed(t) \in Seq(Connections) /\ Len(Closed(t)) = Len(conn)
      /\ \A c \in 1..Len(conn) : c # th[t].sock => Closed(t)[c] = conn[c]
      /\ \A c \in 1..Len(conn) : Closed(t)[c] = [conn[c] EXCEPT !.open = Closed(t)[c].open]
  BY ClosedConnections
<1>3. \A c \in 1..Len(conn) : ~Closed(t)[c].broken => Asks(Closed(t)[c], Len(calls))
  <2> SUFFICES ASSUME NEW c \in 1..Len(conn), ~Closed(t)[c].broken PROVE Asks(Closed(t)[c], Len(calls))
    OBVIOUS
  <2>1. PICK b : Closed(t)[c] = [conn[c] EXCEPT !.open = b]
    BY <1>2
  <2>2. conn[c] \in Connections
    BY StateFacts
  <2>3. /\ Closed(t)[c].packetbuf = conn[c].packetbuf /\ Closed(t)[c].readbuf = conn[c].readbuf
        /\ Closed(t)[c].up = conn[c].up /\ Closed(t)[c].broken = conn[c].broken
    BY <2>1, <2>2 DEF Connections
  <2>4. Asks(conn[c], Len(calls)) /\ Asked(Closed(t)[c]) = Asked(conn[c])
    BY <2>3, StateFacts DEF Asked
  <2> QED BY <2>4, SameAsks
<1>4. CASE alive
  <2> DEFINE T2 == [r EXCEPT !.sock = Len(conn) + 1]
  <2>1. conn' = Append(Closed(t), Connection(t)) /\ th' = [th EXCEPT ![t] = T2]
    BY <1>4 DEF Reconnect, Become
  <2>2. /\ T2 \in ThreadStates /\ T2.sock = Len(conn) + 1 /\ T2.got = <<>> /\ T2.ended = r.ended
        /\ T2.answer = r.answer /\ T2.pc = r.pc /\ T2.msg = r.msg /\ T2.part = r.part /\ T2.want = r.want
    <3>1. r \in ThreadStates /\ Len(conn) + 1 \in Nat /\ r.got = <<>>
      BY <1>0
    <3> QED BY ONLY <3>1, OtherSock
  <2>3. Connection(t) \in Connections /\ Connection(t).by = t
    BY NewConnection
  <2>4. /\ conn' \in Seq(Connections) /\ Len(conn') = Len(conn) + 1
        /\ conn'[Len(conn) + 1] = Connection(t)
        /\ \A c \in 1..Len(conn) : conn'[c] = Closed(t)[c]
    BY <2>1, <2>3, <1>2, AppendProperties
  <2> HIDE DEF T2
  <2>5. /\ Asks(Connection(t), Len(calls))
        /\ Link(T2, xidlist[t], lockLost, Connection(t), Len(calls), Cuts(Connection(t), CutBy(t)))
    BY <2>2, NewConnection, EmptyLink
  <2>6. \A c \in 1..Len(conn') : ~conn'[c].broken => Asks(conn'[c], Len(calls'))
    <3> SUFFICES ASSUME NEW c \in 1..Len(conn'), ~conn'[c].broken PROVE Asks(conn'[c], Len(calls))
      OBVIOUS
    <3>1. CASE c = Len(conn) + 1
      BY <3>1, <2>4, <2>5
    <3>2. CASE c \in 1..Len(conn)
      BY <3>2, <2>4, <1>3
    <3> QED BY <3>1, <3>2, <2>4, <1>0
  <2>7. Owned(T2, t, conn')
    BY <2>2, <2>3, <2>4 DEF Owned
  <2>8. Client(T2, xidlist[t], Len(calls'), Len(conn'), CutBy(t))
    <3>1. \A x \in DOMAIN xidlist[t] : xidlist[t][x].on \in Nat
      BY <1>0 DEF List, Entries
    <3>2. \A x \in DOMAIN xidlist[t] : xidlist[t][x].on <= Len(conn) + 1
      BY <3>1, <1>0 DEF Client
    <3> QED BY <3>2, <2>2, <2>4, <1>0 DEF Client, IsSending
  <2>9. Linked(T2, xidlist[t], lockLost', conn', Len(calls'), CutBy(t))
    BY <2>2, <2>4, <2>5 DEF Linked
  <2>10. \A c \in 1..Len(conn) : c # th[t].sock => conn'[c] = conn[c]
    BY <2>4, <1>2
  <2>11. Len(conn) <= Len(conn')
    BY <2>4, <1>0
  <2>12. Outcome(T2, conn', CutBy(t)) /\ Caller(T2, t, calls')
    BY <2>2, <1>0 DEF Outcome, Caller
  <2>13. th' = [th EXCEPT ![t] = T2]
    BY <2>1 DEF T2
  <2> QED BY <1>0, <1>1, <1>6, <2>2, <2>4, <2>6, <2>7, <2>8, <2>9, <2>10, <2>11, <2>12, <2>13, ClientStep
<1>5. CASE ~alive
  <2> DEFINE T1 == Leaving(th[t], "error")
             T2 == [Idle(th[t]) EXCEPT !.sock = NoSocket, !.ended = "error"]
  <2>1. conn' = Closed(t) /\ th' = [th EXCEPT ![t] = T2]
    BY <1>5 DEF Reconnect, Become
  <2>2. T1 \in ThreadStates /\ T1.answer = th[t].answer /\ T1.pc = "idle" /\ T1.got = <<>>
    BY <1>0, Left
  <2>3. /\ T2 \in ThreadStates /\ T2.sock = NoSocket /\ T2.pc = "idle" /\ T2.got = <<>>
        /\ T2.ended = "error" /\ T2.answer = th[t].answer
    <3>1. Idle(th[t]) \in ThreadStates /\ Idle(th[t]).pc = "idle" /\ Idle(th[t]).got = <<>>
          /\ Idle(th[t]).answer = th[t].answer
      <4>1. <<>> \in Seq(Pieces) /\ NoXid \in Int /\ None \in Messages \union {None} /\ 0 \in Nat
        BY DEF NoXid
      <4> QED BY <4>1, <1>0 DEF Idle, ThreadStates
    <3>2. NoSocket \in Nat
      BY DEF NoSocket
    <3> HIDE DEF T1
    <3> QED BY <3>1, <3>2 DEF ThreadStates
  <2> HIDE DEF T2
  <2>4. /\ Owned(T2, t, conn') /\ Linked(T2, xidlist[t], lockLost', conn', Len(calls'), CutBy(t))
    BY <2>3 DEF Owned, Linked
  <2>5. T2.sock <= Len(conn)
    BY <2>3, <1>0 DEF NoSocket
  <2>6. Client(T2, xidlist[t], Len(calls'), Len(conn'), CutBy(t))
    BY <2>1, <2>3, <2>5, <1>0, <1>2, ClientIdle
  <2>7. \A c \in 1..Len(conn') : ~conn'[c].broken => Asks(conn'[c], Len(calls'))
    BY <2>1, <1>2, <1>3
  <2>8. Len(conn) <= Len(conn') /\ conn' \in Seq(Connections)
        /\ \A c \in 1..Len(conn) : c # th[t].sock => conn'[c] = conn[c]
    BY <2>1, <1>0, <1>2
  <2>9. Outcome(T2, conn', CutBy(t)) /\ Caller(T2, t, calls')
    BY <2>3, <1>0 DEF Outcome, Caller
  <2>10. th' = [th EXCEPT ![t] = T2]
    BY <2>1 DEF T2
  <2> QED BY <1>0, <1>1, <1>6, <2>3, <2>4, <2>6, <2>7, <2>8, <2>9, <2>10, ClientStep
<1> QED BY <1>4, <1>5

-----------------------------------------------------------------------------
(* Each step of a thread keeps the invariant.                                *)

(* A thread enters send or listen with a fresh record.                       *)
LEMMA EnteredFields ==
  ASSUME NEW T \in ThreadStates
  PROVE  /\ Entered(T) \in ThreadStates /\ Entered(T).pc = "idle" /\ Entered(T).got = <<>>
         /\ Entered(T).sock = T.sock /\ Entered(T).ended = "none" /\ Entered(T).answer = None
<1>1. <<>> \in Seq(Pieces) /\ NoXid \in Int /\ None \in Messages \union {None} /\ 0 \in Nat
  BY DEF NoXid
<1> QED BY <1>1 DEF Entered, Idle, ThreadStates

(* No call was cut by a step that leaves the marks of the calls there are.   *)
LEMMA CutsKept ==
  ASSUME calls \in Seq(Asking), calls' \in Seq(Asking), Len(calls) <= Len(calls'),
         \A n \in 1..Len(calls) : calls'[n].by = calls[n].by /\ calls'[n].cut = calls[n].cut,
         \A n \in 1..Len(calls') : n \notin 1..Len(calls) => ~calls'[n].cut
  PROVE  \A u \in Threads : CutBy(u)' = CutBy(u)
<1>1. /\ DOMAIN calls = 1..Len(calls) /\ DOMAIN calls' = 1..Len(calls')
      /\ Len(calls) \in Nat /\ Len(calls') \in Nat
  BY LenProperties
<1> SUFFICES ASSUME NEW u \in Threads, NEW n
             PROVE  /\ n \in DOMAIN calls /\ calls[n].by = u /\ calls[n].cut =>
                         n \in DOMAIN calls' /\ calls'[n].by = u /\ calls'[n].cut
                    /\ n \in DOMAIN calls' /\ calls'[n].by = u /\ calls'[n].cut =>
                         n \in DOMAIN calls /\ calls[n].by = u /\ calls[n].cut
  BY DEF CutBy
<1>2. n \in 1..Len(calls) => n \in 1..Len(calls')
  BY <1>1
<1> QED BY <1>1, <1>2

(* A new call is on no connection yet.                                       *)
LEMMA SafeSend ==
  ASSUME SafeInv, NEW t \in Threads, Send(t)
  PROVE  SafeInv'
<1> DEFINE n == Len(calls) + 1
           m == MessageAt(n)
           T == th[t]
           T2 == [Entered(th[t]) EXCEPT !.pc = "send", !.msg = m, !.part = 1]
<1>1. /\ T \in ThreadStates /\ List(xidlist[t]) /\ T.pc = "idle" /\ lockLost = FALSE
      /\ Client(T, xidlist[t], Len(calls), Len(conn), CutBy(t)) /\ T.sock \in Nat
      /\ Len(calls) \in Nat /\ Len(conn) \in Nat /\ Len(calls) < Len(Sizes) /\ T.got = <<>>
      /\ UNCHANGED <<lockLost, xidlist, conn, alive, faults>> /\ Len(Sizes) \in Nat
  <2>1. /\ T \in ThreadStates /\ List(xidlist[t]) /\ Client(T, xidlist[t], Len(calls), Len(conn), CutBy(t))
    BY ThreadFacts
  <2>2. T.pc = "idle" /\ lockLost = FALSE /\ Len(calls) < Len(Sizes)
        /\ UNCHANGED <<lockLost, xidlist, conn, alive, faults>>
    BY StateFacts DEF Send
  <2>3. T.got = <<>> /\ T.sock \in Nat
    BY <2>1, <2>2, ThreadFields DEF Client
  <2> QED BY <2>1, <2>2, <2>3, StateFacts, ConstantTypes
<1>2. /\ calls' \in Seq(Asking) /\ Len(calls') = n
      /\ ran' \in Seq(Nat) /\ Len(ran') = n /\ calls'[n].by = t
      /\ \A k \in 1..Len(calls) : calls'[k].by = calls[k].by
      /\ \A u \in Threads : CutBy(u)' = CutBy(u)
  <2> DEFINE a == [by |-> t, sent |-> 0, cut |-> FALSE]
  <2>1. a \in Asking /\ 0 \in Nat /\ a.by = t /\ ~a.cut
    BY DEF Asking
  <2> HIDE DEF a
  <2>2. calls' = Append(calls, a) /\ ran' = Append(ran, 0)
    BY DEF Send, a
  <2>3. /\ calls' \in Seq(Asking) /\ Len(calls') = n /\ ran' \in Seq(Nat) /\ Len(ran') = n
        /\ calls'[n] = a /\ \A k \in 1..Len(calls) : calls'[k] = calls[k]
    BY <2>1, <2>2, StateFacts, AppendProperties
  <2>4. \A u \in Threads : CutBy(u)' = CutBy(u)
    <3>1. Len(calls) <= Len(calls')
      BY <2>3, <1>1
    <3>2. \A k \in 1..Len(calls') : k \notin 1..Len(calls) => calls'[k] = a
      BY <2>3, <1>1
    <3> QED BY <2>1, <2>3, <3>1, <3>2, StateFacts, CutsKept
  <2> QED BY <2>1, <2>3, <2>4
<1>3. n \in 1..Len(Sizes) /\ n = Len(calls) + 1
  BY <1>1
<1>4. xid' \in Nat /\ xid' = n % XidMod
  <2>1. xid = Len(calls) % XidMod /\ xid' = (xid + 1) % XidMod
    BY StateFacts DEF Send
  <2> QED BY <2>1, <1>1, NextModulo, ConstantTypes
<1>5. m \in Messages /\ m.no = n
  BY <1>3 DEF Messages, MessageAt
<1>6. m = [no |-> n, xid |-> xid', frags |-> Sizes[n][1], back |-> Sizes[n][2]]
  BY <1>4 DEF MessageAt
<1> HIDE DEF m
<1>7. th' = [th EXCEPT ![t] = T2]
  BY <1>2, <1>6 DEF Send, Become
<1>8. /\ T2 \in ThreadStates /\ T2.pc = "send" /\ T2.msg = m /\ T2.part = 1 /\ T2.got = <<>>
      /\ T2.sock = T.sock /\ T2.ended = "none" /\ T2.answer = None
  BY <1>1, <1>5, EnteredFields DEF ThreadStates
<1> HIDE DEF T2
<1>9. xidlist' = [xidlist EXCEPT ![t] = xidlist[t]]
  BY <1>1, StateFacts
<1>10. \A x \in DOMAIN xidlist[t] : xidlist[t][x].msg.no <= Len(calls) /\ xidlist[t][x].msg.no \in Int
  BY <1>1, MessageSizes, ConstantTypes DEF Client, List, Entries
<1>11. Client(T2, xidlist[t], Len(calls'), Len(conn), CutBy(t))
  <2>1. T2.part \in 1..T2.msg.frags
    BY <1>5, <1>8, MessageSizes
  <2>2. T2.msg.no <= Len(calls')
    BY <1>2, <1>3, <1>5, <1>8
  <2>3. \A x \in DOMAIN xidlist[t] : xidlist[t][x].msg # T2.msg /\ xidlist[t][x].msg.no <= Len(calls')
    BY <1>1, <1>2, <1>5, <1>8, <1>10
  <2>4. T2.msg.no \in (1..Len(calls')) \ CutBy(t)
    <3>1. CutBy(t) \subseteq 1..Len(calls)
      BY StateFacts DEF CutBy
    <3>2. n \notin CutBy(t)
      BY <3>1, <1>1
    <3> QED BY <3>2, <1>1, <1>2, <1>5, <1>8
  <2>5. (1..Len(calls)) \ CutBy(t) \subseteq (1..Len(calls')) \ CutBy(t)
    BY <1>1, <1>2
  <2> QED BY <1>1, <1>5, <1>8, <2>1, <2>2, <2>3, <2>4, <2>5 DEF Client, IsSending
<1>12. ASSUME NEW r \in Connections, Asks(r, Len(calls)), Link(T, xidlist[t], lockLost, r, Len(calls), Cuts(r, CutBy(t)))
       PROVE  Link(T2, xidlist[t], lockLost', r, Len(calls'), Cuts(r, CutBy(t)))
  <2>1. /\ Link(T, xidlist[t], FALSE, r, Len(calls), Cuts(r, CutBy(t))) /\ T2.msg \in Messages /\ T2.msg.no = Len(calls) + 1
        /\ \A x \in DOMAIN xidlist[t] : xidlist[t][x].msg.no <= Len(calls)
    BY <1>1, <1>3, <1>5, <1>8, <1>10, <1>12
  <2>2. Link(T2, xidlist[t], FALSE, r, Len(calls) + 1, Cuts(r, CutBy(t)))
    BY <1>1, <1>8, <1>12, <2>1, SendLink
  <2> QED BY <2>2, <1>1, <1>2
<1>13. /\ xid' = Len(calls') % XidMod /\ lockLost' \in BOOLEAN /\ alive' \in BOOLEAN /\ faults' \in Nat
       /\ Len(calls) <= Len(calls') /\ Len(calls') <= Len(Sizes) /\ Len(ran') = Len(calls')
       /\ conn' = conn /\ (lockLost => lockLost')
  BY <1>1, <1>2, <1>3, <1>4, StateFacts
<1>14. /\ T2.ended # "stray" /\ (T2.answer # None => Fits(T2.answer, CutBy(t)))
       /\ Caller(T2, t, calls')
  BY <1>2, <1>5, <1>8 DEF Caller
<1> QED BY <1>1, <1>2, <1>4, <1>7, <1>8, <1>9, <1>11, <1>12, <1>13, <1>14, ClientStay

(* The connection of a thread that can use it.                               *)
LEMMA SockFacts ==
  ASSUME SafeInv, NEW t \in Threads, th[t].sock # NoSocket
  PROVE  /\ Sock(t) = conn[th[t].sock] /\ th[t].sock \in 1..Len(conn) /\ Sock(t) \in Connections
         /\ Sock(t).by = t
         /\ ~Sock(t).broken => /\ Asks(Sock(t), Len(calls))
                               /\ Link(th[t], xidlist[t], lockLost, Sock(t), Len(calls), Cuts(Sock(t), CutBy(t)))
BY ThreadFacts, StateFacts DEF Sock, Linked

(* A fragment comes after those of the same record.                          *)
LEMMA SafeSendFragment ==
  ASSUME SafeInv, NEW t \in Threads, SendFragment(t)
  PROVE  SafeInv'
<1> DEFINE T == th[t]
           X == xidlist[t]
           m == T.msg
           p == T.part
           f == Fragment(m, p)
           r == Sock(t)
           r2 == [r EXCEPT !.up = @ \o f]
           last == p = m.frags
           T2 == IF last THEN [T EXCEPT !.pc = AfterSend(@)] ELSE [T EXCEPT !.part = @ + 1]
           X2 == IF last /\ T.pc = "resend" THEN [X EXCEPT ![m.xid].on = T.sock] ELSE X
<1>1. /\ T \in ThreadStates /\ List(X) /\ IsSending(T) /\ T.sock # NoSocket
      /\ Client(T, X, Len(calls), Len(conn), CutBy(t))
      /\ UNCHANGED <<xid, lockLost, alive, ran, faults>>
      /\ T.ended # "stray" /\ (T.answer # None => Fits(T.answer, CutBy(t)))
      /\ T.pc \in {"send", "retry", "resend"}
  BY ThreadFacts DEF SendFragment, Sending, IsSending, Usable
<1>2. /\ r = conn[T.sock] /\ T.sock \in 1..Len(conn) /\ r \in Connections /\ r.by = t
      /\ Len(conn) \in Nat
  BY <1>1, SockFacts, StateFacts
<1>3. /\ m \in Messages /\ m.no <= Len(calls) /\ m.frags \in Nat \ {0} /\ p \in Nat \ {0} /\ p <= m.frags
      /\ m.no \in Nat \ {0} /\ m.xid \in Nat
  <2>1. m \in Messages /\ m.no \in 1..Len(calls) /\ p \in 1..m.frags
    BY <1>1 DEF Client, IsSending
  <2>2. m.frags \in Nat \ {0} /\ m.xid \in Nat /\ m.no \in 1..Len(Sizes)
    BY <2>1, MessageSizes
  <2> HIDE DEF m, p
  <2>3. m.no \in Nat \ {0}
    BY <2>2, ConstantTypes
  <2>4. p \in Nat \ {0} /\ p <= m.frags /\ m.no <= Len(calls)
    BY <2>1, <2>2
  <2> QED BY <2>1, <2>2, <2>3, <2>4
<1>4. /\ conn' = [conn EXCEPT ![T.sock] = r2] /\ th' = [th EXCEPT ![t] = T2]
      /\ calls' = IF last THEN [calls EXCEPT ![m.no].sent = @ + 1] ELSE calls
      /\ xidlist' = IF last /\ T.pc = "resend"
                    THEN [xidlist EXCEPT ![t][m.xid].on = th[t].sock] ELSE xidlist
  BY <1>2 DEF SendFragment, Become
<1>5. f \in Seq(Pieces)
  BY <1>3, FragmentPieces
<1>6. /\ r2 \in Connections /\ r2.up = r.up \o f /\ r2.by = r.by /\ r2.broken = r.broken
      /\ r2.readbuf = r.readbuf /\ r2.packetbuf = r.packetbuf /\ r2.recordbuf = r.recordbuf
      /\ r2.down = r.down /\ r2.writebuf = r.writebuf /\ r2.cut = r.cut
  <2>1. r.up \in Seq(Pieces)
    BY <1>2, ConnectionFields
  <2>2. r.up \o f \in Seq(Pieces)
    BY <2>1, <1>5, Concatenated
  <2> HIDE DEF f
  <2> QED BY <2>2, <1>2 DEF Connections
<1>7. Asked(r2) = Asked(r) \o f
  <2>1. r.packetbuf \in Seq(Pieces) /\ r.readbuf \in Seq(Pieces) /\ r.up \in Seq(Pieces)
    BY <1>2, ConnectionFields
  <2>2. r.packetbuf \o r.readbuf \in Seq(Pieces)
    BY <2>1, Concatenated
  <2>3. ((r.packetbuf \o r.readbuf) \o r.up) \o f = (r.packetbuf \o r.readbuf) \o (r.up \o f)
    <3>1. PICK a \in Seq(Pieces), b \in Seq(Pieces), d \in Seq(Pieces) :
            a = r.packetbuf \o r.readbuf /\ b = r.up /\ d = f
      BY <2>1, <2>2, <1>5
    <3>2. (a \o b) \o d = a \o (b \o d)
      BY Associative, Zenon
    <3> QED BY ONLY <3>1, <3>2
  <2> HIDE DEF f, r2
  <2> QED BY <2>3, <1>6 DEF Asked
<1>8. /\ T2 \in ThreadStates /\ T2.sock = T.sock /\ T2.msg = m /\ T2.ended = T.ended
      /\ T2.answer = T.answer /\ T2.got = T.got /\ T2.want = T.want
      /\ last => T2.pc = AfterSend(T.pc)
      /\ ~last => T2.pc = T.pc /\ T2.part = p + 1
  <2>1. CASE last
    <3>1. T2 = [T EXCEPT !.pc = AfterSend(@)] /\ AfterSend(T.pc) \in {"add", "relisten"}
      BY <2>1 DEF AfterSend
    <3> HIDE DEF T2
    <3> QED BY <3>1, <2>1, <1>1 DEF ThreadStates
  <2>2. CASE ~last
    <3>1. T2 = [T EXCEPT !.part = p + 1] /\ p + 1 \in Nat
      BY <2>2, <1>3
    <3> HIDE DEF T2
    <3> QED BY <3>1, <2>2, <1>1 DEF ThreadStates
  <2> QED BY <2>1, <2>2
<1>9. Told(T2, r2) = Told(T, r)
  BY <1>6, <1>8 DEF Told
\* a call sent again is the one on the list
<1>10. T.pc = "resend" => m.xid \in DOMAIN X /\ X[m.xid].msg = m /\ m.xid = T.want
  BY <1>1 DEF Client
<1>11. /\ List(X2) /\ DOMAIN X2 = DOMAIN X
       /\ \A x \in DOMAIN X : X2[x].msg = X[x].msg /\ X2[x].rdata = X[x].rdata /\ X2[x].on <= Len(conn)
  <2>0. \A x \in DOMAIN X : X[x].on <= Len(conn)
    BY <1>1 DEF Client
  <2>1. CASE last /\ T.pc = "resend"
    <3>1. X2 = [X EXCEPT ![m.xid].on = T.sock]
      BY <2>1
    <3>2. T.sock \in Nat \ {0} /\ X[m.xid] \in Entries
      BY <1>1, <1>2, <1>10, <2>1 DEF List
    <3>3. [X[m.xid] EXCEPT !.on = T.sock] \in Entries
      BY <3>2 DEF Entries
    <3> HIDE DEF X2
    <3>4. DOMAIN X2 = DOMAIN X /\ X2[m.xid] = [X[m.xid] EXCEPT !.on = T.sock]
          /\ \A x \in DOMAIN X : x # m.xid => X2[x] = X[x]
      BY <3>1, <1>10, <2>1
    <3>5. X2[m.xid].msg = X[m.xid].msg /\ X2[m.xid].rdata = X[m.xid].rdata /\ X2[m.xid].on = T.sock
      BY <3>2, <3>4 DEF Entries
    <3>6. List(X2)
      BY <3>3, <3>4, <1>1 DEF List
    <3>7. \A x \in DOMAIN X : X2[x].msg = X[x].msg /\ X2[x].rdata = X[x].rdata
      BY <3>4, <3>5
    <3>8. T.sock <= Len(conn)
      BY <1>2
    <3>9. \A x \in DOMAIN X : X2[x].on <= Len(conn)
      BY <3>4, <3>5, <3>8, <2>0
    <3> QED BY <3>4, <3>6, <3>7, <3>9
  <2>2. CASE ~(last /\ T.pc = "resend")
    BY <2>0, <2>2, <1>1
  <2> QED BY <2>1, <2>2
<1>12. xidlist' = [xidlist EXCEPT ![t] = X2]
  <2>1. xidlist = [u \in Threads |-> xidlist[u]]
    BY StateFacts
  <2> QED BY <2>1, <1>4
<1>13. /\ calls' \in Seq(Asking) /\ Len(calls') = Len(calls)
       /\ \A n \in 1..Len(calls) : calls'[n].by = calls[n].by /\ calls'[n].cut = calls[n].cut
  <2>1. CASE last
    <3>1. calls \in Seq(Asking) /\ m.no \in 1..Len(calls)
      BY <1>3, StateFacts
    <3>2. PICK a \in Asking : a = calls[m.no]
      BY <3>1, ElementOfSeq
    <3>3. PICK a2 \in Asking : a2 = [a EXCEPT !.sent = @ + 1] /\ a2.by = a.by /\ a2.cut = a.cut
      <4>1. [a EXCEPT !.sent = @ + 1] = [by |-> a.by, sent |-> a.sent + 1, cut |-> a.cut]
        BY <3>2 DEF Asking
      <4>2. a.by \in Threads /\ a.sent + 1 \in Nat /\ a.cut \in BOOLEAN
        BY <3>2 DEF Asking
      <4>3. [by |-> a.by, sent |-> a.sent + 1, cut |-> a.cut] \in Asking
        BY <4>2 DEF Asking
      <4> QED BY <4>1, <4>3
    <3>4. calls' = [calls EXCEPT ![m.no] = a2]
      BY <2>1, <1>4, <3>2, <3>3
    <3>5. /\ calls' \in Seq(Asking) /\ Len(calls') = Len(calls) /\ calls'[m.no] = a2
          /\ \A n \in 1..Len(calls) : n # m.no => calls'[n] = calls[n]
      BY <3>1, <3>4, ExceptSeq
    <3> QED BY <3>2, <3>3, <3>5
  <2>2. CASE ~last
    BY <2>2, <1>4, StateFacts
  <2> QED BY <2>1, <2>2
<1>14. \A x \in DOMAIN X : X[x].rdata # None => X[x].msg # m
  <2>1. CASE T.pc = "resend"
    <3>1. X[m.xid].rdata = None
      BY <2>1, <1>1, <1>10 DEF Client
    <3>2. \A x \in DOMAIN X : X[x].msg.xid = x
      BY <1>1 DEF Client
    <3> QED BY <3>1, <3>2
  <2>2. CASE T.pc # "resend"
    BY <2>2, <1>1 DEF Client
  <2> QED BY <2>1, <2>2
<1> HIDE DEF T2, X2, r2, f
<1>15. ASSUME ~r.broken, Asks(r, Len(calls)), Link(T, X, lockLost, r, Len(calls), Cuts(r, CutBy(t)))
       PROVE  Asks(r2, Len(calls)) /\ Link(T2, X2, lockLost, r2, Len(calls), Cuts(r2, CutBy(t)))
  <2>1. \A y \in Range(Asked(r)) : y.msg = m => y.part < p
    BY <1>1, <1>15 DEF Link, SentSoFar
  <2>2. Asked(r2) = Asked(r) \o Fragment(m, p)
    BY <1>7 DEF f
  <2>3. Asks(r2, Len(calls))
    <3> HIDE DEF m, p, r
    <3> QED BY <2>1, <2>2, <1>2, <1>3, <1>6, <1>15, FragmentAsks
  <2>4. \/ T2.pc = T.pc /\ T2.part = p + 1 /\ p # m.frags
        \/ T2.pc = "add" /\ p = m.frags
        \/ T2.pc = "relisten" /\ p = m.frags /\ m.xid \in DOMAIN X /\ X[m.xid].msg = m
    BY <1>1, <1>8, <1>10 DEF AfterSend
  <2>5. T.msg = m /\ T.part = p
    OBVIOUS
  <2>6. /\ T2 \in ThreadStates /\ T2.msg = m /\ r2 \in Connections /\ r2.recordbuf = r.recordbuf
        /\ DOMAIN X2 = DOMAIN X
        /\ \A x \in DOMAIN X : X2[x].msg = X[x].msg /\ X2[x].rdata = X[x].rdata
    BY <1>6, <1>8, <1>11
  <2>7. T \in ThreadStates /\ IsSending(T) /\ r \in Connections /\ m \in Messages /\ p \in Nat \ {0}
        /\ p <= m.frags /\ m.no <= Len(calls)
    BY <1>1, <1>2, <1>3
  <2>8. Link(T, X, lockLost, r, Len(calls), Cuts(r, CutBy(t)))
    BY <1>15
  <2>9. Link(T2, X2, lockLost, r2, Len(calls), Cuts(r2, CutBy(t)))
    <3> HIDE DEF m, p, r, T, X
    <3>1. Told(T2, r2) = Told(T, r) /\ \A x \in DOMAIN X : X[x].rdata # None => X[x].msg # m
      BY <1>9, <1>14
    <3>2. FragmentSent(T, T2, X, X2, r, r2, m, p, Len(calls))
      BY ONLY <2>2, <2>4, <2>5, <2>6, <2>7, <3>1 DEF FragmentSent
    <3>3. /\ T \in ThreadStates /\ T2 \in ThreadStates /\ r \in Connections /\ r2 \in Connections
          /\ m \in Messages /\ p \in Nat \ {0}
      BY ONLY <2>6, <2>7
    <3>4. PICK C : C = Cuts(r, CutBy(t)) /\ C = Cuts(r2, CutBy(t))
      BY <1>6 DEF Cuts
    <3>5. Link(T, X, lockLost, r, Len(calls), C)
      BY <2>8, <3>4
    <3>6. Link(T2, X2, lockLost, r2, Len(calls), C)
      BY ONLY <3>2, <3>3, <3>5, FragmentLink
    <3> QED BY <3>4, <3>6
  <2> QED BY <2>3, <2>9
<1>16. Client(T2, X2, Len(calls), Len(conn), CutBy(t))
  <2>1. CASE last /\ T.pc = "resend"
    <3>1. T2.pc = "relisten"
      BY <2>1, <1>8 DEF AfterSend
    <3> QED BY <3>1, <2>1, <1>1, <1>3, <1>8, <1>11 DEF Client, IsSending, NoSocket
  <2>2. CASE last /\ T.pc # "resend"
    <3>1. T2.pc = "add"
      BY <2>2, <1>8 DEF AfterSend
    <3> QED BY <3>1, <2>2, <1>1, <1>3, <1>8, <1>11 DEF Client, IsSending, NoSocket
  <2>3. CASE ~last
    <3>1. T2.part \in 1..m.frags
      BY <2>3, <1>3, <1>8
    <3> QED BY <3>1, <2>3, <1>1, <1>3, <1>8, <1>11 DEF Client, IsSending, NoSocket
  <2> QED BY <2>1, <2>2, <2>3
<1>17. UNCHANGED <<xid, lockLost, alive>> /\ faults' \in Nat /\ ran' \in Seq(Nat) /\ Len(ran') = Len(ran)
  BY <1>1, StateFacts
<1>18. T2.ended # "stray" /\ (T2.answer # None => Fits(T2.answer, CutBy(t)))
  BY <1>1, <1>8
<1>19. conn' = [conn EXCEPT ![T.sock] = r2] /\ th' = [th EXCEPT ![t] = T2]
  BY <1>4 DEF T2, r2, f
<1>20. \A u \in Threads : CutBy(u)' = CutBy(u)
  <2>1. Len(calls) <= Len(calls') /\ Len(calls) \in Nat
    BY <1>13, StateFacts
  <2> QED BY <2>1, <1>13, StateFacts, CutsKept
<1>21. Caller(T2, t, calls')
  <2> SUFFICES ASSUME T2.pc = "send" PROVE calls'[m.no].by = t
    BY <1>8 DEF Caller
  <2>1. T.pc = "send"
    BY <1>8, <1>1 DEF AfterSend
  <2>2. calls[m.no].by = t /\ m.no \in 1..Len(calls)
    BY <2>1, ThreadFacts DEF Caller, Client
  <2> QED BY <2>2, <1>13
<1> QED BY <1>1, <1>2, <1>6, <1>8, <1>11, <1>12, <1>13, <1>15, <1>16, <1>17, <1>18, <1>19, <1>20, <1>21,
     ClientUpdate

(* A record that could not be sent starts again on a new connection.         *)
LEMMA SafeSendError ==
  ASSUME SafeInv, NEW t \in Threads, SendError(t)
  PROVE  SafeInv'
<1> DEFINE T == th[t]
           X == xidlist[t]
<1>1. /\ T \in ThreadStates /\ List(X) /\ T.pc \in {"send", "retry", "resend"}
      /\ Client(T, X, Len(calls), Len(conn), CutBy(t)) /\ T.ended # "stray"
      /\ UNCHANGED <<xid, lockLost, xidlist, alive, calls, ran, faults>> /\ faults' \in Nat
  BY ThreadFacts, StateFacts DEF SendError, Sending
<1>2. T.got = <<>> /\ T.sock <= Len(conn)
  BY <1>1 DEF Client
<1>3. CASE T.pc = "send"
  <2> DEFINE T2 == [T EXCEPT !.pc = "retry", !.part = ResumeAt(t)]
  <2>1. Reconnect(t, T2)
    BY <1>3 DEF SendError
  <2>2. /\ T2 \in ThreadStates /\ T2.pc = "retry" /\ T2.part = 1 /\ T2.got = T.got /\ T2.sock = T.sock
        /\ T2.msg = T.msg /\ T2.ended = T.ended /\ T2.answer = T.answer
    BY <1>1 DEF ResumeAt, ThreadStates
  <2> HIDE DEF T2
  <2>3. Client(T2, X, Len(calls), Len(conn), CutBy(t))
    <3>1. T.msg \in Messages
      BY <1>1 DEF Client
    <3>2. 1 \in 1..T.msg.frags
      BY <3>1, MessageSizes
    <3> QED BY <3>2, <2>2, <1>1, <1>3 DEF Client, IsSending
  <2> QED BY <2>1, <2>2, <2>3, <1>1, <1>2, ReconnectStep
<1>4. CASE T.pc # "send"
  <2> DEFINE T2 == Leaving(T, "error")
  <2>1. Reconnect(t, T2)
    BY <1>4 DEF SendError, ReconnectAndRaise
  <2>2. /\ T2 \in ThreadStates /\ T2.pc = "idle" /\ T2.got = <<>> /\ T2.sock = T.sock
        /\ T2.ended = "error" /\ T2.answer = T.answer
    BY <1>1, Left
  <2> HIDE DEF T2
  <2>3. Client(T2, X, Len(calls), Len(conn), CutBy(t))
    BY <2>2, <1>1, <1>2, ClientIdle
  <2> QED BY <2>1, <2>2, <2>3, <1>1, ReconnectStep
<1> QED BY <1>3, <1>4

(* A thread has read k pieces more, and forgets what it has read.            *)
LEMMA GotForgotten ==
  ASSUME NEW T \in ThreadStates, NEW T2 \in ThreadStates, NEW r \in Connections, NEW r2 \in Connections,
         T2.got = <<>>, r2.writebuf = r.writebuf, NEW k \in 0..Len(r.down),
         r2.down = SubSeq(r.down, k + 1, Len(r.down))
  PROVE  /\ T.got \o SubSeq(r.down, 1, k) \in Seq(Pieces) /\ Told(T2, r2) \in Seq(Pieces)
         /\ Told(T, r) = (T.got \o SubSeq(r.down, 1, k)) \o Told(T2, r2)
<1>1. /\ T.got \in Seq(Pieces) /\ r.down \in Seq(Pieces) /\ r.writebuf \in Seq(Pieces) /\ Len(r.down) \in Nat
      /\ Told(T2, r2) \in Seq(Pieces) /\ r2.down \in Seq(Pieces)
  BY ConnectionFields, ThreadFields, Streams
<1> DEFINE a == SubSeq(r.down, 1, k)
           b == r2.down
<1>2. a \in Seq(Pieces)
  <2>1. \A i \in 1..k : r.down[i] \in Pieces
    BY <1>1, ElementOfSeq
  <2> QED BY <1>1, <2>1, SubSeqProperties
<1>3. a \o b = r.down
  <2>1. SubSeq(r.down, 1, k) \o SubSeq(r.down, k + 1, Len(r.down)) = SubSeq(r.down, 1, Len(r.down))
    <3>1. 1 \in 1..Len(r.down) + 1 /\ k \in (1 - 1)..Len(r.down) /\ Len(r.down) \in k..Len(r.down)
      BY <1>1
    <3> QED BY ONLY <1>1, <3>1, ConcatAdjacentSubSeq
  <2>2. SubSeq(r.down, 1, Len(r.down)) = r.down
    BY <1>1, SubSeqFull
  <2> QED BY <2>1, <2>2
<1> HIDE DEF a, b
<1>4. Told(T2, r2) = b \o r.writebuf
  <2>1. PICK e \in Seq(Pieces) : e = <<>>
    BY EmptySeq
  <2>2. e \o b = b
    BY <1>1, <2>1, ConcatEmptySeq DEF b
  <2> QED BY <2>1, <2>2 DEF Told, b
<1>5. T.got \o (a \o b) = (T.got \o a) \o b
  <2>1. T.got \in Seq(Pieces) /\ a \in Seq(Pieces) /\ b \in Seq(Pieces)
    BY <1>1, <1>2 DEF b
  <2> QED BY <2>1, Associative, Zenon
<1>6. T.got \o a \in Seq(Pieces)
  BY <1>1, <1>2, Concatenated
<1>7. ((T.got \o a) \o b) \o r.writebuf = (T.got \o a) \o (b \o r.writebuf)
  BY <1>1, <1>6, Associative DEF b
<1>8. Told(T, r) = (T.got \o a) \o Told(T2, r2)
  BY <1>3, <1>4, <1>5, <1>7 DEF Told
<1> QED BY <1>1, <1>6, <1>8 DEF a

(* A connection on which less of the replies is left.                        *)
LEMMA LeaveConnection ==
  ASSUME NEW C, NEW T \in ThreadStates, NEW T2 \in ThreadStates, NEW X, NEW lost, NEW lost2,
         NEW r \in Connections, NEW r2 \in Connections, NEW n, NEW k \in 0..Len(r.down),
         T2.got = <<>>, r2.writebuf = r.writebuf, r2.recordbuf = r.recordbuf, Asked(r2) = Asked(r),
         r2.down = SubSeq(r.down, k + 1, Len(r.down)),
         T2.pc \in {"idle", "listen"}, lost => lost2,
         (T.pc # "add" /\ (T.pc = "idle" => ~lost \/ T2.pc = "idle")) \/ (T2.pc = "idle" /\ lost2),
         Link(T, X, lost, r, n, C)
  PROVE  Link(T2, X, lost2, r2, n, C)
<1>0. /\ T.got \o SubSeq(r.down, 1, k) \in Seq(Pieces)
      /\ Told(T, r) = (T.got \o SubSeq(r.down, 1, k)) \o Told(T2, r2)
  <2>1. /\ T \in ThreadStates /\ T2 \in ThreadStates /\ r \in Connections /\ r2 \in Connections
        /\ T2.got = <<>> /\ r2.writebuf = r.writebuf /\ k \in 0..Len(r.down)
        /\ r2.down = SubSeq(r.down, k + 1, Len(r.down))
    OBVIOUS
  <2> QED BY ONLY <2>1, GotForgotten
<1>1. PICK d \in Seq(Pieces) : Told(T, r) = d \o Told(T2, r2)
  BY ONLY <1>0
<1>2. Told(T2, r2) \in Seq(Pieces)
  BY Streams
<1> QED BY <1>1, <1>2, LeaveLink

(* Nothing is taken off a sequence.                                          *)
LEMMA NothingTaken ==
  ASSUME NEW s \in Seq(Pieces)
  PROVE  SubSeq(s, 0 + 1, Len(s)) = s /\ 0 \in 0..Len(s)
<1>1. Len(s) \in Nat
  BY LenProperties
<1>2. SubSeq(s, 1, Len(s)) = s
  BY SubSeqFull
<1> QED BY <1>1, <1>2

(* A thread that was sending or listening raises.                            *)
LEMMA RaiseStep ==
  ASSUME SafeInv, NEW t \in Threads, NEW r2 \in Connections, NEW k \in 0..Len(Sock(t).down),
         th[t].sock # NoSocket, th[t].pc \notin {"add", "idle"},
         NEW e \in {"error", "timeout", "garbled"}, Raise(t, e),
         conn' = [conn EXCEPT ![th[t].sock] = r2],
         r2.by = Sock(t).by, r2.broken = Sock(t).broken, r2.recordbuf = Sock(t).recordbuf,
         r2.writebuf = Sock(t).writebuf, r2.up = Sock(t).up, r2.readbuf = Sock(t).readbuf,
         r2.packetbuf = Sock(t).packetbuf, r2.cut = Sock(t).cut,
         r2.down = SubSeq(Sock(t).down, k + 1, Len(Sock(t).down)),
         UNCHANGED <<xid, lockLost, xidlist, alive, calls, ran>>, faults' \in Nat
  PROVE  SafeInv'
<1> DEFINE T == th[t]
           X == xidlist[t]
           r == Sock(t)
           T2 == Leaving(T, e)
<1>1. /\ T \in ThreadStates /\ List(X) /\ Client(T, X, Len(calls), Len(conn), CutBy(t))
      /\ (T.answer # None => Fits(T.answer, CutBy(t)))
  BY ThreadFacts
<1>2. r = conn[T.sock] /\ r \in Connections
  BY SockFacts
<1>3. T2 \in ThreadStates /\ T2.pc = "idle" /\ T2.got = <<>> /\ T2.sock = T.sock
      /\ T2.ended = e /\ T2.answer = T.answer
  <2>1. e \in {"none", "error", "timeout", "inuse", "returned", "garbled", "stray"}
    OBVIOUS
  <2>2. T \in ThreadStates
    BY <1>1
  <2> QED BY ONLY <2>1, <2>2, Left
<1>4. th' = [th EXCEPT ![t] = T2]
  BY DEF Raise, Become
<1> HIDE DEF T2
<1>5. Client(T2, X, Len(calls), Len(conn), CutBy(t))
  <2>1. T.sock <= Len(conn)
    BY <1>1 DEF Client
  <2> QED BY <2>1, <1>1, <1>3, ClientIdle
<1>6. Asked(r2) = Asked(r)
  BY DEF Asked
<1>7. ASSUME Asks(r, Len(calls)), Link(T, X, lockLost, r, Len(calls), Cuts(r, CutBy(t)))
      PROVE  Asks(r2, Len(calls)) /\ Link(T2, X, lockLost, r2, Len(calls), Cuts(r2, CutBy(t)))
  <2>1. Asks(r2, Len(calls))
    BY <1>6, <1>7, SameAsks
  <2>2. T.pc # "add" /\ T.pc # "idle" /\ (lockLost => lockLost) /\ T2.pc \in {"idle", "listen"}
    BY <1>3
  <2> HIDE DEF r, T, X
  <2>3. r2.writebuf = r.writebuf /\ r2.recordbuf = r.recordbuf
        /\ r2.down = SubSeq(r.down, k + 1, Len(r.down)) /\ k \in 0..Len(r.down)
    BY DEF r
  <2>4. Link(T2, X, lockLost, r2, Len(calls), Cuts(r2, CutBy(t)))
    <3>1. T \in ThreadStates /\ T2 \in ThreadStates /\ r \in Connections /\ r2 \in Connections
          /\ T2.got = <<>>
      BY <1>1, <1>2, <1>3
    <3>2. (T.pc # "add" /\ (T.pc = "idle" => ~lockLost \/ T2.pc = "idle")) \/ (T2.pc = "idle" /\ lockLost)
      BY <2>2
    <3>3. PICK C : C = Cuts(r, CutBy(t)) /\ C = Cuts(r2, CutBy(t))
      BY DEF Cuts, r
    <3>4. Link(T, X, lockLost, r, Len(calls), C)
      BY <1>7, <3>3
    <3>5. Link(T2, X, lockLost, r2, Len(calls), C)
      BY <2>2, <2>3, <3>1, <3>2, <3>4, <1>6, LeaveConnection
    <3> QED BY <3>3, <3>5
  <2> QED BY <2>1, <2>4
<1>8. xidlist' = [xidlist EXCEPT ![t] = X]
  BY StateFacts
<1>9. /\ UNCHANGED <<xid, lockLost, alive>> /\ ran' \in Seq(Nat) /\ Len(ran') = Len(ran)
      /\ calls' \in Seq(Asking) /\ Len(calls') = Len(calls)
  BY StateFacts
<1>10. T2.ended # "stray" /\ (T2.answer # None => Fits(T2.answer, CutBy(t)))
  BY <1>1, <1>3
<1>11. /\ t \in Threads /\ T2 \in ThreadStates /\ List(X) /\ r \in Connections /\ r2 \in Connections
       /\ th[t].sock # NoSocket /\ r = conn[th[t].sock] /\ r2.by = r.by /\ r2.broken = r.broken
       /\ conn' = [conn EXCEPT ![th[t].sock] = r2] /\ T2.sock = th[t].sock /\ faults' \in Nat
  BY <1>1, <1>2, <1>3
<1>12. ~r.broken /\ Asks(r, Len(calls)) /\ Link(th[t], xidlist[t], lockLost, r, Len(calls), Cuts(r, CutBy(t))) =>
         Asks(r2, Len(calls)) /\ Link(T2, X, lockLost, r2, Len(calls), Cuts(r2, CutBy(t)))
  BY <1>7
<1>13. SafeInv
  OBVIOUS
<1>14. /\ \A u \in Threads : CutBy(u)' = CutBy(u)
       /\ \A n \in 1..Len(calls) : calls'[n].by = calls[n].by
  BY SameCut
<1>15. Caller(T2, t, calls') /\ T2.ended # "stray"
  BY <1>3 DEF Caller
<1> HIDE DEF r, X, T
<1> QED BY ONLY <1>4, <1>5, <1>8, <1>9, <1>10, <1>11, <1>12, <1>13, <1>14, <1>15, ClientUpdate

(* A thread reconnects and raises.                                           *)
LEMMA ReconnectAndRaiseStep ==
  ASSUME SafeInv, NEW t \in Threads, NEW e \in {"error", "timeout"}, ReconnectAndRaise(t, e),
         UNCHANGED <<xid, lockLost, xidlist, alive, calls, ran>>, faults' \in Nat
  PROVE  SafeInv'
<1> DEFINE T == th[t]
           T2 == Leaving(T, e)
<1>1. Reconnect(t, T2)
  BY DEF ReconnectAndRaise
<1>2. /\ T \in ThreadStates /\ Client(T, xidlist[t], Len(calls), Len(conn), CutBy(t))
  BY ThreadFacts
<1>3. /\ T2 \in ThreadStates /\ T2.pc = "idle" /\ T2.got = <<>> /\ T2.sock = T.sock
      /\ T2.ended = e /\ T2.answer = T.answer
  <2>1. e \in {"none", "error", "timeout", "inuse", "returned", "garbled", "stray"}
    OBVIOUS
  <2>2. T \in ThreadStates
    BY <1>2
  <2> QED BY ONLY <2>1, <2>2, Left
<1> HIDE DEF T2
<1>4. Client(T2, xidlist[t], Len(calls), Len(conn), CutBy(t))
  <2>1. T.sock <= Len(conn)
    BY <1>2 DEF Client
  <2> QED BY <2>1, <1>2, <1>3, ClientIdle
<1> QED BY <1>1, <1>3, <1>4, ReconnectStep

(* What is sent comes after what was asked.                                  *)
LEMMA UpAppended ==
  ASSUME NEW r \in Connections, NEW r2 \in Connections, NEW f \in Seq(Pieces),
         r2.packetbuf = r.packetbuf, r2.readbuf = r.readbuf, r2.up = r.up \o f
  PROVE  Asked(r2) = Asked(r) \o f
<1>1. r.packetbuf \in Seq(Pieces) /\ r.readbuf \in Seq(Pieces) /\ r.up \in Seq(Pieces)
  BY ConnectionFields
<1>2. r.packetbuf \o r.readbuf \in Seq(Pieces)
  BY <1>1, Concatenated
<1>3. PICK a \in Seq(Pieces), b \in Seq(Pieces) : a = r.packetbuf \o r.readbuf /\ b = r.up
  BY <1>1, <1>2
<1>4. (a \o b) \o f = a \o (b \o f)
  BY Associative, Zenon
<1> QED BY <1>3, <1>4 DEF Asked

(* What a time-out leaves of a fragment: its first bytes, if any.            *)
LEMMA CutPieces ==
  ASSUME NEW m \in Messages, NEW p \in Nat \ {0}, NEW k \in {0, 1}
  PROVE  LET f == SubSeq(Fragment(m, p), 1, k)
         IN  /\ f \in Seq(Pieces) /\ Len(f) = k /\ InOrder(f)
             /\ \A y \in Range(f) : y.msg = m /\ y.part = p /\ y.half = 1
             /\ k = 1 => f[1].msg = m /\ f[1].part = p /\ f[1].half = 1
<1> DEFINE g == Fragment(m, p)
           f == SubSeq(g, 1, k)
<1>1. g \in Seq(Pieces) /\ Len(g) = 2 /\ g[1].msg = m /\ g[1].part = p /\ g[1].half = 1
  BY FragmentPieces
<1> HIDE DEF g
<1>2. f \in Seq(Pieces) /\ Len(f) = k /\ \A i \in 1..k : f[i] = g[i]
  <2>1. k \in 0..Len(g)
    BY <1>1
  <2> QED BY <2>1, <1>1, PacketTaken
<1> HIDE DEF f
<1>3. \A i \in 1..Len(f) : i = 1 /\ f[i] = g[1] /\ k = 1
  BY <1>2
<1>4. InOrder(f)
  BY <1>3 DEF InOrder
<1>5. \A y \in Range(f) : y.msg = m /\ y.part = p /\ y.half = 1
  BY <1>1, <1>2, <1>3, InRange
<1>6. k = 1 => f[1] = g[1]
  BY <1>2
<1> QED BY <1>1, <1>2, <1>4, <1>5, <1>6 DEF f, g

(* The first bytes of a fragment are no end of a call.                       *)
LEMMA BegunLink ==
  ASSUME NEW C, NEW T, NEW X, NEW lost, NEW r, NEW r2, NEW n, NEW m,
         \A y \in Range(Asked(r2)) : y \in Range(Asked(r)) \/ (y.msg = m /\ y.half = 1),
         ~Answered(T, r, m), Told(T, r2) = Told(T, r), r2.recordbuf = r.recordbuf,
         ~IsSending(T), Link(T, X, lost, r, n, C)
  PROVE  Link(T, X, lost, r2, n, C)
<1>1. \A q : Answered(T, r2, q) <=> Answered(T, r, q)
  BY DEF Answered
<1>2. \A y \in Range(Asked(r2)) : Ends(y, y.msg.frags) => y \in Range(Asked(r))
  BY DEF Ends
<1>3. AllKnown(T, X, lost, r2, C)
  BY <1>2 DEF Link, AllKnown
<1>4. AskedOrAnswered(T, r2, C)
  BY <1>1 DEF Link, AskedOrAnswered
<1>5. Tells(T, r2)
  BY DEF Link, Tells
<1>6. KeptOnce(T, X, r2, C)
  BY <1>1, <1>2 DEF Link, KeptOnce
<1>7. SentSoFar(T, r2) /\ Made(T, r2, n)
  BY <1>1 DEF Link, SentSoFar, Made
<1> QED BY <1>3, <1>4, <1>5, <1>6, <1>7 DEF Link

(* A call that is given up leaves the list right for the calls on it.        *)
LEMMA ClientCut ==
  ASSUME NEW C, NEW T, NEW T2, NEW X, List(X), NEW n, NEW k, NEW no,
         T.pc = "send", T2.pc = "idle", T2.got = <<>>, T2.sock = T.sock,
         T.msg.no = no, Client(T, X, n, k, C)
  PROVE  Client(T2, X, n, k, C \union {no})
<1>1. T.msg \in Messages /\ \A x \in DOMAIN X : X[x].msg # T.msg /\ X[x].msg \in Messages
  BY DEF Client, List, Entries
<1>2. \A x \in DOMAIN X : X[x].msg.no # no
  BY <1>1, MessageSizes
<1>3. \A x : x \notin Xids(C \union {no}) => x \notin Xids(C)
  BY DEF Xids
<1>4. T2.sock <= k
  BY DEF Client
<1>5. \A x \in DOMAIN X :
        /\ X[x].msg.xid = x /\ X[x].msg.no \in (1..n) \ (C \union {no})
        /\ X[x].rdata # None => X[x].rdata.xid = x /\ (x \notin Xids(C \union {no}) => X[x].rdata = X[x].msg)
        /\ X[x].on <= k
  BY <1>2, <1>3 DEF Client
<1> QED BY <1>4, <1>5 DEF Client, IsSending

(* The call whose sending was cut is one more of its thread's.               *)
LEMMA CutMade ==
  ASSUME SafeInv, NEW t \in Threads, th[t].pc = "send", NEW begun \in BOOLEAN,
         calls' = [calls EXCEPT ![th[t].msg.no].cut = begun]
  PROVE  /\ calls' \in Seq(Asking) /\ Len(calls') = Len(calls)
         /\ \A n \in 1..Len(calls) : calls'[n].by = calls[n].by
         /\ CutBy(t)' = CutBy(t) \union (IF begun THEN {th[t].msg.no} ELSE {})
         /\ \A u \in Threads : u # t => CutBy(u)' = CutBy(u)
<1>1. PICK no : no = th[t].msg.no
  OBVIOUS
<1>2. no \in 1..Len(calls) /\ no \notin CutBy(t) /\ calls[no].by = t
  BY <1>1, ThreadFacts DEF Client, Caller
<1>3. calls \in Seq(Asking) /\ DOMAIN calls = 1..Len(calls)
  BY StateFacts, LenProperties
<1>4. PICK a \in Asking : a = calls[no]
  BY <1>2, <1>3, ElementOfSeq
<1>5. PICK a2 \in Asking : a2 = [a EXCEPT !.cut = begun] /\ a2.by = a.by /\ a2.cut = begun
  <2>1. [a EXCEPT !.cut = begun] \in Asking /\ [a EXCEPT !.cut = begun].by = a.by
        /\ [a EXCEPT !.cut = begun].cut = begun
    BY DEF Asking
  <2> QED BY <2>1
<1>6. calls' = [calls EXCEPT ![no] = a2]
  BY <1>1, <1>4, <1>5
<1>7. /\ calls' \in Seq(Asking) /\ Len(calls') = Len(calls) /\ calls'[no] = a2
      /\ \A n \in 1..Len(calls) : n # no => calls'[n] = calls[n]
  <2>1. no \in 1..Len(calls) /\ calls \in Seq(Asking) /\ a2 \in Asking
    BY <1>2, <1>3
  <2> QED BY ONLY <2>1, <1>6, ExceptSeq
<1>8. DOMAIN calls' = 1..Len(calls)
  BY <1>7, LenProperties
<1>9. ~a.cut
  BY <1>2, <1>3, <1>4 DEF CutBy
<1>10. \A n \in 1..Len(calls) : calls'[n].by = calls[n].by
  BY <1>4, <1>5, <1>7
<1>11. \A n \in 1..Len(calls) : calls'[n].cut <=> calls[n].cut \/ (n = no /\ begun)
  <2> SUFFICES ASSUME NEW n \in 1..Len(calls) PROVE calls'[n].cut <=> calls[n].cut \/ (n = no /\ begun)
    OBVIOUS
  <2>1. CASE n = no
    BY <2>1, <1>4, <1>5, <1>7, <1>9
  <2>2. CASE n # no
    BY <2>2, <1>7
  <2> QED BY <2>1, <2>2
<1>12. CutBy(t)' = CutBy(t) \union (IF begun THEN {no} ELSE {})
  <2> SUFFICES ASSUME NEW n
               PROVE  n \in CutBy(t)' <=> n \in CutBy(t) \/ (begun /\ n = no)
    OBVIOUS
  <2> QED BY <1>2, <1>3, <1>8, <1>10, <1>11 DEF CutBy
<1>13. ASSUME NEW u \in Threads, u # t PROVE CutBy(u)' = CutBy(u)
  <2> SUFFICES ASSUME NEW n PROVE n \in CutBy(u)' <=> n \in CutBy(u)
    OBVIOUS
  <2> QED BY <1>2, <1>3, <1>8, <1>10, <1>11, <1>13 DEF CutBy
<1> QED BY <1>1, <1>7, <1>10, <1>12, <1>13

(* A time-out leaves the beginning of a record behind, or a connection.      *)
LEMMA SafeSendTimeout ==
  ASSUME SafeInv, NEW t \in Threads, SendTimeout(t)
  PROVE  SafeInv'
<1>1. /\ th[t].pc \in {"send", "retry", "resend"} /\ ~Gone(t) /\ faults' \in Nat
      /\ UNCHANGED <<xid, lockLost, xidlist, alive, ran>>
  BY StateFacts DEF SendTimeout, Sending, Fault
<1>2. CASE th[t].pc = "send"
  <2>1. th[t].sock # NoSocket
    BY <1>1 DEF Gone, Usable
  <2>2. PICK r \in Connections : r = Sock(t) /\ r = conn[th[t].sock]
    BY <2>1, SockFacts
  <2> DEFINE X == xidlist[t]
  <2>3. PICK T \in ThreadStates :
          /\ T = th[t] /\ X = xidlist[t] /\ List(X) /\ T.pc = "send"
          /\ Client(T, X, Len(calls), Len(conn), CutBy(t))
          /\ (T.answer # None => Fits(T.answer, CutBy(t)))
    BY <1>2, ThreadFacts
  <2> HIDE DEF X
  <2>4. PICK m \in Messages, p \in Nat \ {0} :
          m = T.msg /\ p = T.part /\ m.no \in (1..Len(calls)) \ CutBy(t) /\ p <= m.frags /\ m.frags \in Nat
    <3>1. T.msg \in Messages /\ T.part \in 1..T.msg.frags /\ T.msg.no \in (1..Len(calls)) \ CutBy(t)
      BY <2>3 DEF Client, IsSending
    <3>2. T.msg.frags \in Nat \ {0}
      BY <3>1, MessageSizes
    <3> QED BY <3>1, <3>2
  <2>5. PICK k \in {0, 1} :
          LET begun == th[t].part > 1 \/ k > 0
          IN  /\ conn' = [conn EXCEPT ![th[t].sock].up = @ \o SubSeq(Fragment(th[t].msg, th[t].part), 1, k),
                                   ![th[t].sock].cut = @ \/ begun]
              /\ calls' = [calls EXCEPT ![th[t].msg.no].cut = begun]
              /\ Raise(t, "timeout")
    BY <1>2 DEF SendTimeout
  <2>6. PICK begun \in BOOLEAN :
          /\ conn' = [conn EXCEPT ![th[t].sock].up = @ \o SubSeq(Fragment(th[t].msg, th[t].part), 1, k),
                               ![th[t].sock].cut = @ \/ begun]
          /\ calls' = [calls EXCEPT ![th[t].msg.no].cut = begun]
    <3> DEFINE b == th[t].part > 1 \/ k > 0
    <3>1. b \in BOOLEAN
      BY Zenon
    <3> WITNESS b \in BOOLEAN
    <3> QED BY <2>5
  <2>7. PICK f \in Seq(Pieces) :
          /\ f = SubSeq(Fragment(m, p), 1, k) /\ Len(f) = k /\ InOrder(f)
          /\ \A y \in Range(f) : y.msg = m /\ y.part = p /\ y.half = 1
    <3>1. PICK f : f = SubSeq(Fragment(m, p), 1, k)
      OBVIOUS
    <3>2. /\ f \in Seq(Pieces) /\ Len(f) = k /\ InOrder(f)
          /\ \A y \in Range(f) : y.msg = m /\ y.part = p /\ y.half = 1
      BY <3>1, CutPieces
    <3> QED BY <3>1, <3>2
  <2>8. PICK r2 \in Connections :
          /\ r2 = [r EXCEPT !.up = @ \o f, !.cut = @ \/ begun]
          /\ r2.by = r.by /\ r2.broken = r.broken /\ r2.recordbuf = r.recordbuf
          /\ r2.writebuf = r.writebuf /\ r2.down = r.down /\ r2.readbuf = r.readbuf
          /\ r2.packetbuf = r.packetbuf /\ r2.up = r.up \o f /\ (r2.cut <=> r.cut \/ begun)
    <3>1. r.up \o f \in Seq(Pieces) /\ (r.cut \/ begun) \in BOOLEAN
      BY ConnectionFields, Concatenated
    <3> DEFINE q == r.up \o f
               b == r.cut \/ begun
    <3> HIDE DEF q, b
    <3>2. PICK r2 : r2 = [r EXCEPT !.up = q, !.cut = b]
      OBVIOUS
    <3>3. /\ r2 \in Connections /\ r2.up = q /\ r2.cut = b
          /\ r2.by = r.by /\ r2.broken = r.broken /\ r2.recordbuf = r.recordbuf
          /\ r2.writebuf = r.writebuf /\ r2.down = r.down /\ r2.readbuf = r.readbuf
          /\ r2.packetbuf = r.packetbuf
      BY <3>1, <3>2 DEF Connections, q, b
    <3> QED BY <3>2, <3>3 DEF q, b
  <2>9. conn' = [conn EXCEPT ![th[t].sock] = r2]
    <3>1. f = SubSeq(Fragment(th[t].msg, th[t].part), 1, k)
      BY <2>3, <2>4, <2>7
    <3>2. conn' = [conn EXCEPT ![th[t].sock].up = @ \o f, ![th[t].sock].cut = @ \/ begun]
      BY ONLY <2>6, <3>1, Zenon
    <3> DEFINE s == th[t].sock
    <3>3. s \in DOMAIN conn
      BY <2>1, SockFacts, LenProperties DEF TypeInv, SafeInv
    <3>4. conn' = [conn EXCEPT ![s] = [conn[s] EXCEPT !.up = conn[s].up \o f, !.cut = conn[s].cut \/ begun]]
      <4> HIDE DEF s
      <4> QED BY <3>2, <3>3 DEF s
    <3> QED BY ONLY <3>4, <2>2, <2>8
  <2>10. /\ calls' \in Seq(Asking) /\ Len(calls') = Len(calls)
         /\ \A n \in 1..Len(calls) : calls'[n].by = calls[n].by
         /\ CutBy(t)' = CutBy(t) \union (IF begun THEN {m.no} ELSE {})
         /\ \A u \in Threads : u # t => CutBy(u)' = CutBy(u)
    <3>1. calls' = [calls EXCEPT ![th[t].msg.no].cut = begun]
      BY <2>6
    <3> QED BY <3>1, <1>2, <2>3, <2>4, CutMade
  <2>11. PICK C2 : C2 = CutBy(t) \union (IF begun THEN {m.no} ELSE {}) /\ CutBy(t)' = C2 /\ CutBy(t) \subseteq C2
    BY <2>10
  <2>12. PICK T2 \in ThreadStates :
           /\ T2 = Leaving(T, "timeout") /\ T2.pc = "idle" /\ T2.got = <<>> /\ T2.sock = T.sock
           /\ T2.ended = "timeout" /\ T2.answer = T.answer
    <3>1. "timeout" \in {"none", "error", "timeout", "inuse", "returned", "garbled", "stray"}
      OBVIOUS
    <3> QED BY <3>1, Left
  <2>13. th' = [th EXCEPT ![t] = T2]
    BY <2>3, <2>5, <2>12 DEF Raise, Become
  <2>14. Client(T2, X, Len(calls), Len(conn), C2)
    <3>1. CASE begun
      <4>1. Client(T2, X, Len(calls), Len(conn), CutBy(t) \union {m.no})
        BY <2>3, <2>4, <2>12, ClientCut
      <4> QED BY <3>1, <4>1, <2>11
    <3>2. CASE ~begun
      <4>1. C2 = CutBy(t)
        BY <3>2, <2>11
      <4>2. T2.sock <= Len(conn)
        BY <2>3, <2>12 DEF Client
      <4> QED BY <4>1, <4>2, <2>3, <2>12, ClientIdle
    <3> QED BY <3>1, <3>2
  <2>15. PICK n \in Nat : n = Len(calls)
    BY StateFacts
  <2>16. ASSUME ~r.broken, Asks(r, n), Link(T, X, lockLost, r, n, Cuts(r, CutBy(t)))
         PROVE  Asks(r2, n) /\ Link(T2, X, lockLost, r2, n, Cuts(r2, C2))
    <3>1. Asked(r2) = Asked(r) \o f
      BY <2>8, UpAppended
    <3>2. Asked(r) \in Seq(Pieces)
      BY AskedType
    <3>3. /\ \A y \in Range(Asked(r)) : y.msg = m => y.part < p
          /\ ~Answered(T, r, m)
      BY <2>3, <2>4, <2>16 DEF Link, SentSoFar, IsSending
    <3>4. \A y : y \in Range(Asked(r2)) <=> y \in Range(Asked(r)) \/ y \in Range(f)
      BY <3>1, <3>2, RangeOfConcat
    <3>5. Asks(r2, n)
      <4>1. ASSUME NEW y \in Range(Asked(r)), NEW z \in Range(f), y.msg = z.msg PROVE Place(y) < Place(z)
        <5>1. y \in Pieces /\ z \in Pieces
          BY <3>2, InRange
        <5>2. y.part < z.part
          BY <4>1, <3>3, <2>7
        <5>3. z.part \in Nat /\ Place(y) \in Nat /\ Place(z) \in Nat
          BY <5>1, PlaceOfPiece
        <5>4. Place(y) < 2 * z.part - 1
          BY <5>1, <5>2, <5>3, PlaceBounds
        <5>5. Place(z) >= 2 * z.part - 1
          <6>1. Place(z) = 2 * (z.part - 1) + z.half /\ (z.half = 1 \/ z.half = 2)
            BY <5>1, PlaceOfPiece
          <6> QED BY ONLY <5>3, <6>1
        <5> QED BY ONLY <5>3, <5>4, <5>5
      <4>2. InOrder(Asked(r2))
        BY <4>1, <3>1, <3>2, <2>7, <2>16, InOrderJoin DEF Asks
      <4>3. \A y \in Range(Asked(r2)) : y.part <= y.msg.frags /\ y.msg.no <= n
        BY <3>4, <2>4, <2>7, <2>15, <2>16 DEF Asks
      <4> QED BY <4>2, <4>3 DEF Asks
    <3>6. Link(T2, X, lockLost, r, n, Cuts(r, CutBy(t)))
      <4>1. r.down = SubSeq(r.down, 0 + 1, Len(r.down)) /\ 0 \in 0..Len(r.down)
        BY ConnectionFields, NothingTaken
      <4>2. (T.pc # "add" /\ (T.pc = "idle" => ~lockLost \/ T2.pc = "idle")) \/ (T2.pc = "idle" /\ lockLost)
        BY <2>3
      <4>3. PICK C : C = Cuts(r, CutBy(t))
        OBVIOUS
      <4>4. Link(T, X, lockLost, r, n, C)
        BY <2>16, <4>3
      <4>5. T2.pc \in {"idle", "listen"} /\ T2.got = <<>>
        BY <2>12
      <4>6. T \in ThreadStates /\ T2 \in ThreadStates /\ r \in Connections
        OBVIOUS
      <4>7. Link(T2, X, lockLost, r, n, C)
        <5>1. PICK d \in Seq(Pieces) : Told(T, r) = d \o Told(T2, r) /\ Told(T2, r) \in Seq(Pieces)
          <6>1. T.got = <<>> /\ T2.got = <<>>
            BY <2>3, <2>12 DEF Client
          <6>2. Told(T, r) = Told(T2, r) /\ Told(T2, r) \in Seq(Pieces)
            BY <6>1, Streams DEF Told
          <6>3. <<>> \in Seq(Pieces) /\ Told(T2, r) = <<>> \o Told(T2, r)
            BY <6>2, ConcatProperties
          <6> QED BY <6>2, <6>3
        <5>2. lockLost => lockLost
          OBVIOUS
        <5> QED BY ONLY <5>1, <5>2, <4>2, <4>4, <4>5, LeaveLink
      <4> QED BY <4>3, <4>7
    <3>7. Link(T2, X, lockLost, r, n, Cuts(r2, C2))
      <4>1. Cuts(r, CutBy(t)) \subseteq Cuts(r2, C2)
        BY <2>8, <2>11 DEF Cuts
      <4> QED BY <4>1, <3>6, LinkMonotone
    <3>8. ~Answered(T2, r, m) /\ Told(T2, r2) = Told(T2, r)
      <4>1. T.got = <<>> /\ T2.got = T.got
        BY <2>3, <2>12 DEF Client
      <4>2. Told(T2, r) = Told(T, r) /\ Told(T2, r2) = Told(T2, r)
        BY <4>1, <2>8 DEF Told
      <4> QED BY <4>2, <3>3 DEF Answered
    <3>9. ~IsSending(T2)
      BY <2>12 DEF IsSending
    <3>10. Link(T2, X, lockLost, r2, n, Cuts(r2, C2))
      <4>1. \A y \in Range(Asked(r2)) : y \in Range(Asked(r)) \/ (y.msg = m /\ y.half = 1)
        BY <3>4, <2>7
      <4>2. PICK C : C = Cuts(r2, C2)
        OBVIOUS
      <4>3. Link(T2, X, lockLost, r, n, C)
        BY <3>7, <4>2
      <4>4. Link(T2, X, lockLost, r2, n, C)
        BY <4>1, <4>3, <3>8, <3>9, <2>8, BegunLink
      <4> QED BY <4>2, <4>4
    <3> QED BY <3>5, <3>10
  <2>17. ~r.broken /\ Asks(r, Len(calls)) /\ Link(th[t], xidlist[t], lockLost, r, Len(calls), Cuts(r, CutBy(t))) =>
           Asks(r2, Len(calls)) /\ Link(T2, X, lockLost, r2, Len(calls), Cuts(r2, C2))
    BY <2>3, <2>15, <2>16
  <2>18. xidlist' = [xidlist EXCEPT ![t] = X] /\ ran' \in Seq(Nat) /\ Len(ran') = Len(ran)
         /\ UNCHANGED <<xid, lockLost, alive>> /\ faults' \in Nat
    BY <1>1, <2>3, StateFacts
  <2>19. /\ Caller(T2, t, calls') /\ T2.ended # "stray" /\ T2.sock = th[t].sock
         /\ (T2.answer # None => Fits(T2.answer, C2))
    <3>1. Xids(CutBy(t)) \subseteq Xids(C2)
      BY <2>11 DEF Xids
    <3> QED BY <3>1, <2>3, <2>12 DEF Caller, Fits
  <2>20. SafeInv
    OBVIOUS
  <2>21. /\ T2 \in ThreadStates /\ List(X) /\ r \in Connections /\ r2 \in Connections /\ th[t].sock # NoSocket
         /\ r = conn[th[t].sock] /\ r2.by = r.by /\ r2.broken = r.broken /\ t \in Threads
    BY <2>1, <2>2, <2>3, <2>8
  <2> QED BY ONLY <2>9, <2>10, <2>11, <2>13, <2>14, <2>17, <2>18, <2>19, <2>20, <2>21, ClientUpdate
<1>3. CASE th[t].pc # "send"
  <2>1. ReconnectAndRaise(t, "timeout") /\ UNCHANGED calls
    BY <1>3 DEF SendTimeout
  <2> QED BY <2>1, <1>1, ReconnectAndRaiseStep
<1> QED BY <1>2, <1>3

(* A call that was sent goes on the list, or the lock is lost.               *)
LEMMA SafeAddOutstanding ==
  ASSUME SafeInv, NEW t \in Threads, AddOutstanding(t)
  PROVE  SafeInv'
<1> DEFINE T == th[t]
           X == xidlist[t]
           m == T.msg
<1>1. /\ T \in ThreadStates /\ List(X) /\ Client(T, X, Len(calls), Len(conn), CutBy(t)) /\ T.pc = "add"
      /\ (T.answer # None => Fits(T.answer, CutBy(t))) /\ lockLost = FALSE
      /\ UNCHANGED <<xid, conn, alive, calls, ran, faults>>
  BY ThreadFacts, StateFacts DEF AddOutstanding
<1>2. /\ m \in Messages /\ m.no \in (1..Len(calls)) \ CutBy(t) /\ T.got = <<>> /\ T.sock # NoSocket
      /\ T.sock \in Nat \ {0} /\ T.sock <= Len(conn) /\ m.xid \in Nat
  <2>1. m \in Messages /\ m.no \in (1..Len(calls)) \ CutBy(t) /\ T.got = <<>> /\ T.sock # NoSocket
        /\ T.sock <= Len(conn)
    BY <1>1 DEF Client
  <2>2. T.sock \in Nat
    BY <1>1, ThreadFields
  <2>3. m.xid \in Nat
    BY <2>1, MessageSizes
  <2> QED BY <2>1, <2>2, <2>3 DEF NoSocket
<1>3. /\ xid' \in Nat /\ xid' = Len(calls') % XidMod /\ alive' \in BOOLEAN /\ faults' \in Nat /\ conn' = conn
      /\ calls' \in Seq(Asking) /\ Len(calls) <= Len(calls') /\ Len(calls') <= Len(Sizes)
      /\ ran' \in Seq(Nat) /\ Len(ran') = Len(calls') /\ Len(calls') = Len(calls)
  BY <1>1, StateFacts
<1>4. CASE InUse(t, m.xid)
  <2> DEFINE T2 == Leaving(T, "inuse")
  <2>1. lockLost' = TRUE /\ th' = [th EXCEPT ![t] = T2] /\ UNCHANGED xidlist
    BY <1>4 DEF AddOutstanding, Raise, Become
  <2>2. /\ T2 \in ThreadStates /\ T2.pc = "idle" /\ T2.got = <<>> /\ T2.sock = T.sock
        /\ T2.ended = "inuse" /\ T2.answer = T.answer
    BY <1>1, Left
  <2> HIDE DEF T2
  <2>3. Client(T2, X, Len(calls'), Len(conn), CutBy(t))
    BY <2>2, <1>1, <1>2, <1>3, ClientIdle
  <2>4. xidlist' = [xidlist EXCEPT ![t] = X]
    BY <2>1, StateFacts
  <2>5. ASSUME NEW r \in Connections, Link(T, X, lockLost, r, Len(calls), Cuts(r, CutBy(t)))
        PROVE  Link(T2, X, lockLost', r, Len(calls'), Cuts(r, CutBy(t)))
    <3>1. r.down = SubSeq(r.down, 0 + 1, Len(r.down)) /\ 0 \in 0..Len(r.down)
      BY ConnectionFields, NothingTaken
    <3>2. Link(T2, X, TRUE, r, Len(calls), Cuts(r, CutBy(t)))
      <4> HIDE DEF T, X
      <4>1. (T.pc # "add" /\ (T.pc = "idle" => ~lockLost \/ T2.pc = "idle")) \/ (T2.pc = "idle" /\ TRUE)
        BY <2>2
      <4> QED BY <3>1, <4>1, <2>2, <2>5, <1>1, LeaveConnection
    <3> QED BY <3>2, <2>1, <1>3
  <2>6. T2.ended # "stray" /\ (T2.answer # None => Fits(T2.answer, CutBy(t)))
    BY <1>1, <2>2
  <2>7. lockLost' \in BOOLEAN /\ (lockLost => lockLost')
    BY <2>1
  <2>8. /\ \A u \in Threads : CutBy(u)' = CutBy(u)
        /\ \A n \in 1..Len(calls) : calls'[n].by = calls[n].by
        /\ Caller(T2, t, calls')
    BY <1>1, <2>2, NotSending
  <2> QED BY <2>1, <2>2, <2>3, <2>4, <2>5, <2>6, <2>7, <2>8, <1>1, <1>3, ClientStay
<1>5. CASE ~InUse(t, m.xid)
  <2> DEFINE T2 == Idle(T)
             e == [msg |-> m, rdata |-> None, on |-> T.sock]
             X2 == With(X, m.xid, e)
  <2>1. th' = [th EXCEPT ![t] = T2] /\ lockLost' = lockLost
    BY <1>5 DEF AddOutstanding, Become
  <2>2. xidlist' = [xidlist EXCEPT ![t] = X2]
    BY <1>5 DEF AddOutstanding
  <2>3. /\ T2 \in ThreadStates /\ T2.pc = "idle" /\ T2.got = <<>> /\ T2.sock = T.sock
        /\ T2.ended = T.ended /\ T2.answer = T.answer
    <3>1. <<>> \in Seq(Pieces) /\ NoXid \in Int /\ None \in Messages \union {None} /\ 0 \in Nat
      BY DEF NoXid
    <3> QED BY <3>1, <1>1 DEF Idle, ThreadStates
  <2> HIDE DEF T2
  <2>4. /\ DOMAIN X2 = DOMAIN X \union {m.xid} /\ X2[m.xid] = e /\ m.xid \notin DOMAIN X
        /\ \A x \in DOMAIN X : X2[x] = X[x]
    BY <1>5 DEF With, InUse
  <2>5. e \in Entries /\ e.msg = m /\ e.rdata = None /\ e.on = T.sock
    BY <1>2 DEF Entries
  <2>6. ASSUME NEW r \in Connections, Link(T, X, lockLost, r, Len(calls), Cuts(r, CutBy(t)))
        PROVE  Link(T2, X2, lockLost', r, Len(calls'), Cuts(r, CutBy(t)))
    <3>1. Told(T2, r) = Told(T, r)
      BY <1>2, <2>3 DEF Told
    <3>2. T.pc = "add" /\ T.msg.xid \notin DOMAIN X
      BY <1>1, <2>4
    <3>3. Link(T2, With(X, T.msg.xid, [msg |-> T.msg, rdata |-> None, on |-> T.sock]), lockLost, r, Len(calls), Cuts(r, CutBy(t)))
      <4> HIDE DEF T, X, X2, e, m
      <4> QED BY <3>1, <3>2, <2>3, <2>6, AddLink
    <3> QED BY <3>3, <2>1, <1>3
  <2> HIDE DEF e, X2
  <2>7. List(X2)
    BY <2>4, <2>5, <1>1, <1>2 DEF List
  <2>8. Client(T2, X2, Len(calls'), Len(conn), CutBy(t))
    <3>1. \A x \in DOMAIN X2 :
            /\ X2[x].msg.xid = x /\ X2[x].msg.no \in (1..Len(calls)) \ CutBy(t)
            /\ X2[x].rdata # None => /\ X2[x].rdata.xid = x
                                     /\ x \notin Xids(CutBy(t)) => X2[x].rdata = X2[x].msg
            /\ X2[x].on <= Len(conn)
      BY <2>4, <2>5, <1>1, <1>2 DEF Client
    <3> QED BY <3>1, <2>3, <1>2, <1>3 DEF Client, IsSending
  <2>9. T2.ended # "stray" /\ (T2.answer # None => Fits(T2.answer, CutBy(t)))
    BY <1>1, <2>3, ThreadFacts
  <2>10. lockLost' \in BOOLEAN /\ (lockLost => lockLost')
    BY <2>1, StateFacts
  <2>11. /\ \A u \in Threads : CutBy(u)' = CutBy(u)
         /\ \A n \in 1..Len(calls) : calls'[n].by = calls[n].by
         /\ Caller(T2, t, calls')
    BY <1>1, <2>3, NotSending
  <2> QED BY <2>1, <2>2, <2>3, <2>6, <2>7, <2>8, <2>9, <2>10, <2>11, <1>1, <1>3, ClientStay
<1> QED BY <1>4, <1>5

(* A thread that has left its call.                                          *)
LEMMA IdleFields ==
  ASSUME NEW T \in ThreadStates
  PROVE  /\ Idle(T) \in ThreadStates /\ Idle(T).pc = "idle" /\ Idle(T).got = <<>>
         /\ Idle(T).sock = T.sock /\ Idle(T).ended = T.ended /\ Idle(T).answer = T.answer
<1>1. <<>> \in Seq(Pieces) /\ NoXid \in Int /\ None \in Messages \union {None} /\ 0 \in Nat
  BY DEF NoXid
<1> QED BY <1>1 DEF Idle, ThreadStates

(* A call leaves the list with its answer.                                   *)
LEMMA ReturnFields ==
  ASSUME NEW T \in ThreadStates, NEW m \in Messages, NEW m2 \in Messages
  PROVE  /\ Returned(T, m, m2) \in ThreadStates /\ Returned(T, m, m2).pc = "idle"
         /\ Returned(T, m, m2).got = <<>> /\ Returned(T, m, m2).sock = T.sock
         /\ Returned(T, m, m2).ended = "returned"
         /\ Returned(T, m, m2).answer = [call |-> m, reply |-> m2]
<1>1. <<>> \in Seq(Pieces) /\ NoXid \in Int /\ None \in Messages \union {None} /\ 0 \in Nat
  BY DEF NoXid
<1>2. [call |-> m, reply |-> m2] \in Answers
  BY DEF Answers
<1>3. Idle(T) \in ThreadStates /\ Idle(T).pc = "idle" /\ Idle(T).got = <<>> /\ Idle(T).sock = T.sock
  BY <1>1 DEF Idle, ThreadStates
<1>4. PICK a \in Answers : a = [call |-> m, reply |-> m2]
  BY <1>2
<1>6. LET T2 == [Idle(T) EXCEPT !.ended = "returned", !.answer = a]
      IN  /\ T2 \in ThreadStates /\ T2.pc = "idle" /\ T2.got = <<>> /\ T2.sock = T.sock
          /\ T2.ended = "returned" /\ T2.answer = a
  BY ONLY <1>3 DEF ThreadStates
<1> QED BY <1>4, <1>6 DEF Returned

(* The list without it.                                                      *)
LEMMA WithoutLink ==
  ASSUME NEW C, NEW T, NEW T2, NEW X, NEW lost, NEW r, NEW r2, NEW n, NEW d \in Seq(Pieces), NEW x \in DOMAIN X,
         Told(T2, r2) \in Seq(Pieces), Told(T, r) = d \o Told(T2, r2),
         r2.recordbuf = r.recordbuf, Asked(r2) = Asked(r),
         T2.pc \in {"idle", "listen"}, T.pc # "add", T.pc = "idle" => ~lost,
         \A z \in DOMAIN X : X[z].msg.xid = z,
         x \notin Xids(C) =>
           /\ \A y \in Range(Asked(r)) : y.msg = X[x].msg => ~Ends(y, y.msg.frags)
           /\ ~Answered(T2, r2, X[x].msg),
         Link(T, X, lost, r, n, C)
  PROVE  Link(T2, Without(X, x), lost, r2, n, C)
<1>1. OnlyAt(x, X, Without(X, x))
  BY DEF Without, OnlyAt
<1> QED BY <1>1, AnswerLink

(* A list without one of its calls is a list.                                *)
LEMMA WithoutList ==
  ASSUME NEW X, NEW x, List(X)
  PROVE  /\ List(Without(X, x)) /\ DOMAIN Without(X, x) = DOMAIN X \ {x}
         /\ \A z \in DOMAIN X : z # x => Without(X, x)[z] = X[z]
<1>1. /\ DOMAIN Without(X, x) = DOMAIN X \ {x}
      /\ \A z \in DOMAIN X : z # x => Without(X, x)[z] = X[z]
  BY DEF Without
<1> QED BY <1>1 DEF List

(* And a thread that is done has no other claim on it.                       *)
LEMMA IdleClient ==
  ASSUME NEW C, NEW T, NEW T2, NEW X, NEW X2, NEW n, NEW k, Client(T, X, n, k, C),
         DOMAIN X2 \subseteq DOMAIN X, \A z \in DOMAIN X2 : X2[z] = X[z],
         T2.pc = "idle", T2.got = <<>>, T2.sock = T.sock
  PROVE  Client(T2, X2, n, k, C)
BY DEF Client, IsSending

(* An answer that was kept is the answer to the call it is kept for.         *)
LEMMA SafeListen ==
  ASSUME SafeInv, NEW t \in Threads, Listen(t)
  PROVE  SafeInv'
<1> DEFINE T == th[t]
           X == xidlist[t]
<1>1. /\ T \in ThreadStates /\ List(X) /\ Client(T, X, Len(calls), Len(conn), CutBy(t)) /\ T.pc = "idle"
      /\ (T.answer # None => Fits(T.answer, CutBy(t))) /\ lockLost = FALSE
      /\ UNCHANGED <<xid, lockLost, conn, alive, calls, ran, faults>>
  BY ThreadFacts, StateFacts DEF Listen
<1>2. T.got = <<>> /\ T.sock <= Len(conn) /\ T.sock \in Nat
  BY <1>1, ThreadFields DEF Client
<1>3. /\ xid' \in Nat /\ xid' = Len(calls') % XidMod /\ alive' \in BOOLEAN /\ faults' \in Nat /\ conn' = conn
      /\ calls' \in Seq(Asking) /\ Len(calls) <= Len(calls') /\ Len(calls') <= Len(Sizes)
      /\ ran' \in Seq(Nat) /\ Len(ran') = Len(calls') /\ Len(calls') = Len(calls)
      /\ lockLost' \in BOOLEAN /\ (lockLost => lockLost') /\ lockLost' = FALSE
  BY <1>1, StateFacts
<1>4. PICK x \in DOMAIN X :
        IF X[x].rdata # None THEN Return(t, x, X[x].rdata)
        ELSE /\ Become(t, [Entered(th[t]) EXCEPT !.pc = "listen", !.want = x])
             /\ UNCHANGED xidlist
  BY DEF Listen
<1>5. /\ X[x] \in Entries /\ X[x].msg \in Messages /\ x \in Nat /\ X[x].msg.xid = x
      /\ X[x].rdata # None =>
           /\ X[x].rdata \in Messages /\ X[x].rdata.xid = x
           /\ x \notin Xids(CutBy(t)) => X[x].rdata = X[x].msg
  BY <1>1 DEF List, Entries, Client
<1>6. CASE X[x].rdata # None
  <2> DEFINE m == X[x].msg
             m2 == X[x].rdata
             T2 == Returned(T, m, m2)
             X2 == Without(X, x)
  <2>2. th' = [th EXCEPT ![t] = T2] /\ xidlist' = [xidlist EXCEPT ![t] = X2]
    BY <1>4, <1>6 DEF Return, Become
  <2>3. /\ T2 \in ThreadStates /\ T2.pc = "idle" /\ T2.got = <<>> /\ T2.sock = T.sock
        /\ T2.ended = "returned" /\ T2.answer = [call |-> m, reply |-> m2]
    <3>1. T \in ThreadStates /\ m \in Messages /\ m2 \in Messages
      BY <1>1, <1>5, <1>6
    <3> HIDE DEF m, m2, T
    <3> QED BY ONLY <3>1, ReturnFields DEF T2
  <2> HIDE DEF T2, X2
  <2>4. /\ List(X2) /\ Client(T2, X2, Len(calls), Len(conn), CutBy(t)) /\ DOMAIN X2 = DOMAIN X \ {x}
        /\ \A z \in DOMAIN X : z # x => X2[z] = X[z]
    <3>1. /\ List(X2) /\ DOMAIN X2 = DOMAIN X \ {x}
          /\ \A z \in DOMAIN X : z # x => X2[z] = X[z]
      BY <1>1, WithoutList DEF X2
    <3>2. DOMAIN X2 \subseteq DOMAIN X /\ \A z \in DOMAIN X2 : X2[z] = X[z]
      BY <3>1
    <3>3. Client(T2, X2, Len(calls), Len(conn), CutBy(t))
      BY <3>2, <2>3, <1>1, IdleClient
    <3> QED BY <3>1, <3>3
  <2>5. ASSUME NEW r \in Connections, Link(T, X, lockLost, r, Len(calls), Cuts(r, CutBy(t)))
        PROVE  Link(T2, X2, lockLost', r, Len(calls'), Cuts(r, CutBy(t)))
    <3>1. Told(T2, r) = Told(T, r) /\ Told(T2, r) \in Seq(Pieces)
      BY <1>2, <2>3, Streams DEF Told
    <3>2. PICK C : C = Cuts(r, CutBy(t))
      OBVIOUS
    <3>3. Link(T, X, lockLost, r, Len(calls), C)
      BY <2>5, <3>2
    <3>4. x \notin Xids(C) => /\ \A y \in Range(Asked(r)) : y.msg = m => ~Ends(y, y.msg.frags)
                              /\ ~Answered(T, r, m)
      BY <1>6, <3>3 DEF Link, KeptOnce
    <3>5. PICK d \in Seq(Pieces) : Told(T, r) = d \o Told(T2, r)
      BY <3>1, EmptySeq, ConcatEmptySeq
    <3>6. \A z \in DOMAIN X : X[z].msg.xid = z
      BY <1>1 DEF Client
    <3>7. Link(T2, X2, lockLost, r, Len(calls), C)
      <4>1. T2.pc \in {"idle", "listen"} /\ T.pc # "add" /\ (T.pc = "idle" => ~lockLost)
        BY <2>3, <1>1
      <4>4. x \notin Xids(C) => /\ \A y \in Range(Asked(r)) : y.msg = X[x].msg => ~Ends(y, y.msg.frags)
                                /\ ~Answered(T2, r, X[x].msg)
        BY <3>1, <3>4 DEF Answered
      <4>5. x \in DOMAIN X
        OBVIOUS
      <4> HIDE DEF T, X
      <4> QED BY <4>1, <4>4, <4>5, <3>1, <3>3, <3>5, <3>6, WithoutLink DEF X2
    <3> QED BY <3>2, <3>7, <1>1, <1>3
  <2>6. T2.ended # "stray" /\ (T2.answer # None => Fits(T2.answer, CutBy(t)))
    BY <2>3, <1>5, <1>6 DEF Fits
  <2>7. /\ \A u \in Threads : CutBy(u)' = CutBy(u)
        /\ \A n \in 1..Len(calls) : calls'[n].by = calls[n].by
        /\ Caller(T2, t, calls')
    BY <1>1, <2>3, NotSending
  <2> QED BY <2>2, <2>3, <2>4, <2>5, <2>6, <2>7, <1>1, <1>3, ClientStay
<1>7. CASE X[x].rdata = None
  <2> DEFINE T2 == [Entered(T) EXCEPT !.pc = "listen", !.want = x]
  <2>1. th' = [th EXCEPT ![t] = T2] /\ UNCHANGED xidlist
    BY <1>4, <1>7 DEF Become
  <2>2. /\ T2 \in ThreadStates /\ T2.pc = "listen" /\ T2.want = x /\ T2.got = <<>> /\ T2.sock = T.sock
        /\ T2.ended = "none" /\ T2.answer = None
    <3>1. x \in Int
      BY <1>5
    <3> QED BY <3>1, <1>1, EnteredFields DEF ThreadStates
  <2> HIDE DEF T2
  <2>3. xidlist' = [xidlist EXCEPT ![t] = X]
    BY <2>1, StateFacts
  <2>4. Client(T2, X, Len(calls'), Len(conn), CutBy(t))
    BY <2>2, <1>1, <1>2, <1>3, <1>7 DEF Client, IsSending
  <2>5. ASSUME NEW r \in Connections, Link(T, X, lockLost, r, Len(calls), Cuts(r, CutBy(t)))
        PROVE  Link(T2, X, lockLost', r, Len(calls'), Cuts(r, CutBy(t)))
    <3>1. r.down = SubSeq(r.down, 0 + 1, Len(r.down)) /\ 0 \in 0..Len(r.down)
      BY ConnectionFields, NothingTaken
    <3>2. Link(T2, X, lockLost, r, Len(calls), Cuts(r, CutBy(t)))
      <4> HIDE DEF T, X
      <4>1. (T.pc # "add" /\ (T.pc = "idle" => ~lockLost \/ T2.pc = "idle")) \/ (T2.pc = "idle" /\ lockLost)
        BY <1>1
      <4> QED BY <3>1, <4>1, <2>2, <2>5, <1>1, LeaveConnection
    <3> QED BY <3>2, <1>1, <1>3
  <2>6. T2.ended # "stray" /\ (T2.answer # None => Fits(T2.answer, CutBy(t)))
    BY <2>2
  <2>7. /\ \A u \in Threads : CutBy(u)' = CutBy(u)
        /\ \A n \in 1..Len(calls) : calls'[n].by = calls[n].by
        /\ Caller(T2, t, calls')
    BY <1>1, <2>2, NotSending
  <2> QED BY <2>1, <2>2, <2>3, <2>4, <2>5, <2>6, <2>7, <1>1, <1>3, ClientStay
<1> QED BY <1>6, <1>7

(* The list with an answer kept.                                             *)
LEMMA KeptLink ==
  ASSUME NEW X, List(X), NEW x \in DOMAIN X, NEW m, NEW X2, X2 = [X EXCEPT ![x].rdata = m]
  PROVE  OnlyAt(x, X, X2)
<1>1. X[x] \in Entries
  BY DEF List
<1>2. /\ DOMAIN X2 = DOMAIN X /\ X2[x] = [X[x] EXCEPT !.rdata = m]
      /\ \A z \in DOMAIN X : z # x => X2[z] = X[z]
  OBVIOUS
<1>3. X2[x].msg = X[x].msg
  BY <1>1, <1>2 DEF Entries
<1> QED BY <1>2, <1>3 DEF OnlyAt

\* a thread that has read s takes the piece x off its socket: s ends with x
TakesPiece(T, r, r2, x, s) ==
  /\ x \in Pieces /\ s \in Seq(Pieces) /\ s # <<>> /\ Len(s) = Len(T.got) + 1 /\ s[Len(s)] = x
  /\ Len(s) \in Nat \ {0} /\ \A i \in 1..Len(T.got) : s[i] = T.got[i]
  /\ \A T2 \in ThreadStates : T2.got = s => Told(T2, r2) = Told(T, r)
  /\ \A T2 \in ThreadStates : T2.got = <<>> => Told(T, r) = s \o Told(T2, r2)

(* One piece more is received.                                               *)
LEMMA Received ==
  ASSUME NEW T \in ThreadStates, NEW r \in Connections, NEW r2 \in Connections, r.down # <<>>,
         r2.down = Tail(r.down), r2.writebuf = r.writebuf
  PROVE  TakesPiece(T, r, r2, Head(r.down), Append(T.got, Head(r.down)))
<1> DEFINE x == Head(r.down)
           s == Append(T.got, x)
<1>1. /\ T.got \in Seq(Pieces) /\ r.down \in Seq(Pieces) /\ r.writebuf \in Seq(Pieces)
      /\ Len(T.got) \in Nat
  BY ConnectionFields, ThreadFields
<1>2. x \in Pieces /\ r2.down \in Seq(Pieces)
  BY <1>1, HeadTailProperties
<1>3. /\ s \in Seq(Pieces) /\ s # <<>> /\ Len(s) = Len(T.got) + 1 /\ s[Len(T.got) + 1] = x
      /\ s = T.got \o <<x>> /\ \A i \in 1..Len(T.got) : s[i] = T.got[i]
  <2>1. T.got \in Seq(Pieces) /\ x \in Pieces
    BY <1>1, <1>2
  <2> HIDE DEF x
  <2>2. /\ s \in Seq(Pieces) /\ s # <<>> /\ Len(s) = Len(T.got) + 1 /\ s[Len(T.got) + 1] = x
        /\ \A i \in 1..Len(T.got) : s[i] = T.got[i]
    BY ONLY <2>1, AppendProperties
  <2>3. s = T.got \o <<x>>
    BY ONLY <2>1, AppendIsConcat
  <2> QED BY <2>2, <2>3
<1>4. /\ r.down = <<x>> \o r2.down /\ <<x>> \in Seq(Pieces)
  <2>1. Len(r.down) \in Nat \ {0}
    BY <1>1, EmptySeq
  <2>2. 1 \in 1..Len(r.down) /\ Len(r.down) \in 1..Len(r.down)
    BY <2>1
  <2>3. SubSeq(r.down, 1, Len(r.down)) = <<r.down[1]>> \o SubSeq(r.down, 1 + 1, Len(r.down))
    BY ONLY <1>1, <2>2, SubSeqRecursiveFirst
  <2>4. SubSeq(r.down, 1, Len(r.down)) = r.down /\ r2.down = SubSeq(r.down, 2, Len(r.down))
    BY <1>1, SubSeqFull, TailIsSubSeq
  <2>5. x = r.down[1]
    BY <1>1, <2>1
  <2>6. <<x>> \in Seq(Pieces)
    BY <1>2
  <2> HIDE DEF x
  <2> QED BY <2>3, <2>4, <2>5, <2>6
<1> HIDE DEF x, s
<1>5. T.got \o r.down = s \o r2.down
  <2>1. T.got \o (<<x>> \o r2.down) = (T.got \o <<x>>) \o r2.down
    <3>1. T.got \in Seq(Pieces) /\ <<x>> \in Seq(Pieces) /\ r2.down \in Seq(Pieces)
      BY <1>1, <1>2, <1>4
    <3> QED BY <3>1, Associative, Zenon
  <2> QED BY <2>1, <1>3, <1>4
<1>6. ASSUME NEW T2 \in ThreadStates, T2.got = s PROVE Told(T2, r2) = Told(T, r)
  BY <1>5, <1>6 DEF Told
<1>7. ASSUME NEW T2 \in ThreadStates, T2.got = <<>> PROVE Told(T, r) = s \o Told(T2, r2)
  <2>1. Told(T2, r2) = r2.down \o r.writebuf
    <3>1. T2.got \o r2.down = r2.down
      BY <1>2, <1>7, ConcatEmptySeq
    <3> QED BY <3>1 DEF Told
  <2>2. (s \o r2.down) \o r.writebuf = s \o (r2.down \o r.writebuf)
    <3>1. s \in Seq(Pieces) /\ r2.down \in Seq(Pieces) /\ r.writebuf \in Seq(Pieces)
      BY <1>1, <1>2, <1>3
    <3> QED BY <3>1, Associative, Zenon
  <2> QED BY <2>1, <2>2, <1>5 DEF Told
<1>8. Len(s) \in Nat \ {0} /\ s[Len(s)] = x
  BY <1>1, <1>3
<1>9. TakesPiece(T, r, r2, x, s)
  BY <1>2, <1>3, <1>6, <1>7, <1>8 DEF TakesPiece
<1> QED BY <1>9 DEF x, s

(* An answer taken to its last piece: unless a call with its xid was cut, the*)
(* call was known, and nothing is left of it.                                *)
LEMMA AnswerTaken ==
  ASSUME NEW C, NEW T \in ThreadStates, NEW T2 \in ThreadStates, NEW X, NEW lost, NEW n,
         NEW r \in Connections, NEW r2 \in Connections, NEW s \in Seq(Pieces),
         NEW x \in Range(s), Ends(x, x.msg.back), Told(T, r) = s \o Told(T2, r2),
         r2.recordbuf = r.recordbuf, T.pc \in {"listen", "relisten"},
         Link(T, X, lost, r, n, C)
  PROVE  x.msg.xid \notin Xids(C) =>
           /\ x.msg.xid \in DOMAIN X /\ X[x.msg.xid].msg = x.msg
           /\ \A y \in Range(Asked(r)) : y.msg # x.msg
           /\ ~Answered(T2, r2, x.msg)
<1> SUFFICES ASSUME x.msg.xid \notin Xids(C)
             PROVE  /\ x.msg.xid \in DOMAIN X /\ X[x.msg.xid].msg = x.msg
                    /\ \A y \in Range(Asked(r)) : y.msg # x.msg
                    /\ ~Answered(T2, r2, x.msg)
  OBVIOUS
<1>1. Told(T2, r2) \in Seq(Pieces)
  BY Streams
<1>2. /\ \A y \in Range(Told(T2, r2)) : y \in Range(Told(T, r))
      /\ \A y \in Range(s), z \in Range(Told(T2, r2)) : y.msg = z.msg => Place(y) < Place(z)
      /\ \A y \in Range(s) : y \in Range(Told(T, r))
  BY <1>1, Forgotten DEF Link
<1>3. x \in Range(Told(T, r)) /\ x \in Pieces
  BY <1>2, InRange
<1>4. x.msg.xid \in DOMAIN X /\ X[x.msg.xid].msg = x.msg
  BY <1>3 DEF Link, AllKnown, Knows, Known
<1>5. \A y \in Range(Asked(r)) : y.msg # x.msg
  <2>1. x.msg \in Messages
    BY <1>3, PlaceOfPiece
  <2>2. x.msg.xid = x.msg.no % XidMod
    BY <2>1 DEF Messages, MessageAt
  <2>3. x.msg.no \notin C
    BY <2>2 DEF Xids
  <2>4. Answered(T, r, x.msg)
    BY <1>3 DEF Answered
  <2> QED BY <2>3, <2>4 DEF Link, AskedOrAnswered
<1>6. x.part = x.msg.back /\ x.half = 2 /\ Place(x) = 2 * x.msg.back /\ x.msg.back \in Nat \ {0}
  <2>1. x.part = x.msg.back /\ x.half = 2
    BY DEF Ends
  <2>2. x.msg.back \in Nat \ {0} /\ Place(x) = 2 * (x.part - 1) + x.half
    BY <1>3, PlaceOfPiece, MessageSizes
  <2> QED BY <2>1, <2>2
<1>7. ASSUME NEW y \in Range(Told(T2, r2)) PROVE y.msg # x.msg
  <2> SUFFICES ASSUME y.msg = x.msg PROVE FALSE
    OBVIOUS
  <2>1. Place(x) < Place(y)
    BY <1>2
  <2>2. y.part <= x.msg.back
    BY <1>2 DEF Link, Tells
  <2>3. y \in Pieces
    BY <1>1, InRange
  <2>4. Place(y) <= 2 * x.msg.back /\ Place(y) \in Nat
    BY <2>2, <2>3, <1>6, PlaceBounds, PlaceOfPiece
  <2> QED BY <2>1, <2>4, <1>6
<1>8. ASSUME NEW i \in 1..Len(r.recordbuf) PROVE r.recordbuf[i].msg # x.msg
  <2> SUFFICES ASSUME r.recordbuf[i].msg = x.msg PROVE FALSE
    OBVIOUS
  <2>1. x.part < r.recordbuf[i].part /\ r.recordbuf[i].part <= x.msg.back
    BY <1>3 DEF Link, Tells
  <2>2. r.recordbuf[i].part \in Int
    <3>1. r.recordbuf[i] \in Queued
      BY ConnectionFields, ElementOfSeq
    <3> QED BY <3>1 DEF Queued
  <2> QED BY <2>1, <2>2, <1>6
<1> QED BY <1>4, <1>5, <1>7, <1>8 DEF Answered

(* A reply is to the call whose xid it has.                                  *)
LEMMA SafeRecv ==
  ASSUME SafeInv, NEW t \in Threads, Recv(t)
  PROVE  SafeInv'
<1> DEFINE T == th[t]
           X == xidlist[t]
           r == Sock(t)
           x == Head(r.down)
           s == Append(T.got, x)
           r2 == [r EXCEPT !.down = Tail(@)]
<1>1. /\ T \in ThreadStates /\ List(X) /\ Client(T, X, Len(calls), Len(conn), CutBy(t))
      /\ T.pc \in {"listen", "relisten"} /\ T.sock # NoSocket /\ r.down # <<>> /\ ~r.broken
      /\ (T.answer # None => Fits(T.answer, CutBy(t))) /\ T.ended # "stray"
      /\ UNCHANGED <<xid, lockLost, alive, calls, ran, faults>>
  BY ThreadFacts DEF Recv, Listening, Usable
<1>2. /\ r = conn[T.sock] /\ T.sock \in 1..Len(conn) /\ r \in Connections /\ r.by = t
      /\ Link(T, X, lockLost, r, Len(calls), Cuts(r, CutBy(t))) /\ Len(calls) \in Nat
  BY <1>1, SockFacts, StateFacts
<1>3. /\ r2 \in Connections /\ r2.down = Tail(r.down) /\ r2.by = r.by /\ r2.broken = r.broken
      /\ r2.readbuf = r.readbuf /\ r2.packetbuf = r.packetbuf /\ r2.recordbuf = r.recordbuf
      /\ r2.up = r.up /\ r2.writebuf = r.writebuf /\ r2.cut = r.cut
  <2>1. Tail(r.down) \in Seq(Pieces)
    BY <1>1, <1>2, ConnectionFields, HeadTailProperties
  <2> QED BY <2>1, <1>2 DEF Connections
<1>4. conn' = [conn EXCEPT ![T.sock] = r2]
  BY <1>2 DEF Recv
<1>5. /\ Ends(x, x.msg.back) => Deliver(t, s)
      /\ ~Ends(x, x.msg.back) => Become(t, [th[t] EXCEPT !.got = s]) /\ UNCHANGED xidlist
  BY DEF Recv
<1>6. /\ x \in Pieces /\ s \in Seq(Pieces) /\ s # <<>> /\ s[Len(s)] = x /\ Len(s) \in Nat \ {0}
      /\ \A T2 \in ThreadStates : T2.got = s => Told(T2, r2) = Told(T, r)
      /\ \A T2 \in ThreadStates : T2.got = <<>> => Told(T, r) = s \o Told(T2, r2)
  <2> HIDE DEF T, r, r2
  <2>1. /\ T \in ThreadStates /\ r \in Connections /\ r2 \in Connections /\ r.down # <<>>
        /\ r2.down = Tail(r.down) /\ r2.writebuf = r.writebuf
    BY <1>1, <1>2, <1>3
  <2>2. TakesPiece(T, r, r2, x, s)
    BY ONLY <2>1, Received
  <2> HIDE DEF x, s
  <2> QED BY ONLY <2>2 DEF TakesPiece
<1> HIDE DEF r2, x, s
<1>7. Asked(r2) = Asked(r)
  BY <1>3 DEF Asked
<1>8. Asks(r, Len(calls)) => Asks(r2, Len(calls))
  BY <1>7, SameAsks
<1>9. /\ UNCHANGED <<xid, lockLost, alive>> /\ faults' \in Nat
      /\ calls' \in Seq(Asking) /\ Len(calls') = Len(calls)
      /\ ran' \in Seq(Nat) /\ Len(ran') = Len(ran)
  BY <1>1, StateFacts
<1>13. PICK C : C = Cuts(r, CutBy(t)) /\ C = Cuts(r2, CutBy(t))
  BY <1>3 DEF Cuts
<1>14. Link(T, X, lockLost, r, Len(calls), C)
  BY <1>2, <1>13
<1>15. PICK C2 : C2 = CutBy(t)
  OBVIOUS
<1>16. /\ CutBy(t)' = C2 /\ \A u \in Threads : u # t => CutBy(u)' = CutBy(u)
       /\ \A n \in 1..Len(calls) : calls'[n].by = calls[n].by
       /\ \A T2 : T2.pc # "send" => Caller(T2, t, calls')
  BY <1>1, <1>15, NotSending
<1>17. C \subseteq C2 /\ (C # {} => r2.cut) /\ \A x2 : x2 \in Xids(C) => x2 \in Xids(C2)
  BY <1>13, <1>15 DEF Cuts, Xids
<1>10. CASE ~Ends(x, x.msg.back)
  <2> DEFINE T2 == [T EXCEPT !.got = s]
  <2>1. th' = [th EXCEPT ![t] = T2] /\ xidlist' = [xidlist EXCEPT ![t] = X]
    BY <1>5, <1>10, StateFacts DEF Become
  <2>2. /\ T2 \in ThreadStates /\ T2.got = s /\ T2.sock = T.sock /\ T2.pc = T.pc /\ T2.msg = T.msg
        /\ T2.part = T.part /\ T2.want = T.want /\ T2.ended = T.ended /\ T2.answer = T.answer
    BY <1>1, <1>6 DEF ThreadStates
  <2> HIDE DEF T2
  <2>3. Told(T2, r2) = Told(T, r)
    BY <2>2, <1>6
  <2>4. Link(T2, X, lockLost, r2, Len(calls), Cuts(r2, C2))
    <3>1. Link(T2, X, lockLost, r2, Len(calls), C)
      <4> HIDE DEF T, X, r
      <4> QED BY <2>2, <2>3, <1>14, <1>3, <1>7, SameLink
    <3> QED BY <3>1, <1>13, <1>15
  <2>5. Client(T2, X, Len(calls), Len(conn), C2)
    <3>1. Client(T, X, Len(calls), Len(conn), C2)
      BY <1>1, <1>15
    <3> QED BY <3>1, <2>2, <1>1 DEF Client, IsSending
  <2>6. T2.ended # "stray" /\ (T2.answer # None => Fits(T2.answer, C2)) /\ Caller(T2, t, calls')
    BY <2>2, <1>1, <1>15, <1>16
  <2> QED BY <2>1, <2>2, <2>4, <2>5, <2>6, <1>1, <1>2, <1>3, <1>4, <1>8, <1>9, <1>16, ClientUpdate
<1>11. CASE Ends(x, x.msg.back) /\ ~Whole(s, s[1].msg.back)
  <2>1. Raise(t, "garbled") /\ UNCHANGED xidlist
    BY <1>5, <1>11 DEF Deliver
  <2>2. r.down \in Seq(Pieces) /\ r2.down = SubSeq(r.down, 1 + 1, Len(r.down)) /\ 1 \in 0..Len(r.down)
    <3>1. r.down \in Seq(Pieces) /\ Len(r.down) \in Nat
      BY <1>2, ConnectionFields
    <3>2. r2.down = SubSeq(r.down, 2, Len(r.down))
      BY <3>1, <1>1, <1>3, TailIsSubSeq
    <3>3. Len(r.down) \in Nat \ {0}
      BY <3>1, <1>1, EmptySeq
    <3> QED BY <3>1, <3>2, <3>3
  <2>3. UNCHANGED <<xid, lockLost, xidlist, alive, calls, ran>> /\ th[t].pc \notin {"add", "idle"}
    BY <2>1, <1>1
  <2> QED BY <2>1, <2>2, <2>3, <1>1, <1>3, <1>4, <1>9, RaiseStep
<1>12. CASE Ends(x, x.msg.back) /\ Whole(s, s[1].msg.back)
  <2> DEFINE m == s[1].msg
  <2>1. x.msg = m /\ m \in Messages /\ x \in Range(s)
    <3>1. 1 \in 1..Len(s) /\ Len(s) \in 1..Len(s)
      BY <1>6
    <3>2. s[Len(s)].msg = s[1].msg
      BY <3>1, <1>12 DEF Whole
    <3>3. x \in Range(s)
      BY <3>1, <1>6, InRange
    <3> QED BY <3>2, <3>3, <1>6, PlaceOfPiece
  <2> HIDE DEF m
  <2>2. ASSUME NEW T2 \in ThreadStates, T2.got = <<>>
        PROVE  /\ Told(T, r) = s \o Told(T2, r2) /\ Told(T2, r2) \in Seq(Pieces)
               /\ m.xid \notin Xids(C) =>
                    /\ m.xid \in DOMAIN X /\ X[m.xid].msg = m
                    /\ \A y \in Range(Asked(r)) : y.msg # m
                    /\ ~Answered(T2, r2, m)
    <3>1. Told(T, r) = s \o Told(T2, r2) /\ Told(T2, r2) \in Seq(Pieces)
      BY <2>2, <1>3, <1>6, Streams
    <3>2. Ends(x, x.msg.back)
      BY <1>12
    <3>3. x.msg.xid \notin Xids(C) =>
            /\ x.msg.xid \in DOMAIN X /\ X[x.msg.xid].msg = x.msg
            /\ \A y \in Range(Asked(r)) : y.msg # x.msg
            /\ ~Answered(T2, r2, x.msg)
      <4> HIDE DEF T, X, r
      <4>1. T \in ThreadStates /\ T2 \in ThreadStates /\ r \in Connections /\ r2 \in Connections
            /\ s \in Seq(Pieces) /\ r2.recordbuf = r.recordbuf /\ T.pc \in {"listen", "relisten"}
            /\ Link(T, X, lockLost, r, Len(calls), C) /\ x \in Range(s)
        BY <2>1, <2>2, <1>1, <1>2, <1>3, <1>6, <1>14
      <4> QED BY ONLY <4>1, <3>1, <3>2, AnswerTaken
    <3> QED BY <3>1, <3>3, <2>1
  <2>3. m.xid \notin Xids(C) =>
          m.xid \in DOMAIN X /\ X[m.xid].msg = m /\ \A y \in Range(Asked(r)) : y.msg # m
    <3>1. Idle(T) \in ThreadStates /\ Idle(T).got = <<>>
      BY <1>1, EnteredFields, IdleFields
    <3> QED BY <3>1, <2>2
  <2>4. /\ \A z \in DOMAIN X : X[z].msg.xid = z
        /\ T.sock <= Len(conn)
    BY <1>1 DEF Client
  <2>7. CASE m.xid \notin DOMAIN X
    <3> DEFINE T2 == Leaving(T, "stray")
    <3>1. th' = [th EXCEPT ![t] = T2] /\ xidlist' = [xidlist EXCEPT ![t] = X]
      <4>1. Raise(t, "stray") /\ UNCHANGED xidlist
        BY <2>7, <1>5, <1>12 DEF Deliver, m
      <4> QED BY <4>1, StateFacts DEF Raise, Become
    <3>2. /\ T2 \in ThreadStates /\ T2.pc = "idle" /\ T2.got = <<>> /\ T2.sock = T.sock
          /\ T2.ended = "stray" /\ T2.answer = T.answer
      <4>1. "stray" \in {"none", "error", "timeout", "inuse", "returned", "garbled", "stray"}
        OBVIOUS
      <4> QED BY <4>1, <1>1, Left
    <3> HIDE DEF T2
    <3>3. Client(T2, X, Len(calls), Len(conn), C2)
      <4>1. Client(T, X, Len(calls), Len(conn), C2)
        BY <1>1, <1>15
      <4> QED BY <4>1, <3>2, IdleClient
    <3>4. Link(T2, X, lockLost, r2, Len(calls), Cuts(r2, C2))
      <4>1. T2.pc \in {"idle", "listen"} /\ (lockLost => lockLost)
            /\ ((T.pc # "add" /\ (T.pc = "idle" => ~lockLost \/ T2.pc = "idle")) \/ (T2.pc = "idle" /\ lockLost))
        BY <3>2, <1>1
      <4>2. Told(T, r) = s \o Told(T2, r2) /\ Told(T2, r2) \in Seq(Pieces)
        BY <3>2, <2>2
      <4>3. s \in Seq(Pieces) /\ r2.recordbuf = r.recordbuf /\ Asked(r2) = Asked(r)
            /\ Link(T, X, lockLost, r, Len(calls), C)
        BY <1>3, <1>6, <1>7, <1>14
      <4>4. Link(T2, X, lockLost, r2, Len(calls), C)
        <5> HIDE DEF T, X, r
        <5> QED BY ONLY <4>1, <4>2, <4>3, LeaveLink
      <4> QED BY <4>4, <1>13, <1>15
    <3>5. /\ T2.ended = "stray" => T2.pc = "idle" /\ r2.cut
          /\ T2.answer # None => Fits(T2.answer, C2)
          /\ Caller(T2, t, calls')
      <4>1. C # {}
        BY <2>3, <2>7 DEF Xids
      <4> QED BY <4>1, <3>2, <1>1, <1>15, <1>16, <1>17
    <3> QED BY <3>1, <3>2, <3>3, <3>4, <3>5, <1>1, <1>2, <1>3, <1>4, <1>8, <1>9, <1>16, ClientUpdate
  <2>5. CASE m.xid \in DOMAIN X /\ m.xid = T.want
    <3> DEFINE T2 == Returned(T, X[m.xid].msg, m)
               X2 == Without(X, m.xid)
    <3>1. th' = [th EXCEPT ![t] = T2] /\ xidlist' = [xidlist EXCEPT ![t] = X2]
      BY <2>5, <1>5, <1>12 DEF Deliver, Return, Become, m
    <3>2. /\ T2 \in ThreadStates /\ T2.pc = "idle" /\ T2.got = <<>> /\ T2.sock = T.sock
          /\ T2.ended = "returned" /\ T2.answer = [call |-> X[m.xid].msg, reply |-> m]
      <4>1. X[m.xid] \in Entries
        BY <2>5, <1>1 DEF List
      <4>2. T \in ThreadStates /\ m \in Messages /\ X[m.xid].msg \in Messages
        BY <4>1, <1>1, <2>1 DEF Entries
      <4> HIDE DEF T, X
      <4> QED BY ONLY <4>2, ReturnFields DEF T2
    <3> HIDE DEF T2, X2
    <3>3. List(X2) /\ Client(T2, X2, Len(calls), Len(conn), C2)
      <4>1. /\ List(X2) /\ DOMAIN X2 = DOMAIN X \ {m.xid}
            /\ \A z \in DOMAIN X : z # m.xid => X2[z] = X[z]
        BY <1>1, WithoutList DEF X2
      <4>2. DOMAIN X2 \subseteq DOMAIN X /\ \A z \in DOMAIN X2 : X2[z] = X[z]
        BY <4>1
      <4>3. Client(T2, X2, Len(calls), Len(conn), C2)
        BY <4>2, <3>2, <1>1, <1>15, IdleClient
      <4> QED BY <4>1, <4>3
    <3>4. Link(T2, X2, lockLost, r2, Len(calls), Cuts(r2, C2))
      <4>1. T2.pc \in {"idle", "listen"} /\ T.pc # "add" /\ (T.pc = "idle" => ~lockLost)
        BY <3>2, <1>1
      <4>2. m.xid \notin Xids(C) =>
              /\ \A y \in Range(Asked(r)) : y.msg = X[m.xid].msg => ~Ends(y, y.msg.frags)
              /\ ~Answered(T2, r2, X[m.xid].msg)
        BY <2>2, <2>3, <3>2
      <4>3. Told(T, r) = s \o Told(T2, r2) /\ Told(T2, r2) \in Seq(Pieces)
        BY <2>2, <3>2
      <4>4. /\ m.xid \in DOMAIN X /\ s \in Seq(Pieces) /\ r2.recordbuf = r.recordbuf
            /\ Asked(r2) = Asked(r) /\ Link(T, X, lockLost, r, Len(calls), C)
            /\ \A z \in DOMAIN X : X[z].msg.xid = z
        BY <2>4, <2>5, <1>3, <1>6, <1>7, <1>14
      <4>5. Link(T2, X2, lockLost, r2, Len(calls), C)
        <5> HIDE DEF T, X, r
        <5> QED BY ONLY <4>1, <4>2, <4>3, <4>4, WithoutLink DEF X2
      <4> QED BY <4>5, <1>13, <1>15
    <3>5. T2.ended # "stray" /\ (T2.answer # None => Fits(T2.answer, C2)) /\ Caller(T2, t, calls')
      <4>1. m.xid = X[m.xid].msg.xid
        BY <2>4, <2>5
      <4>2. m.xid \notin Xids(C2) => X[m.xid].msg = m
        BY <2>3, <1>17
      <4> QED BY <4>1, <4>2, <3>2, <1>16 DEF Fits
    <3> QED BY <3>1, <3>2, <3>3, <3>4, <3>5, <1>1, <1>2, <1>3, <1>4, <1>8, <1>9, <1>16, ClientUpdate
  <2>6. CASE m.xid \in DOMAIN X /\ m.xid # T.want
    <3> DEFINE T2 == [T EXCEPT !.pc = "listen", !.got = <<>>]
               X2 == [X EXCEPT ![m.xid].rdata = m]
    <3>1. xidlist' = [xidlist EXCEPT ![t] = X2] /\ th' = [th EXCEPT ![t] = T2]
      <4>1. xidlist' = [xidlist EXCEPT ![t][m.xid].rdata = m] /\ th' = [th EXCEPT ![t] = T2]
        BY <2>6, <1>5, <1>12 DEF Deliver, Become, m
      <4> QED BY <4>1, StateFacts
    <3>2. /\ T2 \in ThreadStates /\ T2.pc = "listen" /\ T2.got = <<>> /\ T2.sock = T.sock /\ T2.msg = T.msg
          /\ T2.ended = T.ended /\ T2.answer = T.answer /\ T2.want = T.want
      <4>1. <<>> \in Seq(Pieces)
        OBVIOUS
      <4> QED BY <4>1, <1>1 DEF ThreadStates
    <3> HIDE DEF T2
    <3>3. /\ DOMAIN X2 = DOMAIN X /\ X2[m.xid] = [X[m.xid] EXCEPT !.rdata = m]
          /\ \A z \in DOMAIN X : z # m.xid => X2[z] = X[z]
      BY <2>6
    <3>4. X[m.xid] \in Entries
      BY <2>6, <1>1 DEF List
    <3>5. /\ [X[m.xid] EXCEPT !.rdata = m] \in Entries /\ [X[m.xid] EXCEPT !.rdata = m].msg = X[m.xid].msg
          /\ [X[m.xid] EXCEPT !.rdata = m].rdata = m
          /\ [X[m.xid] EXCEPT !.rdata = m].on = X[m.xid].on
      BY <2>1, <3>4 DEF Entries
    <3> HIDE DEF X2
    <3>6. List(X2)
      BY <3>3, <3>5, <1>1 DEF List
    <3>10. m.xid \notin Xids(C2) => X[m.xid].msg = m
      BY <2>3, <1>17
    <3>7. Client(T2, X2, Len(calls), Len(conn), C2)
      <4>0. Client(T, X, Len(calls), Len(conn), C2)
        BY <1>1, <1>15
      <4>1. \A z \in DOMAIN X2 :
              /\ X2[z].msg.xid = z /\ X2[z].msg.no \in (1..Len(calls)) \ C2
              /\ X2[z].rdata # None => X2[z].rdata.xid = z /\ (z \notin Xids(C2) => X2[z].rdata = X2[z].msg)
              /\ X2[z].on <= Len(conn)
        <5> SUFFICES ASSUME NEW z \in DOMAIN X2
                     PROVE  /\ X2[z].msg.xid = z /\ X2[z].msg.no \in (1..Len(calls)) \ C2
                            /\ X2[z].rdata # None =>
                                 /\ X2[z].rdata.xid = z
                                 /\ z \notin Xids(C2) => X2[z].rdata = X2[z].msg
                            /\ X2[z].on <= Len(conn)
          OBVIOUS
        <5>1. /\ z \in DOMAIN X /\ X[z].msg.xid = z /\ X[z].msg.no \in (1..Len(calls)) \ C2
              /\ X[z].rdata # None => X[z].rdata.xid = z /\ (z \notin Xids(C2) => X[z].rdata = X[z].msg)
              /\ X[z].on <= Len(conn)
          BY <3>3, <4>0 DEF Client
        <5>2. CASE z = m.xid
          <6>1. X2[z].msg = X[z].msg /\ X2[z].rdata = m /\ X2[z].on = X[z].on
            BY <5>2, <3>3, <3>5
          <6> QED BY <5>1, <5>2, <6>1, <3>10
        <5>3. CASE z # m.xid
          BY <5>1, <5>3, <3>3
        <5> QED BY <5>2, <5>3
      <4>2. T.want \in DOMAIN X2 /\ X2[T.want].rdata = None
        BY <2>6, <3>3, <4>0, <1>1 DEF Client
      <4> QED BY <4>1, <4>2, <2>4, <3>2 DEF Client, IsSending
    <3>8. Link(T2, X2, lockLost, r2, Len(calls), Cuts(r2, C2))
      <4>1. T2.pc \in {"idle", "listen"} /\ T.pc # "add" /\ (T.pc = "idle" => ~lockLost)
        BY <3>2, <1>1
      <4>2. m.xid \notin Xids(C) =>
              /\ \A y \in Range(Asked(r)) : y.msg = X[m.xid].msg => ~Ends(y, y.msg.frags)
              /\ ~Answered(T2, r2, X[m.xid].msg)
        BY <2>2, <2>3, <3>2
      <4>5. Told(T, r) = s \o Told(T2, r2) /\ Told(T2, r2) \in Seq(Pieces)
        BY <2>2, <3>2
      <4>3. /\ List(X) /\ m.xid \in DOMAIN X /\ s \in Seq(Pieces) /\ r2.recordbuf = r.recordbuf
            /\ Asked(r2) = Asked(r) /\ Link(T, X, lockLost, r, Len(calls), C)
            /\ \A z \in DOMAIN X : X[z].msg.xid = z
        BY <2>6, <2>4, <1>1, <1>3, <1>6, <1>7, <1>14
      <4>4. X2 = [X EXCEPT ![m.xid].rdata = m]
        BY DEF X2
      <4>6. Link(T2, X2, lockLost, r2, Len(calls), C)
        <5> HIDE DEF T, X, r, m
        <5>1. OnlyAt(m.xid, X, X2)
          BY ONLY <4>3, <4>4, KeptLink
        <5> QED BY ONLY <5>1, <4>1, <4>2, <4>3, <4>5, AnswerLink
      <4> QED BY <4>6, <1>13, <1>15
    <3>9. T2.ended # "stray" /\ (T2.answer # None => Fits(T2.answer, C2)) /\ Caller(T2, t, calls')
      BY <3>2, <1>1, <1>15, <1>16
    <3> QED BY <3>1, <3>2, <3>6, <3>7, <3>8, <3>9, <1>1, <1>2, <1>3, <1>4, <1>8, <1>9, <1>16, ClientUpdate
  <2> QED BY <2>5, <2>6, <2>7
<1> QED BY <1>10, <1>11, <1>12

(* What is thrown away with a misread record was never needed.               *)
LEMMA SafeRecvGarbage ==
  ASSUME SafeInv, NEW t \in Threads, RecvGarbage(t)
  PROVE  SafeInv'
<1> DEFINE r == Sock(t)
<1>1. /\ th[t].pc \notin {"add", "idle"} /\ th[t].sock # NoSocket /\ Raise(t, "garbled")
      /\ UNCHANGED <<xid, lockLost, xidlist, alive, calls, ran>> /\ faults' \in Nat
  BY StateFacts DEF RecvGarbage, Listening, Usable
<1>2. r \in Connections /\ r = conn[th[t].sock]
  BY <1>1, SockFacts
<1>3. PICK k \in 1..Len(r.down) :
        conn' = [conn EXCEPT ![th[t].sock].down = SubSeq(@, k + 1, Len(@))]
  BY DEF RecvGarbage
<1> DEFINE d2 == SubSeq(r.down, k + 1, Len(r.down))
           r2 == [r EXCEPT !.down = d2]
<1>4. conn' = [conn EXCEPT ![th[t].sock] = r2]
  BY <1>2, <1>3
<1>5. k \in 0..Len(r.down) /\ d2 \in Seq(Pieces)
  <2>1. r.down \in Seq(Pieces) /\ Len(r.down) \in Nat
    BY <1>2, ConnectionFields
  <2>2. \A i \in (k + 1)..Len(r.down) : r.down[i] \in Pieces
    BY <2>1, ElementOfSeq
  <2>3. k + 1 \in Int /\ Len(r.down) \in Int
    BY <2>1
  <2>4. d2 \in Seq(Pieces)
    BY ONLY <2>2, <2>3, SubSeqProperties
  <2> QED BY <2>1, <2>4
<1> HIDE DEF d2
<1>6. /\ r2 \in Connections /\ r2.by = r.by /\ r2.broken = r.broken /\ r2.recordbuf = r.recordbuf
      /\ r2.writebuf = r.writebuf /\ r2.up = r.up /\ r2.readbuf = r.readbuf
      /\ r2.packetbuf = r.packetbuf /\ r2.down = d2 /\ r2.cut = r.cut
  BY <1>2, <1>5 DEF Connections
<1> HIDE DEF r2
<1>7. r2.down = SubSeq(r.down, k + 1, Len(r.down))
  BY <1>6 DEF d2
<1> QED BY <1>1, <1>4, <1>5, <1>6, <1>7, RaiseStep

(* The call listened for is sent again on a connection that has not seen it. *)
LEMMA SafeRecvError ==
  ASSUME SafeInv, NEW t \in Threads, RecvError(t)
  PROVE  SafeInv'
<1> DEFINE T == th[t]
           X == xidlist[t]
<1>1. /\ T \in ThreadStates /\ List(X) /\ T.pc \in {"listen", "relisten"}
      /\ Client(T, X, Len(calls), Len(conn), CutBy(t)) /\ T.ended # "stray"
      /\ UNCHANGED <<xid, lockLost, xidlist, alive, calls, ran, faults>> /\ faults' \in Nat
  BY ThreadFacts, StateFacts DEF RecvError
<1>2. CASE T.pc = "listen"
  <2> DEFINE m == X[T.want].msg
             T2 == [T EXCEPT !.pc = "resend", !.part = 1, !.got = <<>>, !.msg = m]
  <2>1. Reconnect(t, T2)
    BY <1>2 DEF RecvError
  <2>2. m \in Messages /\ m.no \in (1..Len(calls)) \ CutBy(t) /\ T.want \in DOMAIN X /\ X[T.want].rdata = None
        /\ T.sock <= Len(conn)
    <3>1. /\ T.want \in DOMAIN X /\ X[T.want].rdata = None /\ X[T.want].msg.no \in (1..Len(calls)) \ CutBy(t)
          /\ T.sock <= Len(conn)
      BY <1>1 DEF Client
    <3>2. X[T.want] \in Entries
      BY <3>1, <1>1 DEF List
    <3> QED BY <3>1, <3>2 DEF Entries
  <2> HIDE DEF m
  <2>3. /\ T2 \in ThreadStates /\ T2.pc = "resend" /\ T2.part = 1 /\ T2.got = <<>> /\ T2.sock = T.sock
        /\ T2.msg = m /\ T2.ended = T.ended /\ T2.answer = T.answer /\ T2.want = T.want
    <3>1. <<>> \in Seq(Pieces) /\ m \in Messages \union {None} /\ 1 \in Nat
      BY <2>2
    <3> QED BY <3>1, <1>1 DEF ThreadStates
  <2> HIDE DEF T2
  <2>4. Client(T2, X, Len(calls), Len(conn), CutBy(t))
    <3>1. 1 \in 1..m.frags
      BY <2>2, MessageSizes
    <3>2. X[T.want].msg = m
      BY DEF m
    <3> QED BY <3>1, <3>2, <2>2, <2>3, <1>1, <1>2 DEF Client, IsSending
  <2> QED BY <2>1, <2>3, <2>4, <1>1, ReconnectStep
<1>3. CASE T.pc # "listen"
  <2>1. ReconnectAndRaise(t, "error")
    BY <1>3 DEF RecvError
  <2> QED BY <2>1, <1>1, ReconnectAndRaiseStep
<1> QED BY <1>2, <1>3

(* A call whose reply did not come in time stays on the list.                *)
LEMMA SafeRecvTimeout ==
  ASSUME SafeInv, NEW t \in Threads, RecvTimeout(t)
  PROVE  SafeInv'
<1>1. /\ th[t].pc \in {"listen", "relisten"} /\ faults' \in Nat /\ th[t].sock # NoSocket
      /\ UNCHANGED <<xid, lockLost, alive, calls, ran>> /\ UNCHANGED xidlist
  BY StateFacts DEF RecvTimeout, Listening, Usable, Fault, AfterTimeout
<1>2. CASE th[t].pc = "listen"
  <2>2. Sock(t) = conn[th[t].sock] /\ th[t].sock \in 1..Len(conn) /\ Sock(t) \in Connections
    BY <1>1, SockFacts
  <2>3. Raise(t, "timeout")
        /\ conn' = IF th[t].got = <<>> THEN conn ELSE [conn EXCEPT ![th[t].sock].torn = TRUE]
    BY <1>2 DEF RecvTimeout
  <2>4. PICK b \in BOOLEAN : conn' = [conn EXCEPT ![th[t].sock] = [Sock(t) EXCEPT !.torn = b]]
    <3>1. CASE th[t].got = <<>>
      <4>1. [Sock(t) EXCEPT !.torn = Sock(t).torn] = Sock(t) /\ Sock(t).torn \in BOOLEAN
        BY <2>2 DEF Connections
      <4>2. conn' = [conn EXCEPT ![th[t].sock] = Sock(t)]
        BY <2>2, <2>3, <3>1, StateFacts
      <4> QED BY <4>1, <4>2
    <3>2. CASE th[t].got # <<>>
      BY <3>2, <2>2, <2>3
    <3> QED BY <3>1, <3>2
  <2> DEFINE r2 == [Sock(t) EXCEPT !.torn = b]
  <2>5. /\ r2 \in Connections /\ r2.by = Sock(t).by /\ r2.broken = Sock(t).broken
        /\ r2.recordbuf = Sock(t).recordbuf /\ r2.writebuf = Sock(t).writebuf
        /\ r2.up = Sock(t).up /\ r2.readbuf = Sock(t).readbuf
        /\ r2.packetbuf = Sock(t).packetbuf /\ r2.down = Sock(t).down /\ r2.cut = Sock(t).cut
    BY <2>2 DEF Connections
  <2>6. conn' = [conn EXCEPT ![th[t].sock] = r2]
    BY <2>4
  <2> HIDE DEF r2
  <2>7. Sock(t).down = SubSeq(Sock(t).down, 0 + 1, Len(Sock(t).down)) /\ 0 \in 0..Len(Sock(t).down)
    BY <2>2, ConnectionFields, NothingTaken
  <2>8. th[t].pc \notin {"add", "idle"}
    BY <1>2
  <2>9. r2.down = SubSeq(Sock(t).down, 0 + 1, Len(Sock(t).down))
    BY <2>5, <2>7
  <2> QED BY <1>1, <2>3, <2>5, <2>6, <2>7, <2>8, <2>9, RaiseStep
<1>3. CASE th[t].pc # "listen"
  <2>1. ReconnectAndRaise(t, "timeout")
    BY <1>3 DEF RecvTimeout
  <2> QED BY <2>1, <1>1, ReconnectAndRaiseStep
<1> QED BY <1>2, <1>3

(* A step that leaves the streams of a connection as they are.               *)
LEMMA FlagStep ==
  ASSUME SafeInv, NEW c \in 1..Len(conn), NEW r2 \in Connections,
         conn' = [conn EXCEPT ![c] = r2], r2.by = conn[c].by, r2.broken = conn[c].broken,
         r2.packetbuf = conn[c].packetbuf, r2.readbuf = conn[c].readbuf, r2.up = conn[c].up,
         r2.cut = conn[c].cut, r2.down = conn[c].down, r2.writebuf = conn[c].writebuf, r2.recordbuf = conn[c].recordbuf,
         UNCHANGED <<xid, lockLost, th, xidlist, calls>>,
         alive' \in BOOLEAN, faults' \in Nat, ran' \in Seq(Nat), Len(ran') = Len(ran)
  PROVE  SafeInv'
<1>1. Asked(r2) = Asked(conn[c]) /\ \A T : Told(T, r2) = Told(T, conn[c])
  BY DEF Asked, Told
<1>2. ASSUME ~r2.broken PROVE ~conn[c].broken /\ Asks(r2, Len(calls))
  BY <1>1, <1>2, StateFacts, SameAsks
<1>3. ASSUME NEW t \in Threads, Link(th[t], xidlist[t], lockLost, conn[c], Len(calls), Cuts(conn[c], CutBy(t)))
      PROVE  Link(th[t], xidlist[t], lockLost, r2, Len(calls), Cuts(r2, CutBy(t)))
  <2>1. Told(th[t], r2) = Told(th[t], conn[c])
    BY <1>1
  <2>2. PICK C : C = Cuts(conn[c], CutBy(t)) /\ C = Cuts(r2, CutBy(t))
    BY DEF Cuts
  <2>3. Link(th[t], xidlist[t], lockLost, conn[c], Len(calls), C)
    BY <1>3, <2>2
  <2>4. Link(th[t], xidlist[t], lockLost, r2, Len(calls), C)
    BY <2>1, <2>3, <1>1, SameLink
  <2> QED BY <2>2, <2>4
<1> QED BY <1>2, <1>3, ServerStep

(* A closed socket stays the thread's.                                       *)
LEMMA SafeClose ==
  ASSUME SafeInv, NEW t \in Threads, Close(t)
  PROVE  SafeInv'
<1>1. /\ th[t].sock # NoSocket /\ conn' = Closed(t) /\ faults' \in Nat
      /\ UNCHANGED <<xid, lockLost, th, xidlist, alive, calls, ran>>
  BY StateFacts DEF Close, Usable, Fault
<1> DEFINE c == th[t].sock
           r2 == [conn[c] EXCEPT !.open = FALSE]
<1>2. c \in 1..Len(conn) /\ conn[c] \in Connections
  BY <1>1, SockFacts
<1>3. conn' = [conn EXCEPT ![c] = r2]
  BY <1>1 DEF Closed
<1>4. /\ r2 \in Connections /\ r2.by = conn[c].by /\ r2.broken = conn[c].broken
      /\ r2.packetbuf = conn[c].packetbuf /\ r2.readbuf = conn[c].readbuf /\ r2.up = conn[c].up
      /\ r2.down = conn[c].down /\ r2.writebuf = conn[c].writebuf /\ r2.recordbuf = conn[c].recordbuf
      /\ r2.cut = conn[c].cut
  BY <1>2 DEF Connections
<1>5. alive' \in BOOLEAN /\ ran' \in Seq(Nat) /\ Len(ran') = Len(ran)
  BY <1>1, StateFacts
<1> HIDE DEF r2, c
<1> QED BY <1>1, <1>2, <1>3, <1>4, <1>5, FlagStep

(* Accepting or dropping a connection touches no stream.                     *)
LEMMA SafeFd ==
  ASSUME SafeInv, NEW c \in 1..Len(conn), EventNewClient(c) \/ ReadEnd(c) \/ EventHup(c)
  PROVE  SafeInv'
<1>1. PICK f \in {"open", "gone"} : conn' = [conn EXCEPT ![c] = [conn[c] EXCEPT !.fd = f]]
  BY DEF EventNewClient, ReadEnd, EventHup
<1>2. /\ UNCHANGED <<xid, lockLost, th, xidlist, calls, ran, faults>> /\ alive' \in BOOLEAN
  BY StateFacts DEF EventNewClient, ReadEnd, EventHup
<1> DEFINE r2 == [conn[c] EXCEPT !.fd = f]
<1>3. conn[c] \in Connections
  BY StateFacts
<1>4. /\ r2 \in Connections /\ r2.by = conn[c].by /\ r2.broken = conn[c].broken
      /\ r2.packetbuf = conn[c].packetbuf /\ r2.readbuf = conn[c].readbuf /\ r2.up = conn[c].up
      /\ r2.down = conn[c].down /\ r2.writebuf = conn[c].writebuf /\ r2.recordbuf = conn[c].recordbuf
      /\ r2.cut = conn[c].cut
  BY <1>3 DEF Connections
<1>5. conn' = [conn EXCEPT ![c] = r2]
  BY <1>1
<1>6. ran' \in Seq(Nat) /\ Len(ran') = Len(ran) /\ faults' \in Nat
  BY <1>2, StateFacts
<1> HIDE DEF r2
<1> QED BY <1>2, <1>4, <1>5, <1>6, FlagStep

(* Nothing is required of a connection that was reset.                       *)
LEMMA SafeBreak ==
  ASSUME SafeInv, NEW c \in 1..Len(conn), Break(c)
  PROVE  SafeInv'
<1> DEFINE r2 == [conn[c] EXCEPT !.broken = TRUE, !.up = <<>>, !.down = <<>>]
<1>1. /\ UNCHANGED <<xid, lockLost, th, xidlist, calls>> /\ alive' \in BOOLEAN /\ faults' \in Nat
      /\ ran' \in Seq(Nat) /\ Len(ran') = Len(ran)
  BY StateFacts DEF Break, Fault
<1>2. r2 \in Connections /\ r2.by = conn[c].by /\ r2.broken /\ r2.cut = conn[c].cut
  <2>1. conn[c] \in Connections /\ <<>> \in Seq(Pieces)
    BY StateFacts
  <2> QED BY <2>1 DEF Connections
<1>3. conn' = [conn EXCEPT ![c] = r2]
  BY DEF Break
<1> HIDE DEF r2
<1> QED BY <1>1, <1>2, <1>3, ServerStep

-----------------------------------------------------------------------------
(* What the server reads and writes.                                         *)

\* the fields of a connection that reading leaves alone, and the streams
ReadKeeps(r, r2) ==
  /\ r2.by = r.by /\ r2.open = r.open /\ r2.broken = r.broken /\ r2.fd = r.fd
  /\ r2.down = r.down /\ r2.writebuf = r.writebuf /\ r2.cut = r.cut /\ r2.torn = r.torn
\* a packet is taken off: a fragment, or out of step with them
PacketOff(r, r2, taken) == r.readbuf \o r.up = taken \o (r2.readbuf \o r2.up)
Pair(s) == Len(s) = 2 /\ InStep(s)
OutOfStep(d) == d # <<>> /\ ~InStep(d) /\ (d[1].half = 1 => Len(d) >= 2)
Packet(r, taken, last) ==
  \/ Pair(taken) /\ (last <=> taken[1].part = taken[1].msg.frags)
  \/ OutOfStep(r.readbuf \o r.up)

\* read, without an event
ReadQuiet(r, r2, taken) ==
  /\ PacketOff(r, r2, taken) /\ (taken = <<>> \/ Packet(r, taken, FALSE))
  /\ r2.packetbuf = r.packetbuf \o taken
  /\ r2.recordbuf = r.recordbuf /\ r2.mask = r.mask

\* read, and a record is complete
ReadRecord(r, r2, taken) ==
  PacketOff(r, r2, taken) /\ Packet(r, taken, TRUE) /\ r2.packetbuf = <<>>
\* that is no whole call, and is dropped
Wrong(rec) == ~(rec # <<>> /\ Whole(rec, rec[1].msg.frags))
ReadDropped(r, r2, taken) ==
  /\ ReadRecord(r, r2, taken) /\ Wrong(r.packetbuf \o taken)
  /\ r2.recordbuf = r.recordbuf /\ r2.mask = r.mask
\* that is answered
ReadCall(r, r2, taken) ==
  LET rec == r.packetbuf \o taken
      m   == rec[1].msg
  IN  /\ ReadRecord(r, r2, taken) /\ rec # <<>> /\ Place(rec[1]) = 1
      /\ r2.recordbuf = Append(r.recordbuf, [msg |-> m, part |-> 1]) /\ r2.mask = "both"

(* A packet is taken off what was read, and the rest moves up.               *)
LEMMA PacketLeft ==
  ASSUME NEW r \in Connections, NEW data \in Seq(Pieces), NEW up2 \in Seq(Pieces),
         data \o up2 = r.readbuf \o r.up, NEW n \in 0..Len(data)
  PROVE  /\ SubSeq(data, 1, n) \in Seq(Pieces) /\ Len(SubSeq(data, 1, n)) = n
         /\ Rest(data, n) \in Seq(Pieces)
         /\ r.readbuf \o r.up = SubSeq(data, 1, n) \o (Rest(data, n) \o up2)
<1>1. PICK taken \in Seq(Pieces) : taken = SubSeq(data, 1, n) /\ Len(taken) = n
  BY PacketTaken
<1>2. PICK rest \in Seq(Pieces) : rest = Rest(data, n) /\ data = taken \o rest
  BY <1>1, PacketTaken DEF Rest
<1>3. (taken \o rest) \o up2 = taken \o (rest \o up2)
  BY Associative, Zenon
<1>4. r.readbuf \o r.up = taken \o (rest \o up2)
  BY <1>2, <1>3
<1> QED BY <1>1, <1>2, <1>4

(* What is out of step at the front of a stream is so with what follows.     *)
LEMMA PacketKinds ==
  ASSUME NEW data \in Seq(Pieces), NEW up2 \in Seq(Pieces), data # <<>>,
         NEW p \in Packets(data)
  PROVE  /\ p.size \in 0..Len(data) /\ p.last \in BOOLEAN
         /\ \/ p.size = 0 /\ ~p.last
            \/ Pair(SubSeq(data, 1, p.size))
               /\ (p.last <=> SubSeq(data, 1, p.size)[1].part = SubSeq(data, 1, p.size)[1].msg.frags)
            \/ OutOfStep(data \o up2)
<1>1. Len(data) \in Nat /\ Len(data) >= 1 /\ data[1] \in Pieces
  BY FirstPiece
<1>2. data[1].half \in {1, 2}
  BY <1>1 DEF Pieces
<1>3. CASE InStep(data)
  <2>1. p.size = 2 /\ (p.last <=> data[1].part = data[1].msg.frags) /\ p.last \in BOOLEAN
    <3>1. p \in {[size |-> 2, last |-> data[1].part = data[1].msg.frags]}
      BY <1>3 DEF Packets
    <3>2. p = [size |-> 2, last |-> data[1].part = data[1].msg.frags]
      BY ONLY <3>1, Zenon
    <3>3. p.size = 2
      BY ONLY <3>2, Zenon
    <3>4. p.last = (data[1].part = data[1].msg.frags)
      BY ONLY <3>2, Zenon
    <3> QED BY ONLY <3>3, <3>4, Zenon
  <2>2. Len(data) >= 2
    BY <1>3 DEF InStep
  <2>3. 2 \in 0..Len(data)
    BY <1>1, <2>2
  <2>4. PICK two : two = SubSeq(data, 1, 2) /\ Len(two) = 2 /\ \A i \in 1..2 : two[i] = data[i]
    <3>1. SubSeq(data, 1, 2) \in Seq(Pieces) /\ Len(SubSeq(data, 1, 2)) = 2
      BY <2>3, PacketTaken
    <3>2. \A i \in 1..2 : SubSeq(data, 1, 2)[i] = data[i]
      BY <1>1, <2>2, <2>3, <3>1
    <3> QED BY <3>1, <3>2
  <2>5. two[1] = data[1] /\ two[2] = data[2]
    BY <2>4
  <2>6. Pair(two)
    BY <1>3, <2>4, <2>5 DEF Pair, InStep
  <2> QED BY <2>1, <2>3, <2>4, <2>5, <2>6
<1>4. CASE ~InStep(data)
  <2>1. p = Nothing \/ p \in [size : (IF data[1].half = 1 THEN 2 ELSE 0)..Len(data), last : BOOLEAN]
    BY <1>4 DEF Packets
  <2>2. CASE p = Nothing
    BY <2>2, <1>1 DEF Nothing
  <2>3. CASE p \in [size : (IF data[1].half = 1 THEN 2 ELSE 0)..Len(data), last : BOOLEAN]
    <3>1. p.size \in (IF data[1].half = 1 THEN 2 ELSE 0)..Len(data) /\ p.last \in BOOLEAN
      BY <2>3
    <3>2. p.size \in 0..Len(data) /\ (data[1].half = 1 => Len(data) >= 2)
      BY <3>1, <1>1
    <3>3. /\ data \o up2 \in Seq(Pieces) /\ Len(data \o up2) = Len(data) + Len(up2) /\ Len(up2) \in Nat
          /\ \A i \in 1..Len(data) : (data \o up2)[i] = data[i]
      BY <1>1, ConcatProperties, LenProperties
    <3>4. (data \o up2)[1] = data[1] /\ (Len(data) >= 2 => (data \o up2)[2] = data[2])
      BY <3>3, <1>1
    <3>5. data \o up2 # <<>>
      <4>1. Len(data \o up2) # 0
        BY <3>3, <1>1
      <4> QED BY <4>1, <3>3, EmptySeq
    <3>6. ~InStep(data \o up2)
      <4>1. CASE data[1].half = 1
        BY <4>1, <3>2, <3>4, <1>4 DEF InStep
      <4>2. CASE data[1].half = 2
        BY <4>2, <3>4 DEF InStep
      <4> QED BY <4>1, <4>2, <1>2
    <3>7. Len(data) >= 2 => Len(data \o up2) >= 2
      BY <3>3, <1>1
    <3> QED BY <3>1, <3>2, <3>4, <3>5, <3>6, <3>7 DEF OutOfStep
  <2> QED BY <2>1, <2>2, <2>3
<1> QED BY <1>3, <1>4

(* read_data is one of these.                                                *)
LEMMA ReadCases ==
  ASSUME SafeInv, NEW c \in 1..Len(conn), ReadData(c)
  PROVE  /\ UNCHANGED <<xid, lockLost, th, xidlist, calls, faults>> /\ Serving(c)
         /\ \E r2 \in Connections, taken \in Seq(Pieces) :
              LET rec == conn[c].packetbuf \o taken
                  run == [ran EXCEPT ![rec[1].msg.no] = @ + 1]
              IN  /\ ReadKeeps(conn[c], r2)
                  /\ \/ ReadQuiet(conn[c], r2, taken) /\ conn' = [conn EXCEPT ![c] = r2]
                        /\ UNCHANGED <<alive, ran>>
                     \/ ReadDropped(conn[c], r2, taken) /\ conn' = [conn EXCEPT ![c] = r2]
                        /\ UNCHANGED <<alive, ran>>
                     \/ ReadCall(conn[c], r2, taken) /\ conn' = [conn EXCEPT ![c] = r2] /\ alive' = alive
                        /\ (ran' = run \/ (ran' = ran /\ Wrong(rec)))
                     \/ ReadDropped(conn[c], r2, taken) /\ alive' = FALSE /\ UNCHANGED <<conn, ran>>
<1>1. UNCHANGED <<xid, lockLost, th, xidlist, calls, faults>> /\ Serving(c)
  BY DEF ReadData
<1>2. PICK k \in 1..Len(conn[c].up) :
       LET data == conn[c].readbuf \o SubSeq(conn[c].up, 1, k)
           up   == SubSeq(conn[c].up, k + 1, Len(conn[c].up))
           Now(d, p) == [conn[c] EXCEPT !.up = up, !.readbuf = d, !.packetbuf = p]
       IN  /\ k <= RecvMax
           /\ \E p \in Packets(data) :
                LET rec == conn[c].packetbuf \o SubSeq(data, 1, p.size)
                IN  IF p.last THEN EventRead(c, Now(Rest(data, p.size), <<>>), rec)
                    ELSE /\ conn' = [conn EXCEPT ![c] = Now(Rest(data, p.size), rec)]
                         /\ UNCHANGED <<alive, ran>>
  BY DEF ReadData
<1>3. PICK r \in Connections : r = conn[c]
  BY StateFacts
<1> DEFINE data == r.readbuf \o SubSeq(r.up, 1, k)
           up2 == SubSeq(r.up, k + 1, Len(r.up))
           Now(d, p) == [r EXCEPT !.up = up2, !.readbuf = d, !.packetbuf = p]
<1>4. PICK p \in Packets(data) :
        LET rec == r.packetbuf \o SubSeq(data, 1, p.size)
        IN  IF p.last THEN EventRead(c, Now(Rest(data, p.size), <<>>), rec)
            ELSE /\ conn' = [conn EXCEPT ![c] = Now(Rest(data, p.size), rec)]
                 /\ UNCHANGED <<alive, ran>>
  BY <1>2, <1>3
<1>5. k \in 1..Len(r.up)
  BY <1>3
<1>6. /\ data \in Seq(Pieces) /\ up2 \in Seq(Pieces) /\ Len(data) \in Nat
      /\ data \o up2 = r.readbuf \o r.up /\ data # <<>>
  <2>1. /\ data \in Seq(Pieces) /\ up2 \in Seq(Pieces) /\ Len(data) \in Nat
        /\ data \o up2 = r.readbuf \o r.up
    BY <1>5, ReadMoves
  <2>2. /\ r.readbuf \in Seq(Pieces) /\ SubSeq(r.up, 1, k) \in Seq(Pieces) /\ Len(SubSeq(r.up, 1, k)) = k
        /\ k \in Nat /\ k >= 1 /\ Len(r.readbuf) \in Nat
    <3>1. r.up \in Seq(Pieces) /\ Len(r.up) \in Nat /\ r.readbuf \in Seq(Pieces) /\ Len(r.readbuf) \in Nat
      BY ConnectionFields
    <3>2. k \in 0..Len(r.up)
      BY <1>5, <3>1
    <3> QED BY <3>1, <3>2, <1>5, PacketTaken
  <2>3. Len(data) = Len(r.readbuf) + k
    BY <2>2, ConcatProperties
  <2>4. Len(data) # 0
    BY <2>2, <2>3
  <2> QED BY <2>1, <2>4, EmptySeq
<1>7. r.packetbuf \in Seq(Pieces) /\ r.readbuf \in Seq(Pieces) /\ r.up \in Seq(Pieces)
      /\ r.recordbuf \in Seq(Queued)
  BY ConnectionFields
<1> HIDE DEF up2, data
<1>8. ASSUME NEW d \in Seq(Pieces), NEW q \in Seq(Pieces)
      PROVE  /\ Now(d, q) \in Connections /\ ReadKeeps(r, Now(d, q)) /\ Now(d, q).recordbuf = r.recordbuf
             /\ Now(d, q).mask = r.mask /\ Now(d, q).packetbuf = q /\ Now(d, q).readbuf = d
             /\ Now(d, q).up = up2
  BY <1>6, <1>8 DEF ReadKeeps, Connections
<1>9. /\ p.size \in 0..Len(data) /\ p.last \in BOOLEAN
      /\ \/ p.size = 0 /\ ~p.last
         \/ Pair(SubSeq(data, 1, p.size))
            /\ (p.last <=> SubSeq(data, 1, p.size)[1].part = SubSeq(data, 1, p.size)[1].msg.frags)
         \/ OutOfStep(r.readbuf \o r.up)
  BY <1>6, PacketKinds
<1>10. PICK taken \in Seq(Pieces) :
         /\ taken = SubSeq(data, 1, p.size) /\ Len(taken) = p.size /\ Rest(data, p.size) \in Seq(Pieces)
         /\ r.readbuf \o r.up = taken \o (Rest(data, p.size) \o up2)
  BY <1>6, <1>9, PacketLeft
<1>11. p.size = 0 => taken = <<>>
  BY <1>10, EmptySeq
<1>12. PICK rec \in Seq(Pieces) : rec = r.packetbuf \o taken
  BY <1>7, Concatenated
<1> HIDE DEF Now
<1>13. CASE ~p.last
  <2> DEFINE r2 == Now(Rest(data, p.size), rec)
  <2>1. conn' = [conn EXCEPT ![c] = r2] /\ UNCHANGED <<alive, ran>>
    BY <1>4, <1>10, <1>12, <1>13
  <2>2. /\ r2 \in Connections /\ ReadKeeps(r, r2) /\ r2.recordbuf = r.recordbuf
        /\ r2.mask = r.mask /\ r2.packetbuf = rec /\ r2.readbuf = Rest(data, p.size) /\ r2.up = up2
    BY <1>8, <1>10
  <2> HIDE DEF r2
  <2>3. PacketOff(r, r2, taken)
    BY <2>2, <1>10 DEF PacketOff
  <2>4. taken = <<>> \/ Packet(r, taken, FALSE)
    BY <1>9, <1>10, <1>11, <1>13 DEF Packet
  <2>5. ReadQuiet(r, r2, taken)
    BY <2>2, <2>3, <2>4, <1>12 DEF ReadQuiet
  <2> QED BY <2>1, <2>2, <2>5, <1>1, <1>3
<1>14. CASE p.last
  <2> DEFINE r1 == Now(Rest(data, p.size), <<>>)
             m == rec[1].msg
             run == [ran EXCEPT ![m.no] = @ + 1]
             r2 == Answering(r1, m)
  <2>1. EventRead(c, r1, rec)
    BY <1>4, <1>10, <1>12, <1>14
  <2>2. /\ r1 \in Connections /\ ReadKeeps(r, r1) /\ r1.recordbuf = r.recordbuf
        /\ r1.mask = r.mask /\ r1.packetbuf = <<>> /\ r1.readbuf = Rest(data, p.size) /\ r1.up = up2
    <3>1. <<>> \in Seq(Pieces)
      OBVIOUS
    <3> QED BY <3>1, <1>8, <1>10
  <2> HIDE DEF r1
  <2>3. ReadRecord(r, r1, taken)
    <3>1. Packet(r, taken, TRUE)
      BY <1>9, <1>10, <1>14 DEF Packet
    <3> QED BY <3>1, <2>2, <1>10 DEF ReadRecord, PacketOff
  <2>4. /\ Wrong(rec) => ReadDropped(r, r1, taken)
        /\ ~Wrong(rec) => rec # <<>> /\ Place(rec[1]) = 1
    <3>1. Wrong(rec) => ReadDropped(r, r1, taken)
      BY <2>2, <2>3, <1>12 DEF ReadDropped
    <3>2. ASSUME ~Wrong(rec) PROVE rec # <<>> /\ Place(rec[1]) = 1
      <4>1. rec # <<>> /\ Whole(rec, m.frags)
        BY <3>2 DEF Wrong
      <4>2. 1 \in 1..Len(rec)
        BY <4>1, FirstPiece
      <4> QED BY <4>1, <4>2 DEF Whole
    <3> QED BY <3>1, <3>2
  <2>5. \/ /\ rec # <<>> /\ Place(rec[1]) = 1
           /\ conn' = [conn EXCEPT ![c] = r2] /\ alive' = alive
           /\ (ran' = run \/ (ran' = ran /\ Wrong(rec)))
        \/ Wrong(rec) /\ alive' = FALSE /\ UNCHANGED <<conn, ran>>
        \/ Wrong(rec) /\ conn' = [conn EXCEPT ![c] = r1] /\ UNCHANGED <<alive, ran>>
    <3>1. CASE Wrong(rec)
      <4>1. ~(rec # <<>> /\ Whole(rec, m.frags))
        BY <3>1 DEF Wrong
      <4> QED BY <2>1, <3>1, <4>1 DEF EventRead
    <3>2. CASE ~Wrong(rec)
      <4>1. rec # <<>> /\ Whole(rec, m.frags)
        BY <3>2 DEF Wrong
      <4>2. conn' = [conn EXCEPT ![c] = r2] /\ alive' = alive /\ ran' = run
        BY <2>1, <4>1 DEF EventRead
      <4> QED BY <2>4, <3>2, <4>2
    <3> QED BY <3>1, <3>2
  <2>6. CASE /\ rec # <<>> /\ Place(rec[1]) = 1
             /\ conn' = [conn EXCEPT ![c] = r2] /\ alive' = alive
             /\ (ran' = run \/ (ran' = ran /\ Wrong(rec)))
    <3> DEFINE q == Append(r.recordbuf, [msg |-> m, part |-> 1])
    <3>1. q \in Seq(Queued)
      <4>1. m \in Messages
        BY <2>6, FirstPiece
      <4>2. [msg |-> m, part |-> 1] \in Queued
        BY <4>1 DEF Queued
      <4> QED BY <4>2, <1>7, AppendProperties
    <3> HIDE DEF q
    <3>2. /\ r2 \in Connections /\ ReadKeeps(r1, r2) /\ r2.recordbuf = q /\ r2.mask = "both"
          /\ r2.packetbuf = <<>> /\ r2.readbuf = r1.readbuf /\ r2.up = r1.up
      <4>1. r2 = [r1 EXCEPT !.recordbuf = q, !.mask = "both"]
        BY <2>2 DEF q, Answering
      <4> HIDE DEF r2
      <4> QED BY <4>1, <3>1, <2>2 DEF ReadKeeps, Connections
    <3> HIDE DEF r2
    <3>3. ReadKeeps(r, r2)
      BY <3>2, <2>2 DEF ReadKeeps
    <3>4. ReadRecord(r, r2, taken)
      BY <3>2, <2>3 DEF ReadRecord, PacketOff
    <3>5. ReadCall(r, r2, taken)
      BY <3>2, <3>4, <2>6, <1>12 DEF ReadCall, q
    <3> QED BY <3>2, <3>3, <3>5, <2>6, <1>1, <1>3, <1>12
  <2>7. CASE Wrong(rec) /\ alive' = FALSE /\ UNCHANGED <<conn, ran>>
    BY <2>7, <2>2, <2>4, <1>1, <1>3
  <2>8. CASE Wrong(rec) /\ conn' = [conn EXCEPT ![c] = r1] /\ UNCHANGED <<alive, ran>>
    BY <2>8, <2>2, <2>4, <1>1, <1>3
  <2> QED BY <2>5, <2>6, <2>7, <2>8
<1> QED BY <1>9, <1>13, <1>14

(* The streams, put together from the other end.                             *)
LEMMA StreamsAgain ==
  ASSUME NEW r \in Connections, NEW T \in ThreadStates
  PROVE  /\ r.readbuf \o r.up \in Seq(Pieces) /\ Asked(r) = r.packetbuf \o (r.readbuf \o r.up)
         /\ r.down \o r.writebuf \in Seq(Pieces) /\ Told(T, r) = T.got \o (r.down \o r.writebuf)
<1>1. /\ r.packetbuf \in Seq(Pieces) /\ r.readbuf \in Seq(Pieces) /\ r.up \in Seq(Pieces)
      /\ r.down \in Seq(Pieces) /\ r.writebuf \in Seq(Pieces) /\ T.got \in Seq(Pieces)
  BY ConnectionFields, ThreadFields
<1>2. Asked(r) = r.packetbuf \o (r.readbuf \o r.up)
  <2>1. PICK a \in Seq(Pieces), b \in Seq(Pieces), d \in Seq(Pieces) :
          a = r.packetbuf /\ b = r.readbuf /\ d = r.up
    BY <1>1
  <2>2. (a \o b) \o d = a \o (b \o d)
    BY Associative, Zenon
  <2> QED BY <2>1, <2>2 DEF Asked
<1>3. Told(T, r) = T.got \o (r.down \o r.writebuf)
  <2>1. PICK a \in Seq(Pieces), b \in Seq(Pieces), d \in Seq(Pieces) :
          a = T.got /\ b = r.down /\ d = r.writebuf
    BY <1>1
  <2>2. (a \o b) \o d = a \o (b \o d)
    BY Associative, Zenon
  <2> QED BY <2>1, <2>2 DEF Told
<1>4. r.readbuf \o r.up \in Seq(Pieces) /\ r.down \o r.writebuf \in Seq(Pieces)
  BY ONLY <1>1, Concatenated
<1> QED BY <1>2, <1>3, <1>4

(* A packet that goes from the one buffer to the other changes no stream.    *)
LEMMA PacketMoved ==
  ASSUME NEW r \in Connections, NEW r2 \in Connections, NEW taken \in Seq(Pieces),
         PacketOff(r, r2, taken)
  PROVE  /\ r.packetbuf \o taken \in Seq(Pieces) /\ Len(r.packetbuf \o taken) = Len(r.packetbuf) + Len(taken)
         /\ Len(r.packetbuf) \in Nat
         /\ Asked(r) = (r.packetbuf \o taken) \o (r2.readbuf \o r2.up)
         /\ r2.readbuf \o r2.up \in Seq(Pieces)
<1>1. r.packetbuf \in Seq(Pieces) /\ Len(r.packetbuf) \in Nat
  BY ConnectionFields
<1>2. PICK T \in ThreadStates : TRUE
  BY SomeThread
<1>3. r2.readbuf \o r2.up \in Seq(Pieces) /\ Asked(r) = r.packetbuf \o (r.readbuf \o r.up)
  BY <1>2, StreamsAgain
<1>4. r.readbuf \o r.up = taken \o (r2.readbuf \o r2.up)
  BY DEF PacketOff
<1>5. (r.packetbuf \o taken) \o (r2.readbuf \o r2.up) = r.packetbuf \o (taken \o (r2.readbuf \o r2.up))
  BY <1>1, <1>3, Associative, Zenon
<1>6. r.packetbuf \o taken \in Seq(Pieces) /\ Len(r.packetbuf \o taken) = Len(r.packetbuf) + Len(taken)
  BY <1>1, ConcatProperties
<1> QED BY <1>1, <1>3, <1>4, <1>5, <1>6

(* Reading without an event changes no stream.                               *)
LEMMA ReadQuietAsked ==
  ASSUME NEW r \in Connections, NEW r2 \in Connections, NEW taken \in Seq(Pieces), ReadQuiet(r, r2, taken)
  PROVE  Asked(r2) = Asked(r)
<1>1. PICK T \in ThreadStates : TRUE
  BY SomeThread
<1>2. Asked(r2) = r2.packetbuf \o (r2.readbuf \o r2.up)
  BY <1>1, StreamsAgain
<1>3. PacketOff(r, r2, taken) /\ r2.packetbuf = r.packetbuf \o taken
  BY DEF ReadQuiet
<1>4. Asked(r) = (r.packetbuf \o taken) \o (r2.readbuf \o r2.up)
  BY <1>3, PacketMoved
<1> QED BY <1>2, <1>3, <1>4

(* A record, whole or not, is off the stream.                                *)
LEMMA ReadRecordAsked ==
  ASSUME NEW r \in Connections, NEW r2 \in Connections, NEW taken \in Seq(Pieces), ReadRecord(r, r2, taken)
  PROVE  LET rec == r.packetbuf \o taken
         IN  rec \in Seq(Pieces) /\ Asked(r) = rec \o Asked(r2) /\ Asked(r2) = r2.readbuf \o r2.up
<1>1. PICK rec \in Seq(Pieces) :
        rec = r.packetbuf \o taken /\ Asked(r) = rec \o (r2.readbuf \o r2.up)
  BY PacketMoved DEF ReadRecord
<1>2. PICK T \in ThreadStates : TRUE
  BY SomeThread
<1>3. r2.readbuf \o r2.up \in Seq(Pieces) /\ Asked(r2) = <<>> \o (r2.readbuf \o r2.up)
  BY <1>2, StreamsAgain DEF ReadRecord
<1>4. Asked(r2) = r2.readbuf \o r2.up
  BY <1>3, ConcatEmptySeq
<1> QED BY <1>1, <1>4

(* The elements of two sequences put together.                               *)
LEMMA Joined ==
  ASSUME NEW a \in Seq(Pieces), NEW b \in Seq(Pieces), NEW s, s = a \o b
  PROVE  /\ s \in Seq(Pieces) /\ Len(a) \in Nat /\ Len(b) \in Nat /\ Len(s) = Len(a) + Len(b)
         /\ \A i \in 1..Len(a) : s[i] = a[i] /\ i \in 1..Len(s)
         /\ \A i \in 1..Len(b) : s[Len(a) + i] = b[i] /\ Len(a) + i \in 1..Len(s)
<1>1. Len(a) \in Nat /\ Len(b) \in Nat
  BY LenProperties
<1>2. /\ s \in Seq(Pieces) /\ Len(s) = Len(a) + Len(b)
      /\ \A i \in 1..(Len(a) + Len(b)) : s[i] = IF i <= Len(a) THEN a[i] ELSE b[i - Len(a)]
  BY ConcatProperties
<1>3. ASSUME NEW i \in 1..Len(a) PROVE s[i] = a[i] /\ i \in 1..Len(s)
  BY <1>1, <1>2
<1>4. ASSUME NEW i \in 1..Len(b) PROVE s[Len(a) + i] = b[i] /\ Len(a) + i \in 1..Len(s)
  <2>1. Len(a) + i \in 1..(Len(a) + Len(b)) /\ ~(Len(a) + i <= Len(a)) /\ (Len(a) + i) - Len(a) = i
    BY <1>1
  <2> QED BY <2>1, <1>2
<1> QED BY <1>1, <1>2, <1>3, <1>4

(* Two pieces at the front of a stream are those of one fragment.            *)
LEMMA FirstPair ==
  ASSUME NEW d \in Seq(Pieces), Len(d) >= 2, d[1].half = 1, d[2].msg = d[1].msg,
         Place(d[2]) = Place(d[1]) + 1
  PROVE  InStep(d)
<1>1. Len(d) \in Nat /\ 1 \in 1..Len(d) /\ 2 \in 1..Len(d)
  BY LenProperties
<1>2. d[1] \in Pieces /\ d[2] \in Pieces
  BY <1>1, ElementOfSeq
<1>3. d[2].part = d[1].part /\ d[2].half = 2
  <2>1. PICK x \in Pieces, y \in Pieces : x = d[1] /\ y = d[2]
    BY <1>2
  <2>2. x.part \in Nat /\ x.half = 1 /\ Place(y) = Place(x) + 1 /\ Place(x) \in Nat
    BY <2>1, PlaceOfPiece
  <2>3. Place(x) = 2 * x.part - 1
    BY <2>2, PlaceBounds
  <2>4. Place(y) = 2 * x.part
    BY ONLY <2>2, <2>3
  <2>5. y.part = x.part /\ y.half = 2
    BY <2>2, <2>4, PlaceBounds
  <2> QED BY <2>1, <2>5
<1>4. d[2] = [d[1] EXCEPT !.half = 2]
  BY <1>2, <1>3 DEF Pieces
<1> QED BY <1>4 DEF InStep

(* Where the record read next begins with a call that was not cut, what is   *)
(* read after what there is of it goes on with it.                           *)
LEMMA NextInRecord ==
  ASSUME NEW C, NEW r \in Connections, NEW d \in Seq(Pieces), d # <<>>, d = r.readbuf \o r.up,
         AsksWhole(r, C), Place(Asked(r)[1]) = 1, Asked(r)[1].msg.no \notin C
  PROVE  LET p == r.packetbuf
         IN  /\ d[1].msg = Asked(r)[1].msg /\ Place(d[1]) = Len(p) + 1 /\ d[1].half = 1
             /\ \A i \in 1..Len(p) : p[i].msg = Asked(r)[1].msg /\ Place(p[i]) = i
             /\ Len(d) >= 2 => InStep(d)
<1> DEFINE s == Asked(r)
           p == r.packetbuf
<1>0. PICK d0 \in Seq(Pieces) : d0 = d
  OBVIOUS
<1>1. PICK T \in ThreadStates : TRUE
  BY SomeThread
<1>2. p \in Seq(Pieces) /\ Len(p) \in Nat /\ s \in Seq(Pieces) /\ s = p \o d
  BY <1>1, StreamsAgain, ConnectionFields, AskedType
<1>3. /\ Len(d) \in Nat /\ Len(d) >= 1 /\ d[1] \in Pieces
  BY FirstPiece
<1>4. /\ Len(s) = Len(p) + Len(d)
      /\ \A i \in 1..Len(p) : s[i] = p[i]
      /\ s[Len(p) + 1] = d[1] /\ (Len(d) >= 2 => s[Len(p) + 2] = d[2])
  <2>1. /\ Len(s) = Len(p) + Len(d)
        /\ \A i \in 1..Len(p) : s[i] = p[i]
        /\ \A i \in 1..Len(d) : s[Len(p) + i] = d[i]
    <3>1. p \in Seq(Pieces) /\ d \in Seq(Pieces) /\ s = p \o d
      BY <1>2
    <3> HIDE DEF s, p
    <3> QED BY ONLY <3>1, Joined
  <2>2. 1 \in 1..Len(d) /\ (Len(d) >= 2 => 2 \in 1..Len(d))
    BY ONLY <1>3
  <2> QED BY ONLY <2>1, <2>2
<1>5. /\ \A i \in 1..(Len(s) - 1) : s[i].msg.no \notin C => After(s[i], s[i + 1], s[i].msg.frags)
      /\ p # <<>> /\ Place(p[1]) = 1 /\ p[1].msg.no \notin C => Clean(p)
      /\ Place(s[1]) = 1 /\ s[1].msg.no \notin C
  BY DEF AsksWhole
<1> HIDE DEF s, p
<1>6. /\ d[1].msg = s[1].msg /\ Place(d[1]) = Len(p) + 1 /\ d[1].half = 1
      /\ \A i \in 1..Len(p) : p[i].msg = s[1].msg /\ Place(p[i]) = i
  <2>1. CASE p = <<>>
    <3>1. Len(p) = 0
      BY <2>1, EmptyRange
    <3>2. s[1] = d[1]
      <4>1. Len(p) + 1 = 1
        BY <3>1
      <4> QED BY <4>1, <1>4
    <3>3. d[1].half = 1
      <4>1. Place(d[1]) = 2 * 1 - 1
        BY <3>2, <1>5
      <4> QED BY <4>1, <1>3, PlaceBounds
    <3> QED BY <3>1, <3>2, <3>3, <1>5
  <2>2. CASE p # <<>>
    <3>1. Len(p) >= 1 /\ p[1] = s[1]
      <4>1. Len(p) >= 1 /\ 1 \in 1..Len(p)
        BY <2>2, <1>2, FirstPiece
      <4> QED BY <4>1, <1>4
    <3>2. Clean(p)
      BY <2>2, <3>1, <1>5
    <3>3. /\ \A i \in 1..Len(p) : p[i].msg = s[1].msg /\ Place(p[i]) = i /\ ~Ends(p[i], p[i].msg.frags)
          /\ p[Len(p)].half = 2
      BY <3>1, <3>2, <2>2 DEF Clean
    <3>4. Len(p) \in 1..Len(p) /\ Len(p) \in 1..(Len(s) - 1)
      BY ONLY <3>1, <1>2, <1>3, <1>4
    <3>5. PICK l \in Pieces : l = p[Len(p)] /\ l = s[Len(p)]
      BY <3>4, <1>2, <1>4, ElementOfSeq
    <3>6. l.msg = s[1].msg /\ Place(l) = Len(p) /\ l.half = 2 /\ ~Ends(l, l.msg.frags)
      BY <3>3, <3>4, <3>5
    <3>7. After(l, d[1], l.msg.frags)
      BY <3>4, <3>5, <3>6, <1>4, <1>5
    <3>8. d[1].msg = s[1].msg /\ Place(d[1]) = Len(p) + 1
      BY <3>6, <3>7 DEF After
    <3>9. d[1].half = 1
      <4>1. PICK y \in Pieces : y = d[1] /\ Place(y) = Len(p) + 1
        BY <1>3, <3>8
      <4>2. /\ 2 * (l.part - 1) + 2 = Len(p) /\ l.part \in Nat
            /\ 2 * (y.part - 1) + y.half = Len(p) + 1 /\ y.part \in Nat /\ y.half \in {1, 2}
        BY <3>6, <4>1 DEF Place, Pieces
      <4>3. PICK i \in Nat, j \in Nat, k \in Nat : i = l.part /\ j = y.part /\ k = Len(p)
        BY <4>2, <1>2
      <4>4. CASE y.half = 2
        <5>1. 2 * (j - 1) + 2 = k + 1 /\ 2 * (i - 1) + 2 = k
          BY <4>2, <4>3, <4>4
        <5> QED BY ONLY <5>1
      <4> QED BY <4>1, <4>2, <4>4
    <3> QED BY <3>3, <3>8, <3>9
  <2> QED BY <2>1, <2>2
<1>7. ASSUME Len(d) >= 2 PROVE InStep(d)
  <2>1. Len(p) + 1 \in 1..(Len(s) - 1)
    BY ONLY <1>2, <1>3, <1>4, <1>7
  <2>2. After(d[1], d[2], d[1].msg.frags)
    <3>1. After(s[Len(p) + 1], s[(Len(p) + 1) + 1], s[Len(p) + 1].msg.frags)
      BY <2>1, <1>4, <1>5, <1>6
    <3>2. (Len(p) + 1) + 1 = Len(p) + 2
      BY <1>2
    <3> QED BY <3>1, <3>2, <1>4, <1>7
  <2>3. ~Ends(d[1], d[1].msg.frags)
    BY <1>6 DEF Ends
  <2> QED BY <2>2, <2>3, <1>6, <1>7, FirstPair DEF After
<1> QED BY <1>6, <1>7 DEF s, p

(* A packet of such a record is a fragment of its call.                      *)
LEMMA NextPacket ==
  ASSUME NEW C, NEW r \in Connections, NEW r2 \in Connections, NEW taken \in Seq(Pieces), NEW last \in BOOLEAN,
         PacketOff(r, r2, taken), Packet(r, taken, last),
         AsksWhole(r, C), Asked(r) # <<>>, Place(Asked(r)[1]) = 1, Asked(r)[1].msg.no \notin C
  PROVE  LET rec == r.packetbuf \o taken
             m == Asked(r)[1].msg
         IN  /\ rec \in Seq(Pieces) /\ rec # <<>> /\ rec[1] = Asked(r)[1] /\ m \in Messages
             /\ \A i \in 1..Len(rec) : rec[i].msg = m /\ Place(rec[i]) = i
             /\ rec[Len(rec)].half = 2 /\ Len(rec) = 2 * rec[Len(rec)].part
             /\ last <=> Len(rec) = 2 * m.frags
             /\ Pair(taken)
<1> DEFINE rec == r.packetbuf \o taken
           m == Asked(r)[1].msg
           p == r.packetbuf
<1>1. PICK d \in Seq(Pieces), rest \in Seq(Pieces) :
        d = r.readbuf \o r.up /\ rest = r2.readbuf \o r2.up /\ d = taken \o rest
  <2>1. PICK T \in ThreadStates : TRUE
    BY SomeThread
  <2> QED BY <2>1, StreamsAgain DEF PacketOff
<1>2. d # <<>> /\ (Len(d) >= 2 \/ (d[1].half # 1 /\ ~Pair(taken)))
  <2>1. CASE Pair(taken)
    <3>1. Len(taken) = 2
      BY <2>1 DEF Pair
    <3>2. Len(d) = 2 + Len(rest) /\ Len(rest) \in Nat
      <4>1. d = taken \o rest /\ d \in Seq(Pieces) /\ rest \in Seq(Pieces) /\ taken \in Seq(Pieces)
        BY <1>1
      <4>2. Len(d) = Len(taken) + Len(rest) /\ Len(rest) \in Nat
        BY ONLY <4>1, Joined
      <4> QED BY ONLY <4>2, <3>1
    <3>3. Len(d) >= 2 /\ Len(d) # 0
      BY ONLY <3>2
    <3> QED BY <3>3, EmptyRange, EmptySeq
  <2>2. CASE OutOfStep(d) /\ ~Pair(taken)
    BY <2>2 DEF OutOfStep
  <2> QED BY <2>1, <2>2, <1>1 DEF Packet
<1>3. /\ d[1].msg = m /\ Place(d[1]) = Len(p) + 1 /\ d[1].half = 1
      /\ \A i \in 1..Len(p) : p[i].msg = m /\ Place(p[i]) = i
      /\ Len(d) >= 2 => InStep(d)
  BY <1>1, <1>2, NextInRecord
<1>4. Len(d) >= 2 /\ InStep(d)
  BY <1>2, <1>3
<1>5. Pair(taken) /\ (last <=> taken[1].part = taken[1].msg.frags)
  <2>1. ~OutOfStep(r.readbuf \o r.up)
    BY <1>1, <1>4 DEF OutOfStep
  <2> QED BY <2>1 DEF Packet
<1>6. Len(taken) = 2 /\ taken[1] = d[1] /\ taken[2] = d[2]
  <2>1. Len(taken) = 2
    BY <1>5 DEF Pair
  <2>2. \A i \in 1..Len(taken) : d[i] = taken[i]
    <3>1. d = taken \o rest /\ d \in Seq(Pieces) /\ rest \in Seq(Pieces) /\ taken \in Seq(Pieces)
      BY <1>1
    <3> QED BY ONLY <3>1, Joined
  <2>3. 1 \in 1..Len(taken) /\ 2 \in 1..Len(taken)
    BY ONLY <2>1
  <2> QED BY ONLY <2>1, <2>2, <2>3
<1>7. PICK x \in Pieces, y \in Pieces : x = d[1] /\ y = d[2] /\ y = [x EXCEPT !.half = 2]
  <2>1. d[1] \in Pieces /\ d[2] \in Pieces
    <3>1. Len(d) \in Nat
      BY LenProperties
    <3>2. 1 \in 1..Len(d) /\ 2 \in 1..Len(d)
      BY <3>1, <1>4
    <3> QED BY <3>2, ElementOfSeq
  <2> QED BY <2>1, <1>4 DEF InStep
<1>8. /\ y.msg = m /\ y.part = x.part /\ y.half = 2 /\ x.part \in Nat
      /\ Place(x) = 2 * (x.part - 1) + 1 /\ Place(y) = 2 * (x.part - 1) + 2
  BY <1>3, <1>7 DEF Pieces, Place
<1>9. /\ p \in Seq(Pieces) /\ Len(p) \in Nat /\ rec \in Seq(Pieces) /\ Len(rec) = Len(p) + 2
      /\ \A i \in 1..Len(p) : rec[i] = p[i]
      /\ rec[Len(p) + 1] = x /\ rec[Len(p) + 2] = y
  <2>1. p \in Seq(Pieces) /\ Len(p) \in Nat /\ rec \in Seq(Pieces) /\ taken \in Seq(Pieces)
    BY ConnectionFields, Concatenated
  <2> HIDE DEF rec, p
  <2>2. /\ Len(rec) = Len(p) + Len(taken)
        /\ \A i \in 1..Len(p) : rec[i] = p[i]
        /\ \A i \in 1..Len(taken) : rec[Len(p) + i] = taken[i]
    <3>1. rec = p \o taken
      BY DEF rec, p
    <3> QED BY ONLY <2>1, <3>1, Joined
  <2>3. 1 \in 1..Len(taken) /\ 2 \in 1..Len(taken)
    BY ONLY <1>6
  <2> QED BY <2>1, <2>2, <2>3, <1>6, <1>7
<1>10. \A i \in 1..Len(rec) : \/ i \in 1..Len(p) /\ rec[i] = p[i]
                              \/ i = Len(p) + 1 /\ rec[i] = x
                              \/ i = Len(p) + 2 /\ rec[i] = y
  <2> SUFFICES ASSUME NEW i \in 1..Len(rec)
               PROVE  \/ i \in 1..Len(p) /\ rec[i] = p[i]
                      \/ i = Len(p) + 1 /\ rec[i] = x
                      \/ i = Len(p) + 2 /\ rec[i] = y
    OBVIOUS
  <2>1. i \in 1..Len(p) \/ i = Len(p) + 1 \/ i = Len(p) + 2
    <3>1. i \in 1..Len(rec)
      OBVIOUS
    <3> HIDE DEF rec, p
    <3> QED BY ONLY <3>1, <1>9
  <2> QED BY ONLY <2>1, <1>9
<1>11. Place(x) = Len(p) + 1 /\ x.msg = m /\ Place(y) = Len(p) + 2
  <2>1. Place(x) = Len(p) + 1 /\ x.msg = m
    BY <1>3, <1>7
  <2>2. PICK i \in Nat, k \in Nat : i = x.part /\ k = Len(p)
    BY <1>8, <1>9
  <2>3. 2 * (i - 1) + 1 = k + 1
    BY <2>1, <2>2, <1>8
  <2>5. \A a \in Nat, b \in Nat : 2 * (a - 1) + 1 = b + 1 => 2 * (a - 1) + 2 = b + 2
    BY ONLY TRUE
  <2>4. 2 * (i - 1) + 2 = k + 2
    BY ONLY <2>3, <2>5
  <2> QED BY <2>1, <2>2, <2>4, <1>8
<1> HIDE DEF rec, m, p
<1>12. \A i \in 1..Len(rec) : rec[i].msg = m /\ Place(rec[i]) = i
  BY <1>3, <1>8, <1>10, <1>11
<1>13. rec # <<>> /\ 1 \in 1..Len(rec) /\ Len(rec) \in 1..Len(rec)
  BY <1>9, EmptyRange
<1>14. rec[Len(rec)] = y
  BY <1>9, <1>10, <1>13
<1>15. Len(rec) = 2 * y.part
  BY <1>8, <1>9, <1>11
<1>16. rec[1] = Asked(r)[1]
  <2>1. Asked(r) = rec \o rest
    BY <1>1, PacketMoved DEF rec
  <2>2. Len(rest) \in Nat /\ Len(rec) \in Nat
    BY <1>9, LenProperties
  <2> QED BY <2>1, <2>2, <1>9, <1>13, ConcatProperties
<1>17. m \in Messages
  BY <1>8, PlaceOfPiece
<1>18. last <=> Len(rec) = 2 * m.frags
  <2>1. x.part = m.frags <=> Len(rec) = 2 * m.frags
    BY <1>8, <1>15, <1>17, MessageSizes
  <2>2. taken[1] = x /\ x.msg = m
    BY <1>6, <1>7, <1>11
  <2> QED BY <2>1, <2>2, <1>5
<1> QED BY <1>5, <1>8, <1>9, <1>12, <1>13, <1>14, <1>15, <1>16, <1>17, <1>18 DEF rec, m, p

(* A record that begins a call that was not cut is that call, whole.         *)
LEMMA RecordBegins ==
  ASSUME NEW C, NEW r \in Connections, NEW r2 \in Connections, NEW taken \in Seq(Pieces),
         NEW rec \in Seq(Pieces), rec = r.packetbuf \o taken, rec # <<>>, Place(rec[1]) = 1,
         ReadRecord(r, r2, taken), AsksWhole(r, C)
  PROVE  Whole(rec, rec[1].msg.frags) \/ rec[1].msg.no \in C
<1> SUFFICES ASSUME rec[1].msg.no \notin C PROVE Whole(rec, rec[1].msg.frags)
  OBVIOUS
<1>1. Asked(r) = rec \o Asked(r2) /\ Asked(r2) \in Seq(Pieces) /\ Asked(r) \in Seq(Pieces)
  BY ReadRecordAsked, AskedType
<1>2. Len(rec) \in Nat /\ Len(rec) >= 1
  BY FirstPiece
<1>3. Asked(r)[1] = rec[1] /\ Asked(r) # <<>>
  <2>1. /\ Len(Asked(r)) = Len(rec) + Len(Asked(r2)) /\ Len(Asked(r2)) \in Nat
        /\ \A i \in 1..(Len(rec) + Len(Asked(r2))) :
             Asked(r)[i] = IF i <= Len(rec) THEN rec[i] ELSE Asked(r2)[i - Len(rec)]
    BY <1>1, ConcatProperties, LenProperties
  <2>2. Len(Asked(r)) # 0
    BY <2>1, <1>2
  <2> QED BY <2>1, <2>2, <1>2, EmptyRange
<1>4. PacketOff(r, r2, taken) /\ Packet(r, taken, TRUE)
  BY DEF ReadRecord
<1>5. /\ \A i \in 1..Len(rec) : rec[i].msg = rec[1].msg /\ Place(rec[i]) = i
      /\ Len(rec) = 2 * rec[1].msg.frags
  <2>1. PICK last \in BOOLEAN : last = TRUE
    OBVIOUS
  <2>2. Packet(r, taken, last) /\ PacketOff(r, r2, taken) /\ Asked(r) # <<>> /\ Place(Asked(r)[1]) = 1
        /\ Asked(r)[1].msg.no \notin C
    BY <2>1, <1>3, <1>4
  <2>3. AsksWhole(r, C) /\ r \in Connections /\ r2 \in Connections /\ taken \in Seq(Pieces)
    OBVIOUS
  <2>4. /\ \A i \in 1..Len(r.packetbuf \o taken) :
             (r.packetbuf \o taken)[i].msg = Asked(r)[1].msg /\ Place((r.packetbuf \o taken)[i]) = i
        /\ last <=> Len(r.packetbuf \o taken) = 2 * Asked(r)[1].msg.frags
    BY ONLY <2>2, <2>3, NextPacket
  <2> QED BY <2>1, <2>4, <1>3
<1> QED BY <1>5 DEF Whole

(* What the server reads goes from one part of its stream to another, or off *)
(* it, as the reply to it is queued.                                         *)
LEMMA SafeReadData ==
  ASSUME SafeInv, StreamInv, NEW c \in 1..Len(conn), ReadData(c)
  PROVE  SafeInv'
<1>1. /\ UNCHANGED <<xid, lockLost, th, xidlist, calls, faults>> /\ faults' \in Nat
      /\ ~conn[c].broken
  BY ReadCases, StateFacts DEF Serving
<1>2. PICK r \in Connections : r = conn[c]
  BY StateFacts
<1>3. PICK r2 \in Connections, taken \in Seq(Pieces) :
        LET rec == r.packetbuf \o taken
            run == [ran EXCEPT ![rec[1].msg.no] = @ + 1]
        IN  /\ ReadKeeps(r, r2)
            /\ \/ ReadQuiet(r, r2, taken) /\ conn' = [conn EXCEPT ![c] = r2] /\ UNCHANGED <<alive, ran>>
               \/ ReadDropped(r, r2, taken) /\ conn' = [conn EXCEPT ![c] = r2] /\ UNCHANGED <<alive, ran>>
               \/ ReadCall(r, r2, taken) /\ conn' = [conn EXCEPT ![c] = r2] /\ alive' = alive
                  /\ (ran' = run \/ (ran' = ran /\ Wrong(rec)))
               \/ ReadDropped(r, r2, taken) /\ alive' = FALSE /\ UNCHANGED <<conn, ran>>
  BY <1>2, ReadCases
<1>4. /\ r2.by = r.by /\ r2.broken = r.broken /\ r2.cut = r.cut
      /\ \A T : Told(T, r2) = Told(T, r)
  BY <1>3 DEF ReadKeeps, Told
<1>5. ~r.broken /\ Asks(r, Len(calls)) /\ Len(calls) \in Nat
  BY <1>1, <1>2, StateFacts
<1>6. \A C : Cuts(r2, C) = Cuts(r, C)
  BY <1>4 DEF Cuts
<1>7. CASE /\ ReadQuiet(r, r2, taken) \/ ReadDropped(r, r2, taken)
           /\ conn' = [conn EXCEPT ![c] = r2] /\ UNCHANGED <<alive, ran>>
  <2>1. /\ \A y \in Range(Asked(r2)) : y \in Range(Asked(r))
        /\ Asks(r2, Len(calls)) /\ r2.recordbuf = r.recordbuf
    <3>1. CASE ReadQuiet(r, r2, taken)
      <4>1. Asked(r2) = Asked(r) /\ r2.recordbuf = r.recordbuf
        BY <3>1, ReadQuietAsked DEF ReadQuiet
      <4> QED BY <4>1, <1>5, SameAsks
    <3>2. CASE ReadDropped(r, r2, taken)
      <4>1. PICK rec \in Seq(Pieces) : Asked(r) = rec \o Asked(r2)
        BY <3>2, ReadRecordAsked DEF ReadDropped
      <4>2. r2.recordbuf = r.recordbuf
        BY <3>2 DEF ReadDropped
      <4> QED BY <4>1, <4>2, <1>5, LessAsks
    <3> QED BY <1>7, <3>1, <3>2
  <2>2. ASSUME NEW t \in Threads, Link(th[t], xidlist[t], lockLost, r, Len(calls), Cuts(r, CutBy(t)))
        PROVE  Link(th[t], xidlist[t], lockLost, r2, Len(calls), Cuts(r2, CutBy(t)))
    <3>1. Told(th[t], r2) = Told(th[t], r)
      BY <1>4
    <3> QED BY <3>1, <2>1, <2>2, <1>6, LessAsked
  <2>3. alive' \in BOOLEAN /\ ran' \in Seq(Nat) /\ Len(ran') = Len(ran)
    BY <1>7, StateFacts
  <2> QED BY <2>1, <2>2, <2>3, <1>1, <1>2, <1>4, <1>5, <1>7, ServerStep
<1>8. CASE /\ ReadCall(r, r2, taken) /\ conn' = [conn EXCEPT ![c] = r2] /\ alive' = alive
           /\ \/ ran' = [ran EXCEPT ![(r.packetbuf \o taken)[1].msg.no] = @ + 1]
              \/ ran' = ran
  <2>1. PICK rec \in Seq(Pieces) :
          /\ rec = r.packetbuf \o taken /\ Asked(r) = rec \o Asked(r2)
          /\ rec # <<>> /\ Place(rec[1]) = 1 /\ ReadRecord(r, r2, taken)
    BY <1>8, ReadRecordAsked DEF ReadCall
  <2>2. PICK m \in Messages : m = rec[1].msg
    BY <2>1, FirstPiece
  <2>3. /\ r2.recordbuf = Append(r.recordbuf, [msg |-> m, part |-> 1])
        /\ ran' = [ran EXCEPT ![m.no] = @ + 1] \/ ran' = ran
    BY <2>1, <2>2, <1>8 DEF ReadCall
  <2>4. Whole(rec, m.frags) \/ m.no \in CutOn(r)
    <3>1. AsksWhole(r, CutOn(r))
      BY <1>2, <1>5 DEF StreamInv
    <3> QED BY <2>1, <2>2, <3>1, RecordBegins
  <2>5. /\ Asks(r2, Len(calls)) /\ m.no <= Len(calls)
        /\ \A y \in Range(Asked(r2)) : y \in Range(Asked(r)) /\ (y.msg = m => Place(y) # 1 /\ m.no \in CutOn(r))
        /\ rec[1] \in Range(Asked(r)) /\ rec[1].msg = m /\ Place(rec[1]) = 1
        /\ m.no \notin CutOn(r) => \E y \in Range(Asked(r)) : y.msg = m /\ y.part = m.frags /\ y.half = 2
    <3>0. PICK C : C = CutOn(r)
      OBVIOUS
    <3>1. PICK n \in Nat : n = Len(calls) /\ C = CutOn(r)
      BY <1>5, <3>0
    <3>2. Takes(r, r2, rec, m, C) /\ Asks(r, n)
      BY <2>1, <2>2, <2>4, <1>5, <3>1 DEF Takes
    <3>3. /\ Asks(r2, n) /\ m.no <= n
          /\ \A y \in Range(Asked(r2)) : y \in Range(Asked(r)) /\ (y.msg = m => Place(y) # 1 /\ m.no \in C)
          /\ rec[1] \in Range(Asked(r)) /\ rec[1].msg = m /\ Place(rec[1]) = 1
          /\ m.no \notin C => \E y \in Range(Asked(r)) : y.msg = m /\ y.part = m.frags /\ y.half = 2
      <4>1. r \in Connections /\ r2 \in Connections /\ n \in Nat /\ rec \in Seq(Pieces) /\ m \in Messages
        OBVIOUS
      <4> QED BY ONLY <3>2, <4>1, TakenOff
    <3> QED BY <3>1, <3>3
  <2>6. ASSUME NEW t \in Threads, th[t].sock = c,
               Link(th[t], xidlist[t], lockLost, r, Len(calls), Cuts(r, CutBy(t)))
        PROVE  Link(th[t], xidlist[t], lockLost, r2, Len(calls), Cuts(r2, CutBy(t)))
    <3>1. Told(th[t], r2) = Told(th[t], r)
      BY <1>4
    <3>2. th[t] \in ThreadStates /\ Client(th[t], xidlist[t], Len(calls), Len(conn), CutBy(t))
      BY ThreadFacts
    <3>3. PICK C : C = Cuts(r, CutBy(t)) /\ C = CutOn(r) /\ C = Cuts(r2, CutBy(t)) /\ C \subseteq CutBy(t)
      <4>1. r.by = t
        <5>1. c # NoSocket
          BY DEF NoSocket
        <5> QED BY <5>1, <2>6, <1>2, ThreadFacts
      <4> QED BY <4>1, <1>6 DEF CutOn, Cuts
    <3>4. IsSending(th[t]) => th[t].part \in 1..th[t].msg.frags /\ th[t].msg.no \notin C
      BY <3>2, <3>3 DEF Client, IsSending
    <3>5. \A x \in DOMAIN xidlist[t] : xidlist[t][x].msg.no \notin C
      BY <3>2, <3>3 DEF Client
    <3>6. PICK first \in Range(Asked(r)) : first.msg = m /\ Place(first) = 1
      BY <2>5
    <3>7. /\ m.no <= Len(calls)
          /\ \A y \in Range(Asked(r2)) : y \in Range(Asked(r)) /\ (y.msg = m => Place(y) # 1 /\ m.no \in C)
          /\ m.no \notin C => \E y \in Range(Asked(r)) : y.msg = m /\ y.part = m.frags /\ y.half = 2
      BY <2>5, <3>3
    <3>8. Link(th[t], xidlist[t], lockLost, r, Len(calls), C)
      BY <2>6, <3>3
    <3>9. Link(th[t], xidlist[t], lockLost, r2, Len(calls), C)
      BY <3>1, <3>2, <3>4, <3>5, <3>6, <3>7, <3>8, <2>3, RunLink
    <3> QED BY <3>3, <3>9
  <2>7. alive' \in BOOLEAN /\ ran' \in Seq(Nat) /\ Len(ran') = Len(ran)
    <3>1. m.no \in 1..Len(ran) /\ ran \in Seq(Nat)
      <4>1. m.no \in 1..Len(Sizes)
        BY MessageSizes
      <4>2. Len(ran) = Len(calls) /\ ran \in Seq(Nat)
        BY StateFacts
      <4> QED BY <4>1, <4>2, <2>5, <1>5, ConstantTypes
    <3>2. ran[m.no] \in Nat
      BY <3>1, ElementOfSeq
    <3>3. CASE ran' = [ran EXCEPT ![m.no] = @ + 1]
      <4>1. ran' = [ran EXCEPT ![m.no] = ran[m.no] + 1] /\ ran[m.no] + 1 \in Nat
        BY <3>2, <3>3
      <4>2. ran' \in Seq(Nat) /\ Len(ran') = Len(ran)
        BY <3>1, <4>1, ExceptSeq
      <4> QED BY <4>2, <1>8, StateFacts
    <3>4. CASE ran' = ran
      BY <3>1, <3>4, <1>8, StateFacts
    <3> QED BY <2>3, <3>3, <3>4
  <2> QED BY <2>5, <2>6, <2>7, <1>1, <1>2, <1>4, <1>5, <1>8, ServerStep
<1>9. CASE alive' = FALSE /\ UNCHANGED <<conn, ran>>
  <2>0. conn \in Seq(Connections) /\ DOMAIN conn = 1..Len(conn) /\ conn[c] = r /\ conn' = conn
    BY <1>2, <1>9, StateFacts
  <2>1. /\ conn' = [conn EXCEPT ![c] = r] /\ alive' \in BOOLEAN
        /\ ran' \in Seq(Nat) /\ Len(ran') = Len(ran)
    <3>1. conn = [conn EXCEPT ![c] = conn[c]]
      BY <2>0
    <3> QED BY <3>1, <2>0, <1>9, StateFacts
  <2> QED BY <2>1, <1>1, <1>2, FlagStep
<1> QED BY <1>3, <1>7, <1>8, <1>9

\* what event_write does to a connection, f the fragment it takes
WriteKeeps(r, r2) ==
  /\ r2.by = r.by /\ r2.open = r.open /\ r2.broken = r.broken /\ r2.fd = r.fd
  /\ r2.packetbuf = r.packetbuf /\ r2.readbuf = r.readbuf /\ r2.up = r.up
  /\ r2.cut = r.cut /\ r2.torn = r.torn
WriteStep(r, r2, f) ==
  /\ r2.down \o r2.writebuf = (r.down \o r.writebuf) \o f
  /\ \/ f = <<>> /\ r2.recordbuf = r.recordbuf
     \/ /\ r.recordbuf # <<>> /\ f = Fragment(r.recordbuf[1].msg, r.recordbuf[1].part)
        /\ r2.recordbuf = AfterChunk(r.recordbuf)

(* The next chunk is taken only once the last was written.                   *)
LEMMA ChunkCases ==
  ASSUME NEW r \in Connections
  PROVE  /\ Chunk(r) \in Connections /\ WriteKeeps(r, Chunk(r)) /\ Chunk(r).down = r.down
         /\ \E f \in Seq(Pieces) : WriteStep(r, Chunk(r), f)
<1>1. /\ r.down \in Seq(Pieces) /\ r.writebuf \in Seq(Pieces) /\ r.recordbuf \in Seq(Queued)
      /\ r.down \o r.writebuf \in Seq(Pieces)
  <2>1. /\ r.down \in Seq(Pieces) /\ r.writebuf \in Seq(Pieces) /\ r.recordbuf \in Seq(Queued)
    BY ConnectionFields
  <2> QED BY <2>1, Concatenated
<1>2. PICK e \in Seq(Pieces) : e = <<>> /\ (r.down \o r.writebuf) \o e = r.down \o r.writebuf
  BY <1>1, EmptySeq, ConcatEmptySeq
<1>3. CASE r.writebuf # <<>>
  <2>1. Chunk(r) = r
    BY <1>3 DEF Chunk
  <2>2. WriteStep(r, r, e)
    BY <1>2 DEF WriteStep
  <2> QED BY <2>1, <2>2 DEF WriteKeeps
<1>4. CASE r.writebuf = <<>> /\ r.recordbuf = <<>>
  <2>1. Chunk(r) = [r EXCEPT !.mask = "read"]
    BY <1>4 DEF Chunk
  <2>2. /\ Chunk(r) \in Connections /\ WriteKeeps(r, Chunk(r)) /\ Chunk(r).down = r.down
        /\ Chunk(r).writebuf = r.writebuf /\ Chunk(r).recordbuf = r.recordbuf
    BY <2>1 DEF Connections, WriteKeeps
  <2>3. WriteStep(r, Chunk(r), e)
    BY <2>2, <1>2 DEF WriteStep
  <2> QED BY <2>2, <2>3
<1>5. CASE r.writebuf = <<>> /\ r.recordbuf # <<>>
  <2> DEFINE h == r.recordbuf[1]
             f == Fragment(h.msg, h.part)
             q == AfterChunk(r.recordbuf)
  <2>1. Head(r.recordbuf) = h /\ h.msg \in Messages /\ h.part \in Nat \ {0} /\ q \in Seq(Queued)
    BY <1>1, <1>5, ChunkQueue
  <2>2. f \in Seq(Pieces)
    BY <2>1, FragmentPieces
  <2>3. Chunk(r) = [r EXCEPT !.writebuf = f, !.recordbuf = q]
    BY <2>1, <1>5 DEF Chunk
  <2> HIDE DEF f, q
  <2>4. /\ Chunk(r) \in Connections /\ WriteKeeps(r, Chunk(r)) /\ Chunk(r).down = r.down
        /\ Chunk(r).writebuf = f /\ Chunk(r).recordbuf = q
    BY <2>1, <2>2, <2>3 DEF Connections, WriteKeeps
  <2>5. r.down \o f = (r.down \o r.writebuf) \o f
    BY <1>1, <1>5, ConcatEmptySeq
  <2>6. WriteStep(r, Chunk(r), f)
    BY <2>4, <2>5, <1>5 DEF WriteStep, f, q
  <2> QED BY <2>2, <2>4, <2>6
<1> QED BY <1>3, <1>4, <1>5

(* Some of a chunk is written.                                               *)
LEMMA PutCases ==
  ASSUME NEW r \in Connections, NEW k \in 1..Len(r.writebuf)
  PROVE  LET r2 == [r EXCEPT !.down = @ \o SubSeq(r.writebuf, 1, k),
                             !.writebuf = SubSeq(r.writebuf, k + 1, Len(r.writebuf))]
         IN  /\ r2 \in Connections /\ WriteKeeps(r, r2) /\ r2.recordbuf = r.recordbuf
             /\ r2.down \o r2.writebuf = r.down \o r.writebuf
<1> DEFINE w == r.writebuf
           a == SubSeq(w, 1, k)
           b == SubSeq(w, k + 1, Len(w))
           d == r.down \o a
           r2 == [r EXCEPT !.down = d, !.writebuf = b]
<1>1. r.down \in Seq(Pieces) /\ w \in Seq(Pieces) /\ Len(w) \in Nat
  BY ConnectionFields
<1>2. a \in Seq(Pieces) /\ b \in Seq(Pieces)
  <2>1. \A i \in 1..k : w[i] \in Pieces
    BY <1>1, ElementOfSeq
  <2>2. \A i \in (k + 1)..Len(w) : w[i] \in Pieces
    BY <1>1, ElementOfSeq
  <2>3. k \in Int /\ k + 1 \in Int /\ Len(w) \in Int
    BY <1>1
  <2> QED BY <2>1, <2>2, <2>3, SubSeqProperties
<1>3. a \o b = w
  <2>1. SubSeq(w, 1, k) \o SubSeq(w, k + 1, Len(w)) = SubSeq(w, 1, Len(w))
    <3>1. /\ 1 \in 1..Len(w) + 1 /\ k \in (1 - 1)..Len(w) /\ Len(w) \in k..Len(w)
      BY <1>1
    <3> QED BY ONLY <1>1, <3>1, ConcatAdjacentSubSeq
  <2> QED BY <2>1, <1>1, SubSeqFull
<1> HIDE DEF a, b
<1>4. d \in Seq(Pieces) /\ d \o b = r.down \o w
  <2>1. (r.down \o a) \o b = r.down \o (a \o b)
    BY <1>1, <1>2, Associative, Zenon
  <2>2. r.down \o a \in Seq(Pieces)
    BY <1>1, <1>2, Concatenated, Zenon
  <2> QED BY <2>1, <2>2, <1>3
<1> HIDE DEF d
<1>5. /\ r2 \in Connections /\ WriteKeeps(r, r2) /\ r2.recordbuf = r.recordbuf
      /\ r2.down = d /\ r2.writebuf = b
  BY <1>2, <1>4 DEF Connections, WriteKeeps
<1>6. r2 = [r EXCEPT !.down = @ \o SubSeq(r.writebuf, 1, k),
                     !.writebuf = SubSeq(r.writebuf, k + 1, Len(r.writebuf))]
  BY DEF d, a, b
<1> HIDE DEF r2
<1>7. r2.down \o r2.writebuf = r.down \o r.writebuf
  BY <1>4, <1>5
<1> QED BY <1>5, <1>6, <1>7

(* event_write is both.                                                      *)
LEMMA WriteCases ==
  ASSUME SafeInv, NEW c \in 1..Len(conn), EventWrite(c)
  PROVE  /\ UNCHANGED <<xid, lockLost, th, xidlist, alive, calls, ran, faults>> /\ Serving(c)
         /\ \E r2 \in Connections, f \in Seq(Pieces) :
              /\ WriteKeeps(conn[c], r2) /\ WriteStep(conn[c], r2, f)
              /\ conn' = [conn EXCEPT ![c] = r2]
<1>1. UNCHANGED <<xid, lockLost, th, xidlist, alive, calls, ran, faults>> /\ Serving(c)
  BY DEF EventWrite
<1>2. PICK r \in Connections : r = conn[c]
  BY StateFacts
<1>3. PICK r1 \in Connections, f \in Seq(Pieces) :
        r1 = Chunk(r) /\ WriteKeeps(r, r1) /\ WriteStep(r, r1, f)
  BY ChunkCases
<1>4. IF r1.writebuf = <<>> THEN conn' = [conn EXCEPT ![c] = r1]
      ELSE \E k \in 1..Len(r1.writebuf) :
             conn' = [conn EXCEPT ![c] = [r1 EXCEPT !.down = @ \o SubSeq(r1.writebuf, 1, k),
                                                    !.writebuf = SubSeq(r1.writebuf, k + 1, Len(r1.writebuf))]]
  BY <1>2, <1>3 DEF EventWrite
<1>5. CASE r1.writebuf = <<>>
  BY <1>1, <1>2, <1>3, <1>4, <1>5
<1>6. CASE r1.writebuf # <<>>
  <2>1. PICK k \in 1..Len(r1.writebuf) :
             conn' = [conn EXCEPT ![c] = [r1 EXCEPT !.down = @ \o SubSeq(r1.writebuf, 1, k),
                                                    !.writebuf = SubSeq(r1.writebuf, k + 1, Len(r1.writebuf))]]
    BY <1>4, <1>6
  <2>2. PICK r2 \in Connections :
          /\ conn' = [conn EXCEPT ![c] = r2] /\ WriteKeeps(r1, r2) /\ r2.recordbuf = r1.recordbuf
          /\ r2.down \o r2.writebuf = r1.down \o r1.writebuf
    BY <2>1, PutCases
  <2>3. WriteKeeps(r, r2)
    BY <2>2, <1>3 DEF WriteKeeps
  <2>4. WriteStep(r, r2, f)
    BY <2>2, <1>3 DEF WriteStep
  <2> QED BY <2>2, <2>3, <2>4, <1>1, <1>2
<1> QED BY <1>5, <1>6

(* The stream of replies grows by the fragment taken.                        *)
LEMMA WriteTold ==
  ASSUME NEW r \in Connections, NEW r2 \in Connections, NEW f \in Seq(Pieces), NEW T \in ThreadStates,
         WriteStep(r, r2, f)
  PROVE  Told(T, r2) = Told(T, r) \o f
<1>1. /\ r.down \o r.writebuf \in Seq(Pieces) /\ T.got \in Seq(Pieces)
      /\ Told(T, r) = T.got \o (r.down \o r.writebuf) /\ Told(T, r2) = T.got \o (r2.down \o r2.writebuf)
  BY StreamsAgain, ThreadFields
<1>2. (T.got \o (r.down \o r.writebuf)) \o f = T.got \o ((r.down \o r.writebuf) \o f)
  BY <1>1, Associative, Zenon
<1>3. r2.down \o r2.writebuf = (r.down \o r.writebuf) \o f
  BY DEF WriteStep
<1> QED BY <1>1, <1>2, <1>3

(* A chunk is taken off the queue as it is put on its stream.                *)
LEMMA SafeEventWrite ==
  ASSUME SafeInv, NEW c \in 1..Len(conn), EventWrite(c)
  PROVE  SafeInv'
<1>1. /\ UNCHANGED <<xid, lockLost, th, xidlist, calls>> /\ ~conn[c].broken
      /\ alive' \in BOOLEAN /\ faults' \in Nat /\ ran' \in Seq(Nat) /\ Len(ran') = Len(ran)
  BY WriteCases, StateFacts DEF Serving
<1>2. PICK r \in Connections : r = conn[c]
  BY StateFacts
<1>3. PICK r2 \in Connections, f \in Seq(Pieces) :
        WriteKeeps(r, r2) /\ WriteStep(r, r2, f) /\ conn' = [conn EXCEPT ![c] = r2]
  BY <1>2, WriteCases
<1>4. Asked(r2) = Asked(r) /\ r2.by = r.by /\ r2.broken = r.broken /\ r2.cut = r.cut
  BY <1>3 DEF WriteKeeps, Asked
<1>5. Asks(r2, Len(calls))
  <2>1. Asks(r, Len(calls))
    BY <1>1, <1>2, StateFacts
  <2> QED BY <2>1, <1>4, SameAsks
<1>6. ASSUME NEW t \in Threads, Link(th[t], xidlist[t], lockLost, r, Len(calls), Cuts(r, CutBy(t)))
      PROVE  Link(th[t], xidlist[t], lockLost, r2, Len(calls), Cuts(r2, CutBy(t)))
  <2>1. PICK T \in ThreadStates : T = th[t]
    BY ThreadFacts
  <2>5. PICK C : C = Cuts(r, CutBy(t)) /\ C = Cuts(r2, CutBy(t))
    BY <1>4 DEF Cuts
  <2>6. Link(T, xidlist[t], lockLost, r, Len(calls), C)
    BY <1>6, <2>1, <2>5
  <2>2. Told(T, r2) = Told(T, r) \o f
    BY <1>3, WriteTold
  <2>3. CASE f = <<>> /\ r2.recordbuf = r.recordbuf
    <3>1. Told(T, r2) = Told(T, r)
      BY <2>2, <2>3, Streams, ConcatEmptySeq
    <3>3. Link(T, xidlist[t], lockLost, r2, Len(calls), C)
      BY <3>1, <2>6, <2>3, <1>4, SameLink
    <3> QED BY <3>3, <2>1, <2>5
  <2>4. CASE /\ r.recordbuf # <<>> /\ f = Fragment(r.recordbuf[1].msg, r.recordbuf[1].part)
             /\ r2.recordbuf = AfterChunk(r.recordbuf)
    <3>2. Told(T, r2) = Told(T, r) \o Fragment(r.recordbuf[1].msg, r.recordbuf[1].part)
      BY <2>2, <2>4
    <3>3. r.recordbuf # <<>> /\ r2.recordbuf = AfterChunk(r.recordbuf)
      BY <2>4
    <3>4. Link(T, xidlist[t], lockLost, r2, Len(calls), C)
      BY <2>6, <3>2, <3>3, <1>4, ChunkLink
    <3> QED BY <3>4, <2>1, <2>5
  <2> QED BY <2>3, <2>4, <1>3 DEF WriteStep
<1> QED BY <1>1, <1>2, <1>3, <1>4, <1>5, <1>6, ServerStep

-----------------------------------------------------------------------------
(* The invariant holds.                                                      *)

(* A thread that has not begun.                                              *)
LEMMA NewThread ==
  ASSUME NEW s \in Nat
  PROVE  /\ Thread(s) \in ThreadStates /\ Thread(s).pc = "idle" /\ Thread(s).got = <<>>
         /\ Thread(s).sock = s /\ Thread(s).ended = "none" /\ Thread(s).answer = None
<1>1. <<>> \in Seq(Pieces) /\ NoXid \in Int /\ None \in Messages \union {None} /\ 0 \in Nat
      /\ None \in Answers \union {None}
  BY DEF NoXid
<1> QED BY <1>1 DEF Thread, ThreadStates

(* It holds of the state after Client's constructor.                         *)
LEMMA SafeInit == Init => SafeInv
<1> SUFFICES ASSUME Init PROVE SafeInv
  OBVIOUS
<1>1. /\ xid = 0 /\ lockLost = FALSE /\ alive = TRUE /\ calls = <<>> /\ ran = <<>> /\ faults = 0
      /\ th = [t \in Threads |-> Thread(IF t = Creator THEN 1 ELSE NoSocket)]
      /\ xidlist = [t \in Threads |-> <<>>]
      /\ conn = << Connection(Creator) >>
  BY DEF Init
<1>2. PICK r \in Connections :
        /\ r = Connection(Creator) /\ r.by = Creator
        /\ r.up = <<>> /\ r.down = <<>> /\ r.readbuf = <<>>
        /\ r.packetbuf = <<>> /\ r.recordbuf = <<>> /\ r.writebuf = <<>>
  BY NewConnection, ConstantTypes
<1>3. conn \in Seq(Connections) /\ Len(conn) = 1 /\ conn[1] = r
  BY <1>1, <1>2
<1>4. calls \in Seq(Asking) /\ Len(calls) = 0 /\ ran \in Seq(Nat) /\ Len(ran) = 0
  BY <1>1
<1>5. ASSUME NEW t \in Threads
      PROVE  /\ th[t] \in ThreadStates /\ th[t].pc = "idle" /\ th[t].got = <<>>
             /\ th[t].sock = (IF t = Creator THEN 1 ELSE 0)
             /\ th[t].ended = "none" /\ th[t].answer = None
             /\ xidlist[t] = <<>> /\ DOMAIN xidlist[t] = {}
  <2>1. PICK s \in Nat : s = IF t = Creator THEN 1 ELSE 0
    OBVIOUS
  <2>2. th[t] = Thread(s)
    BY <1>1, <2>1 DEF NoSocket
  <2>3. xidlist[t] = <<>>
    BY <1>1
  <2>4. DOMAIN xidlist[t] = {}
    BY <2>3
  <2> QED BY <2>1, <2>2, <2>3, <2>4, NewThread
<1>6. \A t \in Threads : List(xidlist[t])
  BY <1>5 DEF List
<1>7. TypeInv
  <2>1. th \in [Threads -> ThreadStates]
    BY <1>1, <1>5
  <2>2. xidlist = [t \in Threads |-> xidlist[t]]
    BY <1>1
  <2>3. 0 <= Len(Sizes)
    BY ConstantTypes
  <2> QED BY <1>1, <1>3, <1>4, <1>6, <2>1, <2>2, <2>3 DEF TypeInv
<1>8. xid = Len(calls) % XidMod
  BY <1>1, <1>4, ConstantTypes
<1>9. \A c \in 1..Len(conn) : ~conn[c].broken => Asks(conn[c], Len(calls))
  <2>1. Asks(r, Len(calls))
    <3>1. Creator \in Threads
      BY ConstantTypes
    <3> QED BY <3>1, <1>2, <1>5, EmptyLink
  <2> QED BY <2>1, <1>3
<1>10. \A t \in Threads : Owned(th[t], t, conn)
  BY <1>2, <1>3, <1>5 DEF Owned, NoSocket
<1>11. \A t \in Threads : Client(th[t], xidlist[t], Len(calls), Len(conn), CutBy(t))
  BY <1>3, <1>5 DEF Client, IsSending
<1>15. \A t \in Threads : CutBy(t) = {}
  BY <1>1 DEF CutBy
<1>14. \A t \in Threads : Caller(th[t], t, calls)
  BY <1>5 DEF Caller
<1>12. ASSUME NEW t \in Threads PROVE Linked(th[t], xidlist[t], lockLost, conn, Len(calls), CutBy(t))
  <2>1. Link(th[t], xidlist[t], lockLost, r, Len(calls), Cuts(r, CutBy(t)))
    BY <1>2, <1>5, EmptyLink
  <2>2. th[t].sock # NoSocket => conn[th[t].sock] = r
    BY <1>3, <1>5 DEF NoSocket
  <2> QED BY <2>1, <2>2 DEF Linked
<1>13. \A t \in Threads : Outcome(th[t], conn, CutBy(t))
  BY <1>5 DEF Outcome
<1> QED BY <1>7, <1>8, <1>9, <1>10, <1>11, <1>12, <1>13, <1>14 DEF SafeInv

(* What a stutter leaves alone.                                              *)
LEMMA SafeStutter == ASSUME SafeInv, UNCHANGED vars PROVE SafeInv'
<1>1. UNCHANGED <<xid, lockLost, th, xidlist, conn, alive, calls, ran, faults>>
  BY DEF vars
<1>2. \A t \in Threads : CutBy(t)' = CutBy(t)
  BY <1>1 DEF CutBy
<1> QED BY <1>1, <1>2 DEF SafeInv, TypeInv

(* Every step keeps it.                                                      *)
LEMMA SafeNext == SafeInv /\ StreamInv /\ [Next]_vars => SafeInv'
<1> SUFFICES ASSUME SafeInv, StreamInv, [Next]_vars PROVE SafeInv'
  OBVIOUS
<1>1. ASSUME NEW t \in Threads, ClientNext(t) PROVE SafeInv'
  <2>1. CASE Send(t)          BY <2>1, SafeSend
  <2>2. CASE SendFragment(t)  BY <2>2, SafeSendFragment
  <2>3. CASE SendError(t)     BY <2>3, SafeSendError
  <2>4. CASE SendTimeout(t)   BY <2>4, SafeSendTimeout
  <2>5. CASE AddOutstanding(t) BY <2>5, SafeAddOutstanding
  <2>6. CASE Listen(t)        BY <2>6, SafeListen
  <2>7. CASE Recv(t)          BY <2>7, SafeRecv
  <2>8. CASE RecvGarbage(t)   BY <2>8, SafeRecvGarbage
  <2>9. CASE RecvError(t)     BY <2>9, SafeRecvError
  <2>10. CASE RecvTimeout(t)  BY <2>10, SafeRecvTimeout
  <2>11. CASE Close(t)        BY <2>11, SafeClose
  <2> QED BY <1>1, <2>1, <2>2, <2>3, <2>4, <2>5, <2>6, <2>7, <2>8, <2>9, <2>10, <2>11 DEF ClientNext
<1>2. ASSUME NEW c \in 1..Len(conn), ServerNext(c) \/ Break(c) PROVE SafeInv'
  <2>1. CASE EventNewClient(c) \/ ReadEnd(c) \/ EventHup(c)  BY <2>1, SafeFd
  <2>2. CASE ReadData(c)      BY <2>2, SafeReadData
  <2>3. CASE EventWrite(c)    BY <2>3, SafeEventWrite
  <2>4. CASE Break(c)         BY <2>4, SafeBreak
  <2> QED BY <1>2, <2>1, <2>2, <2>3, <2>4 DEF ServerNext
<1>3. CASE UNCHANGED vars
  BY <1>3, SafeStutter
<1>4. CASE Next
  <2>1. DOMAIN conn = 1..Len(conn)
    BY StateFacts
  <2> QED BY <1>1, <1>2, <1>4, <2>1 DEF Next
<1> QED BY <1>3, <1>4
=============================================================================
