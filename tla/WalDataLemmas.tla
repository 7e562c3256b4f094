--------------------------- MODULE WalDataLemmas ---------------------------
(* What WalDataProofs uses of any sliding log and any transactions: no lemma *)
(* here is about a state of Wal.                                             *)
EXTENDS WalDataInv, WalProofs

-----------------------------------------------------------------------------
(* Sliding logs                                                              *)

(* A log whose update of an address below e exists has a last one.           *)
LEMMA LastExists ==
  ASSUME NEW s \in SlidingType, NEW a, NEW e \in Nat, ~Untouched(s, a, e)
  PROVE  \E p \in s.start .. e - 1 : LastIn(s, a, p, e)
<1> DEFINE S == { p \in s.start .. e - 1 : Get(s, p).Addr = a }
<1>1. s.start \in Nat
  BY LogFacts
<1>2. S # {} /\ S \subseteq 0 .. e /\ S \subseteq s.start .. e - 1
  BY <1>1 DEF Untouched
<1>3. Max(S) \in S /\ \A q \in S : q <= Max(S)
  <2> HIDE DEF S
  <2> QED
    BY <1>2, MaxProperty
<1>4. PICK m \in S : \A q \in S : q <= m
  BY <1>3
<1>5. ASSUME NEW q \in m + 1 .. e - 1
      PROVE  Get(s, q).Addr # a
  <2>1. q \in s.start .. e - 1 /\ ~(q <= m)
    BY <1>1, <1>2, <1>4
  <2> QED
    BY <1>4, <2>1
<1> QED
  BY <1>2, <1>4, <1>5 DEF LastIn

(* The last update is one, and nothing is untouched that has one.            *)
LEMMA LastUnique ==
  ASSUME NEW s \in SlidingType, NEW a, NEW e \in Nat, NEW p, LastIn(s, a, p, e)
  PROVE  /\ ~Untouched(s, a, e)
         /\ p \in s.start .. e - 1 /\ p \in Nat /\ Get(s, p).Addr = a
         /\ \A q : LastIn(s, a, q, e) => q = p
<1>1. s.start \in Nat
  BY LogFacts
<1>2. p \in s.start .. e - 1 /\ p \in Nat /\ Get(s, p).Addr = a
  BY <1>1 DEF LastIn
<1>3. ASSUME NEW q, LastIn(s, a, q, e)
      PROVE  q = p
  <2>1. q \in s.start .. e - 1 /\ q \in Nat /\ Get(s, q).Addr = a
    BY <1>1, <1>3 DEF LastIn
  <2>2. q \notin p + 1 .. e - 1 /\ p \notin q + 1 .. e - 1
    BY <1>2, <1>3, <2>1 DEF LastIn
  <2> QED
    BY <1>1, <1>2, <2>1, <2>2
<1> QED
  BY <1>2, <1>3 DEF Untouched

(* LastPos, by which addrPos is judged, is the last update.                  *)
LEMMA FindsLastPos ==
  ASSUME NEW s \in SlidingType, NEW a \in Addr
  PROVE  Finds(s, a) <=> s.addrPos[a] = LastPos(s.log, s.start, a)
<1> DEFINE at == { i \in DOMAIN s.log : s.log[i].Addr = a }
<1>1. /\ s.start \in Nat /\ End(s) \in Nat /\ Len(s.log) \in Nat
      /\ End(s) = s.start + Len(s.log) /\ DOMAIN s.log = 1 .. Len(s.log)
  BY LogFacts
<1>2. s.addrPos[a] \in Nat \cup {NoPos}
  BY DEF SlidingType
<1>3. NoPos \notin Nat
  BY DEF NoPos
<1>4. ASSUME NEW i \in 1 .. Len(s.log)
      PROVE  s.start + i - 1 \in s.start .. End(s) - 1 /\ Get(s, s.start + i - 1) = s.log[i]
  <2>1. s.start + i - 1 - s.start + 1 = i
    BY <1>1
  <2> QED
    BY <1>1, <2>1 DEF Get
<1>5. ASSUME NEW p \in s.start .. End(s) - 1
      PROVE  /\ p - s.start + 1 \in 1 .. Len(s.log) /\ Get(s, p) = s.log[p - s.start + 1]
             /\ s.start + (p - s.start + 1) - 1 = p
  <2>1. p \in Int /\ s.start <= p /\ p <= End(s) - 1
    BY <1>1
  <2> HIDE DEF at
  <2>2. p - s.start + 1 \in 1 .. Len(s.log)
    BY <1>1, <2>1
  <2>3. s.start + (p - s.start + 1) - 1 = p
    BY <1>1, <2>1
  <2> QED
    BY <2>2, <2>3 DEF Get
<1>6. CASE at = {}
  <2>1. Untouched(s, a, End(s))
    BY <1>1, <1>5, <1>6 DEF Untouched
  <2>2. LastPos(s.log, s.start, a) = NoPos
    BY <1>6 DEF LastPos
  <2>3. s.addrPos[a] # NoPos => ~Finds(s, a)
    BY <1>1, <1>2, <2>1, LastUnique DEF Finds
  <2> QED
    BY <2>1, <2>2, <2>3 DEF Finds
<1>7. CASE at # {}
  <2> DEFINE m == Max(at)
             l == s.start + m - 1
  <2>1. at \subseteq 0 .. Len(s.log) /\ at \subseteq 1 .. Len(s.log)
    BY <1>1
  <2>2. m \in at /\ \A i \in at : i <= m
    <3> HIDE DEF at
    <3> QED
      BY <1>1, <1>7, <2>1, MaxProperty
  <2>3. LastPos(s.log, s.start, a) = l
    BY <1>7 DEF LastPos
  <2> HIDE DEF m
  <2>4. m \in 1 .. Len(s.log) /\ s.log[m].Addr = a
    BY <2>1, <2>2
  <2>5. l \in s.start .. End(s) - 1 /\ Get(s, l).Addr = a /\ l \in Nat
    BY <1>1, <1>4, <2>4
  <2>6. ASSUME NEW q \in l + 1 .. End(s) - 1, Get(s, q).Addr = a
        PROVE  FALSE
    <3> DEFINE i == q - s.start + 1
    <3>1. q \in s.start .. End(s) - 1
      BY <1>1, <2>5
    <3>2. i \in 1 .. Len(s.log) /\ s.log[i].Addr = a
      BY <1>5, <2>6, <3>1
    <3>3. i <= m
      BY <1>1, <2>2, <3>2
    <3> QED
      BY <1>1, <2>4, <2>6, <3>1, <3>3
  <2>7. LastIn(s, a, l, End(s))
    BY <2>5, <2>6 DEF LastIn
  <2> HIDE DEF l, at
  <2>8. ~Untouched(s, a, End(s)) /\ \A q : LastIn(s, a, q, End(s)) => q = l
    BY <1>1, <2>7, LastUnique
  <2>9. l # NoPos
    BY <1>3, <2>5
  <2> QED
    BY <2>3, <2>7, <2>8, <2>9 DEF Finds
<1> QED
  BY <1>6, <1>7

(* Logs that agree below e agree on what is last there and on what shows.    *)
LEMMA SameBelow ==
  ASSUME NEW s, NEW t, NEW e, t.start = s.start,
         \A p \in s.start .. e - 1 : Get(t, p) = Get(s, p),
         s.start \in Nat, e \in Nat
  PROVE  /\ \A a : Untouched(t, a, e) <=> Untouched(s, a, e)
         /\ \A a, p : LastIn(t, a, p, e) <=> LastIn(s, a, p, e)
         /\ \A base, now : Shows(s, e, base, now) => Shows(t, e, base, now)
<1>1. \A a : Untouched(t, a, e) <=> Untouched(s, a, e)
  BY DEF Untouched
<1>2. \A a, p : LastIn(t, a, p, e) <=> LastIn(s, a, p, e)
  BY DEF LastIn
<1> QED
  BY <1>1, <1>2 DEF Shows

(* A log that starts later, with the same updates from there on, shows the   *)
(* same on top of what the part before its start left.                       *)
LEMMA LaterStart ==
  ASSUME NEW s \in SlidingType, NEW t \in SlidingType, NEW n \in Nat, NEW e \in Nat,
         s.start <= n, n <= e, t.start = n,
         \A p \in n .. e - 1 : Get(t, p) = Get(s, p),
         NEW base, NEW mid, NEW now, Shows(s, n, base, mid), Shows(s, e, base, now)
  PROVE  Shows(t, e, mid, now)
<1>n. s.start \in Nat
  BY LogFacts
<1> SUFFICES ASSUME NEW a \in Addr
             PROVE  /\ \A p \in t.start .. e - 1 : LastIn(t, a, p, e) => Get(t, p).Block = now[a]
                    /\ Untouched(t, a, e) => now[a] = mid[a]
  BY DEF Shows
<1>1. ASSUME NEW p \in t.start .. e - 1, LastIn(t, a, p, e)
      PROVE  Get(t, p).Block = now[a]
  <2>1. p \in s.start .. e - 1 /\ p \in n .. e - 1 /\ Get(t, p) = Get(s, p)
    BY <1>n
  <2>2. \A q \in p + 1 .. e - 1 : q \in n .. e - 1
    BY <2>1
  <2>3. LastIn(s, a, p, e)
    BY <1>1, <2>1, <2>2 DEF LastIn
  <2> QED
    BY <2>1, <2>3 DEF Shows
<1>2. ASSUME Untouched(t, a, e)
      PROVE  now[a] = mid[a]
  <2>1. \A q \in n .. e - 1 : Get(s, q).Addr # a
    BY <1>2 DEF Untouched
  <2>2. CASE Untouched(s, a, n)
    <3>1. Untouched(s, a, e)
      BY <1>n, <2>1, <2>2 DEF Untouched
    <3> QED
      BY <2>2, <3>1 DEF Shows
  <2>3. CASE ~Untouched(s, a, n)
    <3>1. PICK p \in s.start .. n - 1 : LastIn(s, a, p, n)
      BY <2>3, LastExists
    <3>2. LastIn(s, a, p, e) /\ p \in s.start .. e - 1
      BY <1>n, <2>1, <3>1 DEF LastIn
    <3> QED
      BY <3>1, <3>2 DEF Shows
  <2> QED
    BY <2>2, <2>3
<1> QED
  BY <1>1, <1>2

(* Where memWrite puts an update: on the only one of its address that may    *)
(* still change, or at the end.                                              *)
WritesAt(s, u, t, w) ==
  /\ t \in SlidingType /\ t.start = s.start /\ t.mutable = s.mutable
  /\ w \in s.mutable .. End(s) /\ Get(t, w) = u
  /\ End(t) = IF w = End(s) THEN End(s) + 1 ELSE End(s)
  /\ \A p \in s.start .. End(s) - 1 : p # w => Get(t, p) = Get(s, p)
  /\ w # End(s) => Get(s, w).Addr = u.Addr
  /\ \A p \in s.mutable .. End(s) - 1 : Get(s, p).Addr = u.Addr => p = w
  /\ \A a \in Addr : t.addrPos[a] = IF a = u.Addr THEN w ELSE s.addrPos[a]

(* A log in order: what the invariants say of memLog.                        *)
InOrder(s) ==
  /\ s \in SlidingType /\ s.start <= s.mutable /\ s.mutable <= End(s)
  /\ \A a \in Addr : Finds(s, a)
  /\ MutableUnique(s)

(* memWrite of one update writes it there.                                   *)
LEMMA MemWriteWrites ==
  ASSUME NEW s, InOrder(s), NEW u \in Update
  PROVE  \E w \in Nat : WritesAt(s, u, MemWrite(s, u), w)
<1>1. /\ s.start \in Nat /\ s.mutable \in Nat /\ End(s) \in Nat
      /\ s.log \in Seq(Update) /\ Len(s.log) \in Nat
      /\ End(s) = s.start + Len(s.log) /\ s \in SlidingType
      /\ s.start <= s.mutable /\ s.mutable <= End(s)
  BY LogFacts DEF InOrder
<1>2. u.Addr \in Addr /\ Finds(s, u.Addr)
  BY DEF Update, InOrder
<1>3. s.addrPos \in [Addr -> Nat \cup {NoPos}]
  BY <1>1 DEF SlidingType
<1>e. /\ MemWrite(s, u) \in SlidingType
      /\ MemWrite(s, u).start = s.start /\ MemWrite(s, u).mutable = s.mutable
  BY <1>1, MemWriteEffect
<1> DEFINE t == MemWrite(s, u)
<1>4. CASE Absorbable(s, u)
  <2> DEFINE w == s.addrPos[u.Addr]
             i == w - s.start + 1
  <2>1. t = [s EXCEPT !.log[i] = u]
    BY <1>4 DEF MemWrite, UpdateAt
  <2>2. w # NoPos /\ w >= s.mutable /\ w \in Nat
    BY <1>2, <1>3, <1>4 DEF Absorbable
  <2>3. LastIn(s, u.Addr, w, End(s))
    BY <1>2, <2>2 DEF Finds
  <2>4. w \in s.start .. End(s) - 1 /\ Get(s, w).Addr = u.Addr
    BY <2>3 DEF LastIn
  <2>5. i \in 1 .. Len(s.log)
    BY <1>1, <2>2, <2>4
  <2>6. t.log = [s.log EXCEPT ![i] = u] /\ t.addrPos = s.addrPos /\ Len(t.log) = Len(s.log)
    BY <1>1, <2>1, <2>5 DEF SlidingType
  <2>7. End(t) = End(s) /\ w # End(s)
    BY <1>1, <1>e, <2>2, <2>4, <2>6 DEF End
  <2>8. Get(t, w) = u
    BY <1>1, <1>e, <2>5, <2>6 DEF Get
  <2>9. ASSUME NEW p \in s.start .. End(s) - 1, p # w
        PROVE  Get(t, p) = Get(s, p)
    <3>1. p - s.start + 1 # i /\ p - s.start + 1 \in 1 .. Len(s.log)
      <4>1. /\ s.start \in Int /\ Len(s.log) \in Int /\ w \in Int
            /\ p \in Int /\ s.start <= p /\ p < s.start + Len(s.log) /\ p # w
        BY <1>1, <2>2, <2>9
      <4> HIDE DEF w
      <4> QED
        BY ONLY <4>1 DEF i
    <3> QED
      BY <1>1, <1>e, <2>6, <3>1 DEF Get
  <2>10. \A p \in s.mutable .. End(s) - 1 : Get(s, p).Addr = u.Addr => p = w
    BY <1>1, <2>2, <2>4 DEF InOrder, MutableUnique
  <2>11. w \in s.mutable .. End(s)
    BY <1>1, <2>2, <2>4
  <2>12. \A a \in Addr : t.addrPos[a] = IF a = u.Addr THEN w ELSE s.addrPos[a]
    BY <2>6
  <2> HIDE DEF t, w
  <2>13. WritesAt(s, u, t, w)
    BY <1>e, <2>4, <2>7, <2>8, <2>9, <2>10, <2>11, <2>12 DEF WritesAt, t
  <2> QED
    BY <2>2, <2>13 DEF t
<1>5. CASE ~Absorbable(s, u)
  <2> DEFINE w == End(s)
  <2>1. t = AppendUpdate(s, u)
    BY <1>5 DEF MemWrite
  <2>2. t.log = Append(s.log, u) /\ t.addrPos = [s.addrPos EXCEPT ![u.Addr] = End(s)]
    BY <1>1, <2>1 DEF AppendUpdate, SlidingType
  <2>3. /\ Len(t.log) = Len(s.log) + 1 /\ t.log[Len(s.log) + 1] = u
        /\ \A j \in 1 .. Len(s.log) : t.log[j] = s.log[j]
    BY <1>1, <2>2, AppendProperties
  <2>4. End(t) = End(s) + 1
    BY <1>1, <1>e, <2>3 DEF End
  <2>5. w - s.start + 1 = Len(s.log) + 1
    BY <1>1
  <2>6. Get(t, w) = u
    BY <1>e, <2>3, <2>5 DEF Get
  <2>7. ASSUME NEW p \in s.start .. End(s) - 1
        PROVE  Get(t, p) = Get(s, p)
    <3>1. p - s.start + 1 \in 1 .. Len(s.log)
      BY <1>1
    <3> QED
      BY <1>e, <2>3, <3>1 DEF Get
  <2>8. ASSUME NEW p \in s.mutable .. End(s) - 1, Get(s, p).Addr = u.Addr
        PROVE  FALSE
    <3>1. p \in s.start .. End(s) - 1 /\ p \in Nat
      BY <1>1
    <3>2. ~Untouched(s, u.Addr, End(s))
      BY <2>8, <3>1 DEF Untouched
    <3>3. s.addrPos[u.Addr] # NoPos /\ LastIn(s, u.Addr, s.addrPos[u.Addr], End(s))
      BY <1>2, <3>2 DEF Finds
    <3>4. s.addrPos[u.Addr] \in Nat /\ s.addrPos[u.Addr] < s.mutable
      BY <1>1, <1>2, <1>3, <1>5, <3>3 DEF Absorbable
    <3>5. p \in s.addrPos[u.Addr] + 1 .. End(s) - 1
      BY <1>1, <3>1, <3>4
    <3> QED
      BY <2>8, <3>3, <3>5 DEF LastIn
  <2>9. \A a \in Addr : t.addrPos[a] = IF a = u.Addr THEN w ELSE s.addrPos[a]
    BY <1>3, <2>2
  <2>10. w \in s.mutable .. End(s)
    BY <1>1
  <2> HIDE DEF t
  <2>11. WritesAt(s, u, t, w)
    BY <1>e, <2>4, <2>6, <2>7, <2>8, <2>9, <2>10 DEF WritesAt, t
  <2> QED
    BY <1>1, <2>11 DEF t
<1> QED
  BY <1>4, <1>5

(* So the log stays in order.                                                *)
LEMMA WriteInOrder ==
  ASSUME NEW s, InOrder(s), NEW u \in Update, NEW t, NEW w \in Nat, WritesAt(s, u, t, w)
  PROVE  InOrder(t)
<1>1. /\ s.start \in Nat /\ s.mutable \in Nat /\ End(s) \in Nat /\ s \in SlidingType
      /\ s.start <= s.mutable /\ s.mutable <= End(s) /\ t \in SlidingType
      /\ t.start = s.start /\ t.mutable = s.mutable
      /\ s.mutable <= w /\ w <= End(s) /\ Get(t, w) = u /\ u.Addr \in Addr
      /\ End(t) = IF w = End(s) THEN End(s) + 1 ELSE End(s)
  BY LogFacts DEF InOrder, WritesAt, Update
<1>2. \A p \in s.start .. End(s) - 1 : p # w => Get(t, p) = Get(s, p)
  BY DEF WritesAt
<1>3. \A p \in s.mutable .. End(s) - 1 : Get(s, p).Addr = u.Addr => p = w
  BY DEF WritesAt
<1>4. End(t) \in Nat /\ End(s) <= End(t) /\ w < End(t)
  BY <1>1
<1>5. ASSUME NEW p \in s.start .. End(t) - 1, p # w
      PROVE  p \in s.start .. End(s) - 1 /\ Get(t, p) = Get(s, p)
  <2>1. p \in s.start .. End(s) - 1
    BY <1>1, <1>4, <1>5
  <2> QED
    BY <1>2, <1>5, <2>1
<1>6. ASSUME NEW a \in Addr
      PROVE  Finds(t, a)
  <2>1. CASE a = u.Addr
    <3>1. t.addrPos[a] = w /\ w # NoPos
      BY <2>1 DEF WritesAt, NoPos
    <3>2. ASSUME NEW q \in w + 1 .. End(t) - 1, Get(t, q).Addr = a
          PROVE  FALSE
      <4>1. q \in s.start .. End(t) - 1 /\ q # w
        BY <1>1, <1>4
      <4>2. q \in s.mutable .. End(s) - 1 /\ Get(s, q).Addr = u.Addr
        BY <1>1, <1>5, <2>1, <3>2, <4>1
      <4> QED
        BY <1>3, <4>1, <4>2
    <3>3. w \in t.start .. End(t) - 1
      BY <1>1, <1>4
    <3> QED
      BY <1>1, <2>1, <3>1, <3>2, <3>3 DEF Finds, LastIn
  <2>2. CASE a # u.Addr
    <3>1. t.addrPos[a] = s.addrPos[a]
      BY <2>2 DEF WritesAt
    <3>2. Finds(s, a) /\ s.addrPos[a] \in Nat \cup {NoPos}
      BY DEF InOrder, SlidingType
    <3>3. CASE s.addrPos[a] = NoPos
      <4>1. Untouched(s, a, End(s))
        BY <3>2, <3>3 DEF Finds
      <4>2. Untouched(t, a, End(t))
        BY <1>1, <1>5, <2>2, <4>1 DEF Untouched
      <4> QED
        BY <3>1, <3>3, <4>2 DEF Finds
    <3>4. CASE s.addrPos[a] # NoPos
      <4> DEFINE p == s.addrPos[a]
      <4>1. LastIn(s, a, p, End(s)) /\ p \in Nat
        BY <3>2, <3>4 DEF Finds
      <4> HIDE DEF p
      <4>2. p \in s.start .. End(s) - 1 /\ Get(s, p).Addr = a
        BY <4>1 DEF LastIn
      <4>3. p # w
        BY <1>1, <2>2, <4>1, <4>2 DEF WritesAt
      <4>4. Get(t, p).Addr = a /\ p \in t.start .. End(t) - 1
        BY <1>1, <1>2, <1>4, <4>2, <4>3
      <4>5. ASSUME NEW q \in p + 1 .. End(t) - 1
            PROVE  Get(t, q).Addr # a
        <5>1. q \in s.start .. End(t) - 1
          BY <1>1, <4>1, <4>2
        <5>2. CASE q = w
          BY <1>1, <2>2, <5>2
        <5>3. CASE q # w
          <6>1. q \in p + 1 .. End(s) - 1 /\ Get(t, q) = Get(s, q)
            BY <1>1, <1>5, <4>1, <5>1, <5>3
          <6> QED
            BY <4>1, <6>1 DEF LastIn
        <5> QED
          BY <5>2, <5>3
      <4>6. LastIn(t, a, p, End(t))
        BY <4>4, <4>5 DEF LastIn
      <4> QED
        BY <3>1, <3>4, <4>6 DEF Finds, p
    <3> QED
      BY <3>3, <3>4
  <2> QED
    BY <2>1, <2>2
<1>7. MutableUnique(t)
  <2> SUFFICES ASSUME NEW p \in t.mutable .. End(t) - 1, NEW q \in t.mutable .. End(t) - 1,
                      Get(t, p).Addr = Get(t, q).Addr
               PROVE  p = q
    BY DEF MutableUnique
  <2>1. p \in s.start .. End(t) - 1 /\ q \in s.start .. End(t) - 1 /\ p >= s.mutable /\ q >= s.mutable
    BY <1>1
  <2>2. \A x \in {p, q} : x # w => x \in s.mutable .. End(s) - 1 /\ Get(t, x) = Get(s, x)
    BY <1>1, <1>5, <2>1
  <2>3. CASE p # w /\ q # w
    BY <2>2, <2>3 DEF InOrder, MutableUnique
  <2>4. CASE p = w \/ q = w
    BY <1>1, <1>3, <2>2, <2>4
  <2> QED
    BY <2>3, <2>4
<1> QED
  BY <1>1, <1>4, <1>6, <1>7 DEF InOrder

(* And it shows what it showed, with the update made.                        *)
LEMMA WriteShows ==
  ASSUME NEW s, InOrder(s), NEW u \in Update, NEW t, NEW w \in Nat, WritesAt(s, u, t, w),
         NEW base, NEW now, NEW next, Shows(s, End(s), base, now),
         \A a \in Addr : next[a] = IF a = u.Addr THEN u.Block ELSE now[a]
  PROVE  Shows(t, End(t), base, next)
<1>1. /\ s.start \in Nat /\ s.mutable \in Nat /\ End(s) \in Nat /\ s \in SlidingType
      /\ s.start <= s.mutable /\ s.mutable <= End(s) /\ t \in SlidingType
      /\ t.start = s.start
      /\ s.mutable <= w /\ w <= End(s) /\ Get(t, w) = u /\ u.Addr \in Addr
      /\ End(t) = IF w = End(s) THEN End(s) + 1 ELSE End(s)
      /\ \A p \in s.start .. End(s) - 1 : p # w => Get(t, p) = Get(s, p)
  BY LogFacts DEF InOrder, WritesAt, Update
<1>2. InOrder(t)
  BY WriteInOrder
<1>3. End(t) \in Nat /\ End(s) <= End(t) /\ w < End(t)
  BY <1>1
<1>4. t.addrPos[u.Addr] = w /\ w # NoPos
  BY <1>1 DEF WritesAt, NoPos
<1>5. LastIn(t, u.Addr, w, End(t))
  BY <1>1, <1>2, <1>4 DEF InOrder, Finds
<1> SUFFICES ASSUME NEW a \in Addr
             PROVE  /\ \A p \in t.start .. End(t) - 1 : LastIn(t, a, p, End(t)) => Get(t, p).Block = next[a]
                    /\ Untouched(t, a, End(t)) => next[a] = base[a]
  BY DEF Shows
<1>6. CASE a = u.Addr
  <2>1. ~Untouched(t, a, End(t)) /\ \A q : LastIn(t, a, q, End(t)) => q = w
    BY <1>1, <1>3, <1>5, <1>6, LastUnique
  <2>2. next[a] = u.Block
    BY <1>6
  <2> QED
    BY <1>1, <2>1, <2>2
<1>7. CASE a # u.Addr
  <2>1. next[a] = now[a]
    BY <1>7
  <2>2. ASSUME NEW q \in s.start .. End(s) - 1
        PROVE  /\ q \in t.start .. End(t) - 1
               /\ Get(t, q).Addr = a => Get(t, q) = Get(s, q)
               /\ Get(s, q).Addr = a => Get(t, q) = Get(s, q)
    <3>1. q \in t.start .. End(t) - 1
      BY <1>1, <1>3
    <3>2. q = w => Get(s, q).Addr # a /\ Get(t, q).Addr # a
      BY <1>1, <1>7 DEF WritesAt
    <3> QED
      BY <1>1, <3>1, <3>2
  <2>3. ASSUME NEW p \in t.start .. End(t) - 1, LastIn(t, a, p, End(t))
        PROVE  Get(t, p).Block = next[a]
    <3>1. Get(t, p).Addr = a /\ p # w
      BY <1>1, <1>7, <2>3 DEF LastIn
    <3>2. p \in s.start .. End(s) - 1
      BY <1>1, <3>1
    <3>3. Get(s, p) = Get(t, p)
      BY <2>2, <3>1, <3>2
    <3>4. ASSUME NEW q \in p + 1 .. End(s) - 1
          PROVE  Get(s, q).Addr # a
      <4>1. q \in s.start .. End(s) - 1 /\ q \in p + 1 .. End(t) - 1
        BY <1>1, <1>3, <3>2
      <4> QED
        BY <2>2, <2>3, <4>1 DEF LastIn
    <3>5. LastIn(s, a, p, End(s))
      BY <3>1, <3>2, <3>3, <3>4 DEF LastIn
    <3> QED
      BY <2>1, <3>2, <3>3, <3>5 DEF Shows
  <2>4. ASSUME Untouched(t, a, End(t))
        PROVE  next[a] = base[a]
    <3>1. Untouched(s, a, End(s))
      BY <2>2, <2>4 DEF Untouched
    <3> QED
      BY <2>1, <3>1 DEF Shows
  <2> QED
    BY <2>3, <2>4
<1> QED
  BY <1>6, <1>7

(* deleteFrom leaves a log in order.                                         *)
LEMMA DeleteInOrder ==
  ASSUME NEW s, InOrder(s), NEW n \in Nat, s.start <= n, n <= s.mutable
  PROVE  InOrder(DeleteFrom(s, n))
<1>1. /\ s.start \in Nat /\ s.mutable \in Nat /\ End(s) \in Nat /\ s \in SlidingType
      /\ s.mutable <= End(s) /\ Len(s.log) \in Nat /\ End(s) = s.start + Len(s.log)
  BY LogFacts DEF InOrder
<1> DEFINE t == DeleteFrom(s, n)
<1>2. /\ t \in SlidingType /\ t.start = n /\ t.mutable = s.mutable /\ End(t) = End(s)
      /\ \A p \in n .. End(s) - 1 : Get(t, p) = Get(s, p)
  BY <1>1, DeleteFromEffect
<1>3. ASSUME NEW a \in Addr
      PROVE  t.addrPos[a] =
               IF \E i \in 1 .. (n - s.start) : s.log[i].Addr = a /\ s.addrPos[a] <= s.start + i - 1
                 THEN NoPos ELSE s.addrPos[a]
  BY <1>1 DEF DeleteFrom, SlidingType
<1> HIDE DEF t
<1>4. ASSUME NEW a \in Addr
      PROVE  Finds(t, a)
  <2>1. Finds(s, a) /\ s.addrPos[a] \in Nat \cup {NoPos}
    BY DEF InOrder, SlidingType
  <2>2. CASE s.addrPos[a] = NoPos
    <3>1. t.addrPos[a] = NoPos
      BY <1>3, <2>2
    <3>2. Untouched(s, a, End(s))
      BY <2>1, <2>2 DEF Finds
    <3>3. Untouched(t, a, End(t))
      BY <1>1, <1>2, <3>2 DEF Untouched
    <3> QED
      BY <3>1, <3>3 DEF Finds
  <2>3. CASE s.addrPos[a] # NoPos
    <3> DEFINE p == s.addrPos[a]
    <3>1. LastIn(s, a, p, End(s)) /\ p \in Nat
      BY <2>1, <2>3 DEF Finds
    <3>2. p \in s.start .. End(s) - 1 /\ Get(s, p).Addr = a
          /\ \A q \in p + 1 .. End(s) - 1 : Get(s, q).Addr # a
      BY <3>1 DEF LastIn
    <3>3. CASE p < n
      <4>1. p - s.start + 1 \in 1 .. (n - s.start) /\ s.log[p - s.start + 1].Addr = a
            /\ p <= s.start + (p - s.start + 1) - 1
        <5>1. s.log[p - s.start + 1].Addr = a
          BY <3>2 DEF Get
        <5>2. s.start \in Int /\ n \in Int /\ p \in Int /\ s.start <= p /\ p < n
          BY <1>1, <3>1, <3>2, <3>3
        <5> HIDE DEF p
        <5>3. p - s.start + 1 \in 1 .. (n - s.start) /\ p <= s.start + (p - s.start + 1) - 1
          BY ONLY <5>2
        <5> QED
          BY <5>1, <5>3
      <4>2. t.addrPos[a] = NoPos
        BY <1>3, <4>1
      <4> HIDE DEF p
      <4>3. \A q \in n .. End(s) - 1 : q \in p + 1 .. End(s) - 1
        BY <1>1, <3>1, <3>3
      <4>4. Untouched(t, a, End(t))
        BY <1>2, <3>2, <4>3 DEF Untouched
      <4> QED
        BY <4>2, <4>4 DEF Finds
    <3>4. CASE p >= n
      <4>1. \A i \in 1 .. (n - s.start) : ~(p <= s.start + i - 1)
        BY <1>1, <3>1, <3>4
      <4>2. t.addrPos[a] = p
        BY <1>3, <4>1
      <4>3. p # NoPos
        BY <2>3
      <4> HIDE DEF p
      <4>4. p \in n .. End(s) - 1
        BY <1>1, <3>1, <3>2, <3>4
      <4>5. \A q \in p + 1 .. End(s) - 1 : q \in n .. End(s) - 1
        BY <1>1, <3>1, <3>4
      <4>6. LastIn(t, a, p, End(t))
        BY <1>2, <3>2, <4>4, <4>5 DEF LastIn
      <4> QED
        BY <4>2, <4>3, <4>6 DEF Finds
    <3> QED
      BY <1>1, <3>1, <3>3, <3>4
  <2> QED
    BY <2>2, <2>3
<1>5. MutableUnique(t)
  <2>1. \A p \in s.mutable .. End(s) - 1 : p \in n .. End(s) - 1
    BY <1>1
  <2> QED
    BY <1>2, <2>1 DEF InOrder, MutableUnique
<1> QED
  BY <1>1, <1>2, <1>4, <1>5 DEF InOrder, t

(* A log whose flag alone, or whose read-only bound, differs.                *)
SameLog(s, t) == t.log = s.log /\ t.start = s.start /\ t.addrPos = s.addrPos

(* Such logs have the same updates, and the same are last.                   *)
LEMMA SameLogFacts ==
  ASSUME NEW s, NEW t, SameLog(s, t)
  PROVE  /\ End(t) = End(s) /\ \A p : Get(t, p) = Get(s, p)
         /\ \A a : Finds(t, a) <=> Finds(s, a)
         /\ \A e, base, now : Shows(t, e, base, now) <=> Shows(s, e, base, now)
         /\ \A a, e : Untouched(t, a, e) <=> Untouched(s, a, e)
         /\ \A a, p, e : LastIn(t, a, p, e) <=> LastIn(s, a, p, e)
<1>1. End(t) = End(s) /\ \A p : Get(t, p) = Get(s, p)
  BY DEF SameLog, End, Get
<1>2. t.start = s.start /\ t.addrPos = s.addrPos
  BY DEF SameLog
<1>3. \A a, e : Untouched(t, a, e) <=> Untouched(s, a, e)
  BY <1>1, <1>2 DEF Untouched
<1>4. \A a, p, e : LastIn(t, a, p, e) <=> LastIn(s, a, p, e)
  BY <1>1, <1>2 DEF LastIn
<1> QED
  BY <1>1, <1>2, <1>3, <1>4 DEF Finds, Shows

(* flushIfNeeded changes the bound only.                                     *)
LEMMA FlushIfNeededSame ==
  ASSUME NEW s \in SlidingType
  PROVE  SameLog(s, FlushIfNeeded(s))
BY DEF SameLog, FlushIfNeeded, ClearMutable, SlidingType

-----------------------------------------------------------------------------
(* Transactions                                                              *)

(* Transactions in order, the first of them the empty one.                   *)
Good(ts) == ts \in Seq(Txn) /\ Len(ts) >= 1 /\ ts[1].pos = 0 /\ Ordered(ts)

(* Numbers of transactions and their positions.                              *)
LEMMA GoodFacts ==
  ASSUME NEW ts, Good(ts)
  PROVE  /\ ts \in Seq(Txn) /\ Len(ts) \in Nat /\ Len(ts) >= 1 /\ DOMAIN ts = 1 .. Len(ts)
         /\ \A n \in 1 .. Len(ts) : ts[n] \in Txn /\ ts[n].pos \in Nat /\ ts[n].upds \in Seq(Update)
         /\ \A i, j \in 1 .. Len(ts) : i <= j => ts[i].pos <= ts[j].pos
         /\ ts[1].pos = 0
<1>1. ts \in Seq(Txn) /\ Len(ts) \in Nat /\ Len(ts) >= 1 /\ DOMAIN ts = 1 .. Len(ts)
  BY DEF Good
<1>2. \A n \in 1 .. Len(ts) : ts[n] \in Txn
  BY <1>1, ElementOfSeq
<1> QED
  BY <1>1, <1>2 DEF Good, Ordered, Txn

(* The transactions that fit below a position are the first so many.         *)
LEMMA UpToIs ==
  ASSUME NEW ts, Good(ts), NEW e \in Nat
  PROVE  /\ UpTo(ts, e) \in 1 .. Len(ts)
         /\ \A m \in 1 .. Len(ts) : ts[m].pos <= e <=> m <= UpTo(ts, e)
<1> DEFINE n == UpTo(ts, e)
<1>1. /\ ts \in Seq(Txn) /\ Len(ts) \in Nat /\ Len(ts) >= 1
      /\ \A m \in 1 .. Len(ts) : ts[m].pos \in Nat
      /\ \A i, j \in 1 .. Len(ts) : i <= j => ts[i].pos <= ts[j].pos
      /\ ts[1].pos = 0
  BY GoodFacts
<1>2. 1 \in 1 .. Len(ts) /\ ts[1].pos <= e
  BY <1>1
<1>3. n \in 1 .. Len(ts) /\ ts[n].pos <= e
  BY <1>1, <1>2, UpToMax DEF UpTo
<1>4. \A m \in 1 .. Len(ts) : ts[m].pos <= e => m <= n
  BY <1>1, UpToMax DEF UpTo
<1> HIDE DEF n
<1>5. ASSUME NEW m \in 1 .. Len(ts), m <= n
      PROVE  ts[m].pos <= e
  <2>1. ts[m].pos <= ts[n].pos /\ ts[m].pos \in Nat /\ ts[n].pos \in Nat
    BY <1>1, <1>3, <1>5
  <2> QED
    BY <1>3, <2>1
<1>6. n \in 1 .. Len(ts) /\ \A m \in 1 .. Len(ts) : ts[m].pos <= e <=> m <= n
  BY <1>3, <1>4, <1>5
<1> QED
  BY <1>6 DEF n

(* And that number is the only one of which this is true.                    *)
LEMMA UpToUnique ==
  ASSUME NEW ts, Good(ts), NEW e \in Nat, NEW n \in 1 .. Len(ts),
         \A m \in 1 .. Len(ts) : ts[m].pos <= e <=> m <= n
  PROVE  UpTo(ts, e) = n
<1>1. PICK k \in 1 .. Len(ts) : k = UpTo(ts, e) /\ \A m \in 1 .. Len(ts) : ts[m].pos <= e <=> m <= k
  BY UpToIs
<1>2. Len(ts) \in Nat
  BY GoodFacts
<1>3. k <= n /\ n <= k
  BY <1>1, <1>2
<1> QED
  BY <1>1, <1>2, <1>3

(* More transactions fit below a higher position.                            *)
LEMMA UpToMono ==
  ASSUME NEW ts, Good(ts), NEW e \in Nat, NEW f \in Nat, e <= f
  PROVE  UpTo(ts, e) <= UpTo(ts, f)
<1>1. PICK k \in 1 .. Len(ts) : k = UpTo(ts, e) /\ \A m \in 1 .. Len(ts) : ts[m].pos <= e <=> m <= k
  BY UpToIs
<1>2. ts[k].pos <= e /\ ts[k].pos \in Nat
  BY <1>1, GoodFacts
<1>3. ts[k].pos <= f
  BY <1>2
<1> QED
  BY <1>1, <1>3, UpToIs

(* What the first transactions leave does not depend on the rest.            *)
LEMMA DiskOfPrefix ==
  ASSUME NEW ts \in Seq(Txn), NEW us \in Seq(Txn), NEW n \in Nat, n <= Len(ts), n <= Len(us),
         \A i \in 1 .. n : us[i] = ts[i]
  PROVE  \A m \in 1 .. n : DiskOf(us, m) = DiskOf(ts, m)
<1> SUFFICES ASSUME NEW m \in 1 .. n PROVE DiskOf(us, m) = DiskOf(ts, m)
  OBVIOUS
<1>1. Len(ts) \in Nat /\ Len(us) \in Nat /\ m \in Int /\ 1 \in Int
  OBVIOUS
<1>2. \A i \in 1 .. m : ts[i] \in Txn /\ us[i] \in Txn /\ us[i] = ts[i]
  BY <1>1, ElementOfSeq
<1>3. /\ SubSeq(ts, 1, m) \in Seq(Txn) /\ Len(SubSeq(ts, 1, m)) = m
      /\ \A i \in 1 .. m : SubSeq(ts, 1, m)[i] = ts[i]
  BY <1>1, <1>2, SubSeqProperties
<1>4. /\ SubSeq(us, 1, m) \in Seq(Txn) /\ Len(SubSeq(us, 1, m)) = m
      /\ \A i \in 1 .. m : SubSeq(us, 1, m)[i] = us[i]
  BY <1>1, <1>2, SubSeqProperties
<1>5. SubSeq(us, 1, m) = SubSeq(ts, 1, m)
  BY <1>2, <1>3, <1>4, SeqEqual
<1> QED
  BY <1>5 DEF DiskOf

(* Nor does the number of those that fit.                                    *)
LEMMA UpToPrefix ==
  ASSUME NEW ts, NEW us, Good(ts), Good(us), NEW n \in Nat, n <= Len(ts), n <= Len(us),
         \A i \in 1 .. n : us[i] = ts[i],
         NEW e \in Nat, UpTo(ts, e) <= n,
         \A m \in n + 1 .. Len(us) : ~(us[m].pos <= e)
  PROVE  UpTo(us, e) = UpTo(ts, e)
<1>1. PICK k \in 1 .. Len(ts) : k = UpTo(ts, e) /\ \A m \in 1 .. Len(ts) : ts[m].pos <= e <=> m <= k
  BY UpToIs
<1>2. Len(ts) \in Nat /\ Len(us) \in Nat
  BY GoodFacts
<1>3. k \in 1 .. Len(us) /\ k <= n
  BY <1>1, <1>2
<1>4. ASSUME NEW m \in 1 .. Len(us)
      PROVE  us[m].pos <= e <=> m <= k
  <2>1. CASE m <= n
    BY <1>1, <1>2, <2>1
  <2>2. CASE ~(m <= n)
    BY <1>2, <1>3, <2>2
  <2> QED
    BY <2>1, <2>2
<1> QED
  BY <1>1, <1>3, <1>4, UpToUnique

(* All transactions leave the latest blocks.                                 *)
LEMMA DiskOfAll ==
  ASSUME NEW ts \in Seq(Txn)
  PROVE  DiskOf(ts, Len(ts)) = Latest(ts)
<1>1. SubSeq(ts, 1, Len(ts)) = ts
  BY SubSeqFull
<1> QED
  BY <1>1 DEF DiskOf, Latest

(* The module LogState has a maximum of its own, the same.                   *)
LEMMA SameMax ==
  ASSUME NEW S
  PROVE  LS!Max(S) = Max(S)
BY DEF LS!Max, Max

(* A transaction more, a last update more.                                   *)
LEMMA ValueAppend ==
  ASSUME NEW ts \in Seq(Txn), NEW t \in Txn, NEW a
  PROVE  LS!Value(Append(ts, t), a) =
           IF \E j \in DOMAIN t.upds : t.upds[j].Addr = a
             THEN LS!LastWrite(t.upds, a) ELSE LS!Value(ts, a)
<1> DEFINE tt == Append(ts, t)
           n == Len(ts)
           W == LS!Writers(ts, a)
           V == LS!Writers(tt, a)
<1>1. /\ n \in Nat /\ Len(tt) = n + 1 /\ tt[n + 1] = t
      /\ \A i \in 1 .. n : tt[i] = ts[i]
      /\ DOMAIN tt = 1 .. n + 1 /\ DOMAIN ts = 1 .. n
  BY AppendProperties
<1>2. W \subseteq 1 .. n /\ W \subseteq 0 .. n
  BY <1>1 DEF LS!Writers
<1>3. \A i \in 1 .. n : i \in V <=> i \in W
  BY <1>1 DEF LS!Writers
<1>4. V \subseteq 1 .. n + 1 /\ V \subseteq 0 .. n + 1
  BY <1>1 DEF LS!Writers
<1>5. CASE \E j \in DOMAIN t.upds : t.upds[j].Addr = a
  <2>1. n + 1 \in V
    BY <1>1, <1>5 DEF LS!Writers
  <2>2. Max(V) = n + 1
    <3>0. n \in Nat /\ n + 1 \in Nat
      BY <1>1
    <3> HIDE DEF V, n, tt
    <3>1. Max(V) \in V /\ n + 1 <= Max(V)
      BY <1>4, <2>1, <3>0, MaxProperty
    <3>2. PICK m \in 1 .. n + 1 : m = Max(V) /\ n + 1 <= m
      BY <1>4, <3>1
    <3> QED
      BY <3>0, <3>2
  <2> QED
    BY <1>1, <1>5, <2>1, <2>2, SameMax DEF LS!Value
<1>6. CASE ~\E j \in DOMAIN t.upds : t.upds[j].Addr = a
  <2>1. n + 1 \notin V
    BY <1>1, <1>6 DEF LS!Writers
  <2>2. V = W
    <3> HIDE DEF V, W
    <3>1. \A i \in 1 .. n + 1 : i # n + 1 => i \in 1 .. n
      BY <1>1
    <3>2. V \subseteq W /\ W \subseteq V
      BY <1>2, <1>3, <1>4, <2>1, <3>1
    <3> QED
      BY <3>2
  <2>3. CASE W = {}
    BY <1>6, <2>2, <2>3 DEF LS!Value
  <2>4. CASE W # {}
    <3>1. Max(W) \in 1 .. n
      <4> HIDE DEF W
      <4> QED
        BY <1>1, <1>2, <2>4, MaxProperty
    <3>2. tt[Max(W)] = ts[Max(W)]
      BY <1>1, <3>1
    <3> QED
      BY <1>6, <2>2, <2>4, <3>2, SameMax DEF LS!Value
  <2> QED
    BY <2>3, <2>4
<1> QED
  BY <1>5, <1>6

(* The last write of a longer list.                                          *)
LEMMA LastWriteAppend ==
  ASSUME NEW us \in Seq(Update), NEW u \in Update, NEW a
  PROVE  /\ (\E j \in DOMAIN Append(us, u) : Append(us, u)[j].Addr = a)
              <=> (u.Addr = a \/ \E j \in DOMAIN us : us[j].Addr = a)
         /\ u.Addr = a => LS!LastWrite(Append(us, u), a) = u.Block
         /\ u.Addr # a /\ (\E j \in DOMAIN us : us[j].Addr = a)
              => LS!LastWrite(Append(us, u), a) = LS!LastWrite(us, a)
<1> DEFINE uu == Append(us, u)
           n == Len(us)
           J == { j \in DOMAIN us : us[j].Addr = a }
           K == { j \in DOMAIN uu : uu[j].Addr = a }
<1>1. /\ n \in Nat /\ Len(uu) = n + 1 /\ uu[n + 1] = u
      /\ \A i \in 1 .. n : uu[i] = us[i]
      /\ DOMAIN uu = 1 .. n + 1 /\ DOMAIN us = 1 .. n
  BY AppendProperties
<1>2. \A i \in 1 .. n + 1 : i = n + 1 \/ i \in 1 .. n
  BY <1>1
<1>3. 1 .. n \subseteq 1 .. n + 1 /\ n + 1 \in 1 .. n + 1
  BY <1>1
<1>4. K = IF u.Addr = a THEN J \cup {n + 1} ELSE J
  BY <1>1, <1>2, <1>3
<1>5. J \subseteq 0 .. n /\ J \subseteq 1 .. n /\ K \subseteq 0 .. n + 1 /\ K \subseteq 1 .. n + 1
  BY <1>1
<1>6. (\E j \in DOMAIN uu : uu[j].Addr = a) <=> (u.Addr = a \/ \E j \in DOMAIN us : us[j].Addr = a)
  BY <1>1, <1>2, <1>3
<1>7. ASSUME u.Addr = a
      PROVE  LS!LastWrite(uu, a) = u.Block
  <2>1. Max(K) = n + 1
    <3>1. n + 1 \in K
      BY <1>4, <1>7
    <3>0. n \in Nat /\ n + 1 \in Nat
      BY <1>1
    <3> HIDE DEF K, n, uu
    <3>2. Max(K) \in K /\ n + 1 <= Max(K)
      BY <1>5, <3>0, <3>1, MaxProperty
    <3>3. PICK m \in 1 .. n + 1 : m = Max(K) /\ n + 1 <= m
      BY <1>5, <3>2
    <3> QED
      BY <3>0, <3>3
  <2> QED
    BY <1>1, <2>1, SameMax DEF LS!LastWrite
<1>8. ASSUME u.Addr # a, \E j \in DOMAIN us : us[j].Addr = a
      PROVE  LS!LastWrite(uu, a) = LS!LastWrite(us, a)
  <2>1. K = J /\ J # {}
    BY <1>4, <1>8
  <2>2. Max(J) \in 1 .. n
    <3> HIDE DEF J
    <3> QED
      BY <1>1, <1>5, <2>1, MaxProperty
  <2>3. uu[Max(J)] = us[Max(J)]
    BY <1>1, <2>2
  <2> QED
    BY <2>1, <2>3, SameMax DEF LS!LastWrite
<1> QED
  BY <1>6, <1>7, <1>8

(* With none, with one more, and as a transaction that ends at k.            *)
LEMMA WithSteps ==
  ASSUME NEW ts \in Seq(Txn)
  PROVE  /\ With(ts, <<>>) = Latest(ts)
         /\ \A us \in Seq(Update), u \in Update, a \in Addr :
              With(ts, Append(us, u))[a] = IF a = u.Addr THEN u.Block ELSE With(ts, us)[a]
         /\ \A us \in Seq(Update), k \in Nat :
              Latest(Append(ts, [pos |-> k, upds |-> us])) = With(ts, us)
<1>1. \A k \in Nat, us \in Seq(Update) : [pos |-> k, upds |-> us] \in Txn
  BY DEF Txn
<1>2. ASSUME NEW us \in Seq(Update), NEW k \in Nat, NEW a \in Addr
      PROVE  LS!Value(Append(ts, [pos |-> k, upds |-> us]), a) =
               IF \E j \in DOMAIN us : us[j].Addr = a THEN LS!LastWrite(us, a) ELSE LS!Value(ts, a)
  BY <1>1, ValueAppend
<1>3. ASSUME NEW us \in Seq(Update), NEW a \in Addr
      PROVE  With(ts, us)[a] = IF \E j \in DOMAIN us : us[j].Addr = a
                                 THEN LS!LastWrite(us, a) ELSE LS!Value(ts, a)
  BY <1>2 DEF With, Latest
<1>4. With(ts, <<>>) = Latest(ts)
  <2>1. <<>> \in Seq(Update) /\ DOMAIN <<>> = {}
    OBVIOUS
  <2>2. \A a \in Addr : With(ts, <<>>)[a] = LS!Value(ts, a)
    BY <1>3, <2>1
  <2> QED
    BY <2>2 DEF With, Latest
<1>5. ASSUME NEW us \in Seq(Update), NEW u \in Update, NEW a \in Addr
      PROVE  With(ts, Append(us, u))[a] = IF a = u.Addr THEN u.Block ELSE With(ts, us)[a]
  <2>1. Append(us, u) \in Seq(Update)
    OBVIOUS
  <2>2. With(ts, Append(us, u))[a] =
          IF \E j \in DOMAIN Append(us, u) : Append(us, u)[j].Addr = a
            THEN LS!LastWrite(Append(us, u), a) ELSE LS!Value(ts, a)
    BY <1>3, <2>1
  <2>3. With(ts, us)[a] = IF \E j \in DOMAIN us : us[j].Addr = a
                                 THEN LS!LastWrite(us, a) ELSE LS!Value(ts, a)
    BY <1>3
  <2>4. CASE a = u.Addr
    <3>1. /\ \E j \in DOMAIN Append(us, u) : Append(us, u)[j].Addr = a
          /\ LS!LastWrite(Append(us, u), a) = u.Block
      BY <2>4, LastWriteAppend
    <3> QED
      BY ONLY <2>2, <2>4, <3>1
  <2>5. CASE a # u.Addr
    <3>1. CASE \E j \in DOMAIN us : us[j].Addr = a
      <4>1. \E j \in DOMAIN Append(us, u) : Append(us, u)[j].Addr = a
        BY <3>1, LastWriteAppend
      <4>2. LS!LastWrite(Append(us, u), a) = LS!LastWrite(us, a)
        BY <2>5, <3>1, LastWriteAppend
      <4> QED
        BY <2>2, <2>3, <2>5, <3>1, <4>1, <4>2
    <3>2. CASE ~\E j \in DOMAIN us : us[j].Addr = a
      <4>1. ~\E j \in DOMAIN Append(us, u) : Append(us, u)[j].Addr = a
        BY <2>5, <3>2, LastWriteAppend
      <4> QED
        BY <2>2, <2>3, <2>5, <3>2, <4>1
    <3> QED
      BY <3>1, <3>2
  <2> QED
    BY <2>4, <2>5
<1>6. ASSUME NEW us \in Seq(Update), NEW k \in Nat
      PROVE  Latest(Append(ts, [pos |-> k, upds |-> us])) = With(ts, us)
  BY <1>2 DEF With, Latest
<1> QED
  BY <1>4, <1>5, <1>6

(* A list, one longer.                                                       *)
LEMMA SubSeqNext ==
  ASSUME NEW S, NEW s \in Seq(S), NEW n \in 1 .. Len(s)
  PROVE  /\ SubSeq(s, 1, n) = Append(SubSeq(s, 1, n - 1), s[n])
         /\ SubSeq(s, 1, n - 1) \in Seq(S) /\ s[n] \in S
<1>1. n \in Nat /\ n >= 1 /\ Len(s) \in Nat /\ n <= Len(s)
  OBVIOUS
<1> DEFINE l == SubSeq(s, 1, n)
           m == SubSeq(s, 1, n - 1)
<1>2. l \in Seq(S) /\ Len(l) = n /\ \A i \in 1 .. n : l[i] = s[i]
  BY <1>1
<1>3. m \in Seq(S) /\ Len(m) = n - 1 /\ \A i \in 1 .. n - 1 : m[i] = s[i]
  BY <1>1
<1> HIDE DEF l, m
<1>4. s[n] \in S
  BY ElementOfSeq
<1> DEFINE r == Append(m, s[n])
<1>5. r \in Seq(S) /\ Len(r) = n /\ r[n] = s[n] /\ \A i \in 1 .. n - 1 : r[i] = s[i]
  BY <1>1, <1>3, <1>4, AppendProperties
<1> HIDE DEF r
<1>6. \A i \in 1 .. n : l[i] = r[i]
  <2> SUFFICES ASSUME NEW i \in 1 .. n PROVE l[i] = r[i]
    OBVIOUS
  <2>1. i = n \/ i \in 1 .. n - 1
    BY <1>1
  <2> QED
    BY <1>2, <1>5, <2>1
<1>7. l = r
  BY <1>1, <1>2, <1>5, <1>6, SeqEqual
<1> QED
  BY <1>3, <1>4, <1>7 DEF l, m, r

-----------------------------------------------------------------------------
(* The effect of the log                                                     *)

\* the positions B lie in the read-only part, with its two ends among them
Cuts(s, B) ==
  /\ B \subseteq Nat /\ s.start \in B /\ s.mutable \in B
  /\ \A e \in B : s.start <= e /\ e <= s.mutable

(* Fewer cuts, of a log with the same updates.                               *)
LEMMA EffectSame ==
  ASSUME NEW ts, NEW s, NEW t, NEW B, NEW C, Effect(ts, s, B), C \subseteq B,
         SameLog(s, t), t.mutable = s.mutable
  PROVE  Effect(ts, t, C) /\ \A now : Ends(ts, s, now) => Ends(ts, t, now)
<1>1. /\ End(t) = End(s) /\ (\A p : Get(t, p) = Get(s, p)) /\ t.start = s.start
      /\ \A e, base, now : Shows(t, e, base, now) <=> Shows(s, e, base, now)
  BY SameLogFacts DEF SameLog
<1>2. ASSUME NEW p \in t.start .. t.mutable - 1
      PROVE  Known(ts, t, C, p)
  <2>1. Known(ts, s, B, p)
    BY <1>1 DEF Effect
  <2> QED
    BY <1>1, <2>1 DEF Known
<1> QED
  BY <1>1, <1>2 DEF Effect, Ends

(* A log that is read-only to its end, and cut there.                        *)
LEMMA EffectFlush ==
  ASSUME NEW ts, Good(ts), NEW s, InOrder(s), NEW t, NEW B, NEW C, Cuts(s, B), Effect(ts, s, B),
         Ends(ts, s, Latest(ts)), ts[Len(ts)].pos = End(s), SameLog(s, t),
         t.mutable \in {s.mutable, End(s)}, C \subseteq B \cup {t.mutable}
  PROVE  Effect(ts, t, C) /\ \A now : Ends(ts, s, now) => Ends(ts, t, now)
<1>1. CASE t.mutable = s.mutable
  <2>1. C \subseteq B
    BY <1>1 DEF Cuts
  <2> QED
    BY <1>1, <2>1, EffectSame
<1>2. CASE t.mutable = End(s)
  <2>1. /\ End(t) = End(s) /\ (\A p : Get(t, p) = Get(s, p)) /\ t.start = s.start
        /\ \A e, base, now : Shows(t, e, base, now) <=> Shows(s, e, base, now)
    BY SameLogFacts DEF SameLog
  <2>n. /\ s.start \in Nat /\ s.mutable \in Nat /\ End(s) \in Nat
        /\ s.start <= s.mutable /\ s.mutable <= End(s)
    BY LogFacts DEF InOrder
  <2>g. ts \in Seq(Txn) /\ Len(ts) \in Nat /\ Len(ts) \in 1 .. Len(ts) /\ DOMAIN ts = 1 .. Len(ts)
        /\ \A n \in 1 .. Len(ts) : ts[n].pos \in Nat
        /\ \A i, j \in 1 .. Len(ts) : i <= j => ts[i].pos <= ts[j].pos
    BY GoodFacts
  <2>2. Disk(ts, End(s)) = Latest(ts)
    <3>1. \A m \in 1 .. Len(ts) : ts[m].pos <= End(s) <=> m <= Len(ts)
      BY <2>g
    <3>2. UpTo(ts, End(s)) = Len(ts)
      BY <2>g, <2>n, <3>1, UpToUnique
    <3> QED
      BY <2>g, <3>2, DiskOfAll DEF Disk
  <2>3. ASSUME NEW e \in C
        PROVE  /\ \E n \in DOMAIN ts : ts[n].pos = e
               /\ Shows(t, e, Disk(ts, t.start), Disk(ts, e))
    <3>1. CASE e \in B
      BY <2>1, <3>1 DEF Effect
    <3>2. CASE e = End(s)
      BY <2>1, <2>2, <2>g, <3>2 DEF Ends
    <3> QED
      BY <1>2, <3>1, <3>2
  <2>4. ASSUME NEW p \in s.start .. End(s) - 1
        PROVE  Known(ts, t, C, p)
    <3>n. p \in Nat
      BY <2>n
    <3>1. CASE p < s.mutable
      <4>1. Known(ts, s, B, p)
        BY <2>n, <3>n, <3>1 DEF Effect
      <4>2. PICK n \in DOMAIN ts :
              /\ Get(s, p).Block = DiskOf(ts, n)[Get(s, p).Addr]
              /\ ts[n].pos > p
              /\ \A e \in B : e > p => ts[n].pos <= e
        BY <4>1 DEF Known
      <4>3. ts[n].pos <= End(s)
        BY <2>g, <4>2
      <4>4. \A e \in C : e > p => ts[n].pos <= e
        BY <1>2, <4>2, <4>3
      <4> QED
        BY <2>1, <4>2, <4>4 DEF Known
    <3>2. CASE p >= s.mutable
      <4> DEFINE a == Get(s, p).Addr
      <4>1. a \in Addr
        <5>1. p - s.start + 1 \in 1 .. Len(s.log) /\ s.log \in Seq(Update)
          <6>1. /\ s.log \in Seq(Update) /\ Len(s.log) \in Int /\ s.start \in Int
                /\ End(s) = s.start + Len(s.log)
            BY LogFacts DEF InOrder
          <6>2. p \in s.start .. End(s) - 1
            OBVIOUS
          <6> QED
            BY ONLY <6>1, <6>2
        <5>2. Get(s, p) \in Update
          BY <5>1 DEF Get
        <5> QED
          BY <5>2 DEF Update
      <4>2. \A q \in p + 1 .. End(s) - 1 : Get(s, q).Addr # a
        <5> SUFFICES ASSUME NEW q \in p + 1 .. End(s) - 1, Get(s, q).Addr = a PROVE FALSE
          OBVIOUS
        <5>1. q \in s.mutable .. End(s) - 1 /\ p \in s.mutable .. End(s) - 1 /\ p # q
          BY <2>n, <3>n, <3>2
        <5> QED
          BY <5>1 DEF InOrder, MutableUnique
      <4>3. LastIn(s, a, p, End(s))
        BY <4>2 DEF LastIn
      <4> HIDE DEF a
      <4>4. Get(s, p).Block = Latest(ts)[a]
        BY <4>1, <4>3 DEF Ends, Shows
      <4>5. DiskOf(ts, Len(ts)) = Latest(ts)
        BY <2>g, DiskOfAll
      <4>6. \A e \in C : e > p => End(s) <= e
        BY <1>2, <2>n, <3>n, <3>2 DEF Cuts
      <4>7. End(s) > p
        BY <2>n, <3>n
      <4> QED
        BY <2>1, <2>g, <4>4, <4>5, <4>6, <4>7 DEF Known, a
    <3> QED
      BY <2>n, <3>n, <3>1, <3>2
  <2>5. Effect(ts, t, C)
    BY <1>2, <2>1, <2>3, <2>4 DEF Effect
  <2> QED
    BY <2>1, <2>5 DEF Ends
<1> QED
  BY <1>1, <1>2

(* A log without its beginning.                                              *)
LEMMA EffectCut ==
  ASSUME NEW ts, NEW s \in SlidingType, NEW t \in SlidingType, NEW B, NEW C, NEW n \in Nat,
         Effect(ts, s, B), C \subseteq B, n \in B, s.start <= n, n <= End(s),
         \A e \in C : e \in Nat /\ n <= e /\ e <= End(s),
         t.start = n, t.mutable = s.mutable, End(t) = End(s), s.mutable <= End(s),
         \A p \in n .. End(s) - 1 : Get(t, p) = Get(s, p)
  PROVE  Effect(ts, t, C) /\ \A now : Ends(ts, s, now) => Ends(ts, t, now)
<1>n. s.start \in Nat /\ End(s) \in Nat /\ s.mutable \in Nat
  BY LogFacts
<1>1. Shows(s, n, Disk(ts, s.start), Disk(ts, n))
  BY DEF Effect
<1>2. ASSUME NEW e \in Nat, n <= e, e <= End(s), NEW now, Shows(s, e, Disk(ts, s.start), now)
      PROVE  Shows(t, e, Disk(ts, n), now)
  <2>1. \A p \in n .. e - 1 : Get(t, p) = Get(s, p)
    BY <1>n, <1>2
  <2> QED
    BY <1>1, <1>2, <2>1, LaterStart
<1>3. ASSUME NEW e \in C
      PROVE  Shows(t, e, Disk(ts, t.start), Disk(ts, e))
  <2>1. Shows(s, e, Disk(ts, s.start), Disk(ts, e))
    BY DEF Effect
  <2> QED
    BY <1>2, <2>1
<1>4. ASSUME NEW p \in t.start .. t.mutable - 1
      PROVE  Known(ts, t, C, p)
  <2>1. p \in s.start .. s.mutable - 1 /\ p \in n .. End(s) - 1
    BY <1>n
  <2>2. Known(ts, s, B, p)
    BY <2>1 DEF Effect
  <2> QED
    BY <2>1, <2>2 DEF Known
<1> QED
  BY <1>n, <1>2, <1>3, <1>4 DEF Effect, Ends

(* A log with an update more in its mutable part.                            *)
LEMMA EffectWrite ==
  ASSUME NEW ts, Good(ts), NEW s, InOrder(s), NEW u \in Update, NEW t, NEW w \in Nat,
         WritesAt(s, u, t, w), NEW B, Cuts(s, B), Effect(ts, s, B)
  PROVE  Effect(ts, t, B)
<1>1. /\ s.start \in Nat /\ s.mutable \in Nat /\ End(s) \in Nat
      /\ s.start <= s.mutable /\ s.mutable <= End(s)
  BY LogFacts DEF InOrder
<1>2. /\ t.start = s.start /\ t.mutable = s.mutable /\ s.mutable <= w /\ End(t) \in {End(s), End(s) + 1}
      /\ \A p \in s.start .. s.mutable - 1 : Get(t, p) = Get(s, p)
  BY <1>1 DEF WritesAt
<1>3. ASSUME NEW e \in B
      PROVE  Shows(t, e, Disk(ts, t.start), Disk(ts, e))
  <2>1. e \in Nat /\ \A p \in s.start .. e - 1 : Get(t, p) = Get(s, p)
    BY <1>1, <1>2 DEF Cuts
  <2>2. Shows(s, e, Disk(ts, s.start), Disk(ts, e))
    BY DEF Effect
  <2> QED
    BY <1>1, <1>2, <2>1, <2>2, SameBelow
<1>4. ASSUME NEW p \in t.start .. t.mutable - 1
      PROVE  Known(ts, t, B, p)
  <2>1. Known(ts, s, B, p)
    BY <1>2 DEF Effect
  <2> QED
    BY <1>2, <2>1 DEF Known
<1>5. ts[Len(ts)].pos <= End(t)
  <2>1. ts[Len(ts)].pos <= End(s) /\ ts[Len(ts)].pos \in Nat
    BY GoodFacts DEF Effect
  <2> QED
    BY <1>1, <1>2, <2>1
<1> QED
  BY <1>3, <1>4, <1>5 DEF Effect

(* A transaction more, at the end of the log.  If the log is cut there, it   *)
(* has no updates.                                                           *)
LEMMA EffectAppend ==
  ASSUME NEW ts, Good(ts), NEW s, InOrder(s), NEW B, Cuts(s, B), Effect(ts, s, B),
         NEW x \in Txn, x.pos = End(s), End(s) \in B => x.upds = <<>>
  PROVE  /\ Good(Append(ts, x)) /\ Effect(Append(ts, x), s, B)
         /\ \A e \in B : Disk(Append(ts, x), e) = Disk(ts, e)
         /\ Append(ts, x)[Len(Append(ts, x))].pos = End(s)
         /\ \A now : Ends(ts, s, now) => Ends(Append(ts, x), s, now)
<1> DEFINE us == Append(ts, x)
           k == Len(ts)
<1>n. /\ s.start \in Nat /\ s.mutable \in Nat /\ End(s) \in Nat
      /\ s.start <= s.mutable /\ s.mutable <= End(s)
  BY LogFacts DEF InOrder
<1>1. /\ ts \in Seq(Txn) /\ k \in Nat /\ k >= 1 /\ DOMAIN ts = 1 .. k
      /\ \A n \in 1 .. k : ts[n].pos \in Nat
      /\ \A i, j \in 1 .. k : i <= j => ts[i].pos <= ts[j].pos
      /\ ts[1].pos = 0
  BY GoodFacts
<1>2. /\ us \in Seq(Txn) /\ Len(us) = k + 1 /\ us[k + 1] = x
      /\ \A i \in 1 .. k : us[i] = ts[i]
      /\ DOMAIN us = 1 .. k + 1
  BY <1>1, AppendProperties
<1> HIDE DEF us, k
<1>3. \A i \in 1 .. k : ts[i].pos <= End(s)
  <2>1. ts[k].pos <= End(s) /\ k \in 1 .. k
    BY <1>1 DEF Effect, k
  <2>2. ASSUME NEW i \in 1 .. k PROVE ts[i].pos <= End(s)
    <3>1. ts[i].pos <= ts[k].pos /\ ts[i].pos \in Nat /\ ts[k].pos \in Nat
      BY <1>1, <2>1
    <3> QED
      BY <1>n, <2>1, <3>1
  <2> QED
    BY <2>2
<1>4. Good(us)
  <2>1. ASSUME NEW i \in DOMAIN us, NEW j \in DOMAIN us, i <= j
        PROVE  us[i].pos <= us[j].pos
    <3>1. CASE j = k + 1
      <4>1. CASE i = k + 1
        BY <1>2, <1>n, <3>1, <4>1
      <4>2. CASE i # k + 1
        <5>1. i \in 1 .. k
          BY <1>1, <1>2, <4>2
        <5> QED
          BY <1>2, <1>3, <3>1, <5>1
      <4> QED
        BY <4>1, <4>2
    <3>2. CASE j # k + 1
      <4>1. i \in 1 .. k /\ j \in 1 .. k
        BY <1>1, <1>2, <2>1, <3>2
      <4> QED
        BY <1>1, <1>2, <2>1, <4>1
    <3> QED
      BY <3>1, <3>2
  <2>2. Len(us) >= 1 /\ us[1].pos = 0
    BY <1>1, <1>2
  <2> QED
    BY <1>2, <2>1, <2>2 DEF Good, Ordered
<1>5. ASSUME NEW m \in 1 .. k
      PROVE  DiskOf(us, m) = DiskOf(ts, m)
  <2>1. k = Len(ts)
    BY DEF k
  <2>2. k \in Nat /\ k <= Len(ts) /\ k <= Len(us)
    BY <1>1, <1>2, <2>1
  <2>3. ts \in Seq(Txn) /\ us \in Seq(Txn) /\ \A i \in 1 .. k : us[i] = ts[i]
    BY <1>1, <1>2
  <2>4. \A j \in 1 .. k : DiskOf(us, j) = DiskOf(ts, j)
    BY ONLY <2>2, <2>3, DiskOfPrefix
  <2> QED
    BY <2>4
<1>6. ASSUME NEW e \in B
      PROVE  Disk(us, e) = Disk(ts, e)
  <2>n. e \in Nat
    BY DEF Cuts
  <2>1. CASE e # End(s)
    <3>1. e < End(s)
      BY <1>n, <2>1, <2>n DEF Cuts
    <3>2. UpTo(ts, e) \in 1 .. k
      BY <2>n, UpToIs DEF k
    <3>3. \A m \in k + 1 .. Len(us) : ~(us[m].pos <= e)
      <4> SUFFICES ASSUME NEW m \in k + 1 .. Len(us) PROVE ~(us[m].pos <= e)
        OBVIOUS
      <4>1. m = k + 1
        BY <1>1, <1>2
      <4> QED
        BY <1>2, <1>n, <2>n, <3>1, <4>1
    <3>4. k <= Len(ts) /\ k <= Len(us) /\ UpTo(ts, e) <= k
      BY <1>1, <1>2, <3>2 DEF k
    <3>5. UpTo(us, e) = UpTo(ts, e)
      BY <1>1, <1>2, <1>4, <2>n, <3>3, <3>4, UpToPrefix
    <3> QED
      BY <1>5, <3>2, <3>5 DEF Disk
  <2>2. CASE e = End(s)
    <3>1. x.upds = <<>>
      BY <2>2
    <3>2. UpTo(us, e) = k + 1
      <4>1. \A m \in 1 .. Len(us) : us[m].pos <= e <=> m <= k + 1
        <5> SUFFICES ASSUME NEW m \in 1 .. k + 1 PROVE us[m].pos <= e /\ m <= k + 1
          BY <1>2
        <5> QED
          BY <1>1, <1>2, <1>3, <1>n, <2>2
      <4>2. k + 1 \in 1 .. Len(us)
        BY <1>1, <1>2
      <4> HIDE DEF us
      <4> QED
        BY <1>4, <2>n, <4>1, <4>2, UpToUnique
    <3>3. UpTo(ts, e) = k
      <4>1. \A m \in 1 .. Len(ts) : ts[m].pos <= e <=> m <= k
        BY <1>1, <1>3, <2>2 DEF k
      <4>2. k \in 1 .. Len(ts)
        BY <1>1 DEF k
      <4> QED
        BY <2>n, <4>1, <4>2, UpToUnique
    <3>4. DiskOf(us, k + 1) = Latest(us) /\ DiskOf(ts, k) = Latest(ts)
      BY <1>1, <1>2, DiskOfAll DEF k
    <3>5. Latest(us) = Latest(ts)
      <4>1. x = [pos |-> End(s), upds |-> <<>>]
        BY <3>1 DEF Txn
      <4>2. <<>> \in Seq(Update)
        OBVIOUS
      <4>3. Latest(Append(ts, [pos |-> End(s), upds |-> <<>>])) = With(ts, <<>>) /\ With(ts, <<>>) = Latest(ts)
        BY <1>1, <1>n, <4>2, WithSteps
      <4> QED
        BY <4>1, <4>3 DEF us
    <3> QED
      BY <3>2, <3>3, <3>4, <3>5 DEF Disk
  <2> QED
    BY <2>1, <2>2
<1>7. ASSUME NEW e \in B
      PROVE  (\E n \in DOMAIN us : us[n].pos = e) /\ Shows(s, e, Disk(us, s.start), Disk(us, e))
  <2>1. \E n \in DOMAIN us : us[n].pos = e
    <3>1. PICK n \in 1 .. k : ts[n].pos = e
      BY <1>1 DEF Effect
    <3>2. n \in DOMAIN us /\ us[n].pos = e
      BY <1>1, <1>2, <3>1
    <3> QED
      BY <3>2
  <2>2. Shows(s, e, Disk(ts, s.start), Disk(ts, e)) /\ s.start \in B
    BY DEF Effect, Cuts
  <2> QED
    BY <1>6, <2>1, <2>2
<1>8. ASSUME NEW p \in s.start .. s.mutable - 1
      PROVE  Known(us, s, B, p)
  <2>1. PICK n \in 1 .. k :
          /\ Get(s, p).Block = DiskOf(ts, n)[Get(s, p).Addr]
          /\ ts[n].pos > p
          /\ \A e \in B : e > p => ts[n].pos <= e
    BY <1>1 DEF Effect, Known
  <2>2. n \in DOMAIN us /\ us[n] = ts[n] /\ DiskOf(us, n) = DiskOf(ts, n)
    BY <1>1, <1>2, <1>5
  <2> QED
    BY <2>1, <2>2 DEF Known
<1>9. us[Len(us)].pos = End(s)
  BY <1>2
<1>10. Effect(us, s, B)
  BY <1>4, <1>7, <1>8, <1>9, <1>n DEF Effect, Good
<1>11. \A now : Ends(ts, s, now) => Ends(us, s, now)
  BY <1>6 DEF Ends, Cuts
<1> QED
  BY <1>4, <1>6, <1>9, <1>10, <1>11 DEF us

\* the log t is what s has between the cuts n and m
Between(ts, s, B, t, n, m) ==
  /\ Good(ts) /\ s \in SlidingType /\ Cuts(s, B) /\ Effect(ts, s, B)
  /\ t \in SlidingType /\ n \in B /\ m \in B /\ n <= m
  /\ t.start = n /\ t.mutable = m /\ End(t) = m
  /\ \A p \in n .. m - 1 : Get(t, p) = Get(s, p)

\* the transactions us, the first of ts, are those of t
Kept(ts, us, t, n, m) ==
  /\ Good(us) /\ Effect(us, t, {n, m}) /\ Ends(us, t, Latest(us)) /\ us[Len(us)].pos = m
  /\ \A e \in Nat : e <= m => UpTo(us, e) = UpTo(ts, e)
  /\ \A i \in 1 .. UpTo(ts, m) : DiskOf(us, i) = DiskOf(ts, i)

(* What is left of the transactions, and of the log, between two cuts.       *)
LEMMA EffectCrash ==
  ASSUME NEW ts, NEW s, NEW B, NEW t, NEW n, NEW m, Between(ts, s, B, t, n, m)
  PROVE  Kept(ts, SubSeq(ts, 1, UpTo(ts, m)), t, n, m)
<1>h. /\ Good(ts) /\ s \in SlidingType /\ Cuts(s, B) /\ Effect(ts, s, B)
      /\ t \in SlidingType /\ n \in B /\ m \in B /\ n <= m
      /\ t.start = n /\ t.mutable = m /\ End(t) = m
      /\ \A p \in n .. m - 1 : Get(t, p) = Get(s, p)
  BY DEF Between
<1> USE <1>h
<1> DEFINE k == UpTo(ts, m)
           us == SubSeq(ts, 1, k)
<1>n. /\ s.start \in Nat /\ s.mutable \in Nat /\ n \in Nat /\ m \in Nat
      /\ s.start <= n /\ m <= s.mutable
  BY LogFacts DEF Cuts
<1>1. /\ ts \in Seq(Txn) /\ Len(ts) \in Nat /\ Len(ts) >= 1 /\ DOMAIN ts = 1 .. Len(ts)
      /\ \A i \in 1 .. Len(ts) : ts[i].pos \in Nat
      /\ \A i, j \in 1 .. Len(ts) : i <= j => ts[i].pos <= ts[j].pos
      /\ ts[1].pos = 0
  BY GoodFacts
<1>2. k \in 1 .. Len(ts) /\ \A i \in 1 .. Len(ts) : ts[i].pos <= m <=> i <= k
  BY <1>n, UpToIs
<1> HIDE DEF k
<1>3. us \in Seq(Txn) /\ Len(us) = k /\ DOMAIN us = 1 .. k /\ \A i \in 1 .. k : us[i] = ts[i]
  BY <1>1, <1>2
<1> HIDE DEF us
<1>4. Good(us)
  <2>1. Ordered(us)
    BY <1>1, <1>2, <1>3 DEF Ordered
  <2> QED
    BY <1>1, <1>2, <1>3, <2>1 DEF Good
<1>5. k \in Nat /\ k <= Len(ts) /\ k <= Len(us)
  BY <1>1, <1>2, <1>3
<1>6. \A i \in 1 .. k : DiskOf(us, i) = DiskOf(ts, i)
  BY <1>1, <1>3, <1>5, DiskOfPrefix
<1>7. ASSUME NEW e \in Nat, e <= m
      PROVE  UpTo(us, e) = UpTo(ts, e) /\ UpTo(ts, e) \in 1 .. k
  <2>1. UpTo(ts, e) <= k /\ UpTo(ts, e) \in 1 .. Len(ts)
    BY <1>7, <1>n, UpToMono, UpToIs DEF k
  <2>2. \A i \in k + 1 .. Len(us) : ~(us[i].pos <= e)
    BY <1>3, <1>5
  <2> QED
    BY <1>1, <1>3, <1>4, <1>5, <2>1, <2>2, UpToPrefix
<1>8. ASSUME NEW e \in Nat, e <= m
      PROVE  Disk(us, e) = Disk(ts, e)
  BY <1>6, <1>7, <1>8 DEF Disk
<1>9. us[k].pos = m
  <2>1. PICK i \in 1 .. Len(ts) : ts[i].pos = m
    BY <1>1 DEF Effect
  <2>2. i \in 1 .. k
    BY <1>1, <1>2, <1>n, <2>1
  <2>3. ts[i].pos <= ts[k].pos /\ ts[k].pos <= m
    BY <1>1, <1>2, <2>1, <2>2
  <2> QED
    BY <1>1, <1>2, <1>3, <1>n, <2>1, <2>3
<1>10. ASSUME NEW e \in {n, m}
       PROVE  /\ \E i \in DOMAIN us : us[i].pos = e
              /\ Shows(t, e, Disk(us, t.start), Disk(us, e))
  <2>1. e \in Nat /\ n <= e /\ e <= m /\ e \in B
    BY <1>n
  <2>2. \E i \in DOMAIN us : us[i].pos = e
    <3>1. PICK i \in 1 .. Len(ts) : ts[i].pos = e
      BY <1>1, <2>1 DEF Effect
    <3>2. i \in 1 .. k
      BY <1>1, <1>2, <2>1, <3>1
    <3> QED
      BY <1>3, <3>1, <3>2
  <2>3. Shows(s, n, Disk(ts, s.start), Disk(ts, n)) /\ Shows(s, e, Disk(ts, s.start), Disk(ts, e))
    BY <2>1 DEF Effect
  <2>4. \A p \in n .. e - 1 : Get(t, p) = Get(s, p)
    BY <1>n, <2>1
  <2>5. Shows(t, e, Disk(ts, n), Disk(ts, e))
    BY <1>n, <2>1, <2>3, <2>4, LaterStart
  <2> QED
    BY <1>8, <1>n, <2>1, <2>2, <2>5
<1>11. ASSUME NEW p \in t.start .. t.mutable - 1
       PROVE  Known(us, t, {n, m}, p)
  <2>1. p \in s.start .. s.mutable - 1 /\ p \in n .. m - 1 /\ p \in Nat /\ m > p
    BY <1>n
  <2>2. PICK i \in 1 .. Len(ts) :
          /\ Get(s, p).Block = DiskOf(ts, i)[Get(s, p).Addr]
          /\ ts[i].pos > p
          /\ \A e \in B : e > p => ts[i].pos <= e
    BY <1>1, <2>1 DEF Effect, Known
  <2>3. i \in 1 .. k
    BY <1>1, <1>2, <2>1, <2>2
  <2>4. i \in DOMAIN us /\ us[i] = ts[i] /\ DiskOf(us, i) = DiskOf(ts, i) /\ {n, m} \subseteq B
    BY <1>3, <1>6, <2>3
  <2> QED
    BY <2>1, <2>2, <2>4 DEF Known
<1>12. Effect(us, t, {n, m})
  <2>1. us[Len(us)].pos <= End(t)
    BY <1>3, <1>9, <1>n
  <2> QED
    BY <1>4, <1>10, <1>11, <2>1 DEF Effect, Good
<1>13. Ends(us, t, Latest(us))
  <2>1. UpTo(us, m) = k
    BY <1>7, <1>n DEF k
  <2>2. Disk(us, m) = Latest(us)
    BY <1>3, <2>1, DiskOfAll DEF Disk
  <2> QED
    BY <1>10, <2>2 DEF Ends
<1> QED
  BY <1>3, <1>4, <1>6, <1>7, <1>9, <1>12, <1>13 DEF us, k, Kept

(* A transaction more leaves what was between two cuts between them.         *)
LEMMA WithinAppend ==
  ASSUME NEW ts, Good(ts), NEW s, InOrder(s), NEW B, Cuts(s, B), Effect(ts, s, B),
         NEW x \in Txn, x.pos = End(s), End(s) \in B => x.upds = <<>>,
         NEW lo \in B, NEW hi \in B, lo <= hi, NEW a, NEW v, Within(ts, lo, hi, a, v)
  PROVE  Within(Append(ts, x), lo, hi, a, v)
<1> DEFINE us == Append(ts, x)
           k == Len(ts)
<1>1. /\ ts \in Seq(Txn) /\ k \in Nat /\ k >= 1
      /\ \A n \in 1 .. k : ts[n].pos \in Nat
      /\ ts[k].pos <= End(s) /\ \A n \in 1 .. k : ts[n].pos <= ts[k].pos
  BY GoodFacts DEF Effect
<1>2. Len(us) = k + 1 /\ us[k + 1] = x /\ \A i \in 1 .. k : us[i] = ts[i]
  BY <1>1, AppendProperties
<1>3. us \in Seq(Txn) /\ Good(us) /\ \A e \in B : Disk(us, e) = Disk(ts, e)
  BY <1>1, EffectAppend
<1>n. lo \in Nat /\ hi \in Nat /\ End(s) \in Nat
  BY LogFacts DEF Cuts, InOrder
<1> HIDE DEF us, k
<1>4. PICK l \in 1 .. k : l = UpTo(ts, lo) /\ \A m \in 1 .. k : ts[m].pos <= lo <=> m <= l
  BY <1>n, UpToIs DEF k
<1>5. PICK h \in 1 .. k : h = UpTo(ts, hi) /\ \A m \in 1 .. k : ts[m].pos <= hi <=> m <= h
  BY <1>n, UpToIs DEF k
<1>6. PICK ll \in 1 .. k + 1 : ll = UpTo(us, lo) /\ \A m \in 1 .. k + 1 : us[m].pos <= lo <=> m <= ll
  BY <1>2, <1>3, <1>n, UpToIs
<1>7. PICK hh \in 1 .. k + 1 : hh = UpTo(us, hi) /\ \A m \in 1 .. k + 1 : us[m].pos <= hi <=> m <= hh
  BY <1>2, <1>3, <1>n, UpToIs
<1>8. PICK n \in l .. h : v = DiskOf(ts, n)[a]
  BY <1>4, <1>5 DEF Within
<1>9. n \in Nat /\ n \in 1 .. k /\ n \in 1 .. k + 1
  BY <1>1, <1>4, <1>5, <1>8
<1>10. h <= hh
  <2>0. ts[h].pos <= hi /\ us[h] = ts[h]
    BY <1>2, <1>5
  <2>1. h \in 1 .. k + 1 /\ us[h].pos <= hi
    BY <1>1, <2>0
  <2> QED
    BY <1>7, <2>1
<1>11. CASE ll <= n
  <2>1. n \in ll .. hh
    BY <1>1, <1>5, <1>6, <1>7, <1>8, <1>9, <1>10, <1>11
  <2>2. DiskOf(us, n) = DiskOf(ts, n)
    <3>1. k <= Len(us) /\ k <= Len(ts)
      BY <1>1, <1>2 DEF k
    <3> QED
      BY <1>1, <1>2, <1>3, <1>9, <3>1, DiskOfPrefix
  <2>3. \E m \in ll .. hh : v = DiskOf(us, m)[a]
    BY <1>8, <2>1, <2>2
  <2> QED
    BY <1>6, <1>7, <2>3 DEF Within, us
<1>12. CASE ~(ll <= n)
  <2>1. ll = k + 1
    <3> SUFFICES ASSUME ll # k + 1 PROVE FALSE
      OBVIOUS
    <3>1. ll \in 1 .. k
      BY <1>1, <1>6
    <3>2. ts[ll].pos <= lo
      BY <1>2, <1>6, <3>1
    <3>3. ll <= l
      BY <1>4, <3>1, <3>2
    <3> QED
      BY <1>1, <1>4, <1>5, <1>8, <1>9, <1>12, <3>1, <3>3
  <2>2. l = k
    <3>1. End(s) <= lo
      BY <1>1, <1>2, <1>6, <2>1
    <3>2. k \in 1 .. k /\ ts[k].pos <= lo
      BY <1>1, <1>n, <3>1
    <3>3. k <= l
      BY <1>4, <3>2
    <3> QED
      BY <1>1, <1>4, <3>3
  <2>3. n = l
    BY <1>1, <1>5, <1>8, <1>9, <2>2
  <2>4. v = Disk(us, lo)[a]
    BY <1>3, <1>4, <1>8, <2>3 DEF Disk
  <2>5. v = DiskOf(us, ll)[a]
    BY <1>6, <2>4 DEF Disk
  <2>6. ll <= hh
    <3>1. us[ll].pos <= lo
      BY <1>6
    <3>2. us[ll].pos \in Nat
      BY <1>2, <1>3, <1>6, GoodFacts
    <3>3. us[ll].pos <= hi
      BY <1>n, <3>1, <3>2
    <3> QED
      BY <1>6, <1>7, <3>3
  <2>7. ll \in ll .. hh
    BY <1>6, <1>7, <2>6
  <2>8. \E m \in ll .. hh : v = DiskOf(us, m)[a]
    BY <2>5, <2>7
  <2> QED
    BY <1>6, <1>7, <2>8 DEF Within, us
<1> QED
  BY <1>11, <1>12

(* Nor does a higher upper bound, or a lower bound that is as good.          *)
LEMMA WithinMore ==
  ASSUME NEW ts, Good(ts), NEW lo \in Nat, NEW hi \in Nat, NEW more \in Nat, hi <= more, lo <= hi,
         NEW a, NEW v
  PROVE  /\ Within(ts, lo, hi, a, v) => Within(ts, lo, more, a, v)
         /\ v = Disk(ts, lo)[a] => Within(ts, lo, hi, a, v)
<1>1. PICK l \in 1 .. Len(ts) : l = UpTo(ts, lo)
  BY UpToIs
<1>2. PICK h \in 1 .. Len(ts) : h = UpTo(ts, hi)
  BY UpToIs
<1>3. PICK m \in 1 .. Len(ts) : m = UpTo(ts, more)
  BY UpToIs
<1>4. l <= h /\ h <= m
  BY <1>1, <1>2, <1>3, UpToMono
<1>5. l \in l .. h /\ \A n \in l .. h : n \in l .. m
  BY <1>4, GoodFacts
<1> QED
  BY <1>1, <1>2, <1>3, <1>5 DEF Within, Disk
=============================================================================
