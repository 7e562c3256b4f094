-------------------------------- MODULE Xdr --------------------------------
(* The wire format of the Python RPC library: what xdrlib, the external      *)
(* library every generated packer and unpacker derives from, does for each   *)
(* shape of type those classes are built from.                               *)
(*                                                                           *)
(* A packer class is a table T from the name of a type to its shape, and     *)
(* Pack(T, t, v) the bytes its method pack_t(v) leaves in the buffer.  An    *)
(* unpacker class is a table as well, and Unpack(T, t, buf, pos) what its    *)
(* method unpack_t() returns from position pos.  Structures are records, a   *)
(* union is a record of its discriminant and of the field of the selected    *)
(* arm, and 64-bit integers are pairs of words.  Integers stay below 2^31    *)
(* and payload bytes below 128, so that every word fits TLC's integers.      *)
EXTENDS Integers, Sequences, SequencesExt, TLC

Unlimited == 2147483647

Word             == [shape |-> "word"]
Hyper            == [shape |-> "hyper"]
Bool             == [shape |-> "bool"]
Alias(t)         == [shape |-> "alias", of |-> t]
Enum(values)     == [shape |-> "enum", values |-> values]
Fopaque(size)    == [shape |-> "fopaque", size |-> size]
Opaque(max)      == [shape |-> "opaque", max |-> max]
String(max)      == Opaque(max)
Array(max, t)    == [shape |-> "array", max |-> max, of |-> t]
Struct(fields)   == [shape |-> "struct", fields |-> fields]

\* arms maps a value of the discriminant to the field and type it selects
Union(disc, t, arms, default) ==
  [shape |-> "union", disc |-> disc, of |-> t, arms |-> arms, default |-> default]
Void             == <<>>
BadSwitch        == <<"bad switch">>

Arm(g, d) == IF d \in DOMAIN g.arms THEN g.arms[d] ELSE g.default

Done(x)   == [ok |-> TRUE, val |-> x]
Raise(e)  == [ok |-> FALSE, exc |-> e]

Padded(n) == ((n + 3) \div 4) * 4
Zeros(n)  == [i \in 1..n |-> 0]
Bytes4(n) == << n \div 16777216, (n \div 65536) % 256, (n \div 256) % 256, n % 256 >>

\* pack_fstring: n bytes of s, then zeros up to a multiple of four
Fixed(n, s) ==
  LET data == SubSeq(s, 1, IF n < Len(s) THEN n ELSE Len(s))
  IN  data \o Zeros(Padded(n) - Len(data))

-----------------------------------------------------------------------------
RECURSIVE Pack(_, _, _), PackAll(_, _)

Pack(T, t, v) ==
  IF t \notin DOMAIN T THEN Raise("AttributeError")
  ELSE LET g == T[t] IN
    CASE g.shape = "word"    -> Done(Bytes4(v))
      [] g.shape = "hyper"   -> Done(Bytes4(v[1]) \o Bytes4(v[2]))
      [] g.shape = "bool"    -> Done(Bytes4(IF v THEN 1 ELSE 0))
      [] g.shape = "alias"   -> Pack(T, g.of, v)
      [] g.shape = "enum"    -> IF v \in g.values THEN Done(Bytes4(v)) ELSE Raise("XDRError")
      [] g.shape = "fopaque" -> Done(Fixed(g.size, v))
      [] g.shape = "opaque"  -> IF Len(v) > g.max THEN Raise("XDRError")
                                ELSE Done(Bytes4(Len(v)) \o Fixed(Len(v), v))
      [] g.shape = "array"   -> IF Len(v) > g.max THEN Raise("XDRError")
                                ELSE LET r == PackAll(T, [i \in DOMAIN v |-> <<g.of, v[i]>>])
                                     IN  IF r.ok THEN Done(Bytes4(Len(v)) \o r.val) ELSE r
      [] g.shape = "struct"  ->
           PackAll(T, [i \in DOMAIN g.fields |-> <<g.fields[i][2], v[g.fields[i][1]]>>])
      [] g.shape = "union"   ->
           LET arm == Arm(g, v[g.disc])
           IN  CASE arm = Void      -> Pack(T, g.of, v[g.disc])
                 [] arm = BadSwitch -> Raise("XDRError")
                 [] OTHER -> PackAll(T, << <<g.of, v[g.disc]>>, <<arm[2], v[arm[1]]>> >>)

\* the fields of a structure or the elements of an array, in their order
PackAll(T, typed) ==
  IF typed = <<>> THEN Done(<<>>)
  ELSE LET first == Pack(T, Head(typed)[1], Head(typed)[2])
           rest  == PackAll(T, Tail(typed))
       IN  CASE ~first.ok -> first
             [] ~rest.ok  -> rest
             [] OTHER     -> Done(first.val \o rest.val)

-----------------------------------------------------------------------------
Got(x, pos) == [ok |-> TRUE, val |-> x, pos |-> pos]

WordAt(buf, pos) ==
  ((buf[pos + 1] * 256 + buf[pos + 2]) * 256 + buf[pos + 3]) * 256 + buf[pos + 4]

\* unpack_uint and unpack_int
UnpackWord(buf, pos) ==
  IF pos + 4 > Len(buf) THEN Raise("EOFError") ELSE Got(WordAt(buf, pos), pos + 4)

\* unpack_fstring: n bytes, and the zeros after them are skipped unread
UnpackFixed(n, buf, pos) ==
  IF n > Len(buf) \/ pos + Padded(n) > Len(buf) THEN Raise("EOFError")
  ELSE Got(SubSeq(buf, pos + 1, pos + n), pos + Padded(n))

RECURSIVE Unpack(_, _, _, _), UnpackAll(_, _, _, _)

Unpack(T, t, buf, pos) ==
  IF t \notin DOMAIN T THEN Raise("AttributeError")
  ELSE LET g == T[t]
           w == UnpackWord(buf, pos) IN
    CASE g.shape = "word"    -> w
      [] g.shape = "hyper"   -> LET r == UnpackAll(T, <<"uint", "uint">>, buf, pos)
                                IN  IF r.ok THEN Got(<<r.val[1], r.val[2]>>, r.pos) ELSE r
      [] g.shape = "bool"    -> IF w.ok THEN Got(w.val # 0, w.pos) ELSE w
      [] g.shape = "alias"   -> Unpack(T, g.of, buf, pos)
      [] g.shape = "enum"    -> IF w.ok /\ w.val \notin g.values THEN Raise("XDRError") ELSE w
      [] g.shape = "fopaque" -> UnpackFixed(g.size, buf, pos)
      [] g.shape = "opaque"  -> IF ~w.ok THEN w
                                ELSE LET r == UnpackFixed(w.val, buf, w.pos)
                                     IN  IF r.ok /\ Len(r.val) > g.max THEN Raise("XDRError")
                                         ELSE r
      [] g.shape = "array"   ->       \* every element takes at least one byte
           IF ~w.ok THEN w
           ELSE IF w.val > Len(buf) THEN Raise("EOFError")
           ELSE LET r == UnpackAll(T, [i \in 1..w.val |-> g.of], buf, w.pos)
                IN  IF r.ok /\ w.val > g.max THEN Raise("XDRError") ELSE r
      [] g.shape = "struct"  ->
           LET fs == g.fields
               r  == UnpackAll(T, [i \in DOMAIN fs |-> fs[i][2]], buf, pos)
           IN  IF ~r.ok THEN r
               ELSE Got([f \in {fs[i][1] : i \in DOMAIN fs} |->
                           r.val[CHOOSE i \in DOMAIN fs : fs[i][1] = f]], r.pos)
      [] g.shape = "union"   ->
           LET d   == Unpack(T, g.of, buf, pos)
               arm == Arm(g, d.val)
               r   == Unpack(T, arm[2], buf, d.pos)
           IN  CASE ~d.ok           -> d
                 [] arm = Void      -> Got(g.disc :> d.val, d.pos)
                 [] arm = BadSwitch -> Raise("XDRError")
                 [] ~r.ok           -> r
                 [] OTHER           -> Got((g.disc :> d.val) @@ (arm[1] :> r.val), r.pos)

UnpackAll(T, types, buf, pos) ==
  IF types = <<>> THEN Got(<<>>, pos)
  ELSE LET first == Unpack(T, Head(types), buf, pos)
           rest  == UnpackAll(T, Tail(types), buf, first.pos)
       IN  CASE ~first.ok -> first
             [] ~rest.ok  -> rest
             [] OTHER     -> Got(<<first.val>> \o rest.val, rest.pos)

\* unpack_t() on a buffer of its own, followed by done()
UnpackDone(T, t, buf) ==
  LET r == Unpack(T, t, buf, 0)
  IN  IF r.ok /\ r.pos < Len(buf) THEN Raise("XDRError") ELSE r
=============================================================================
