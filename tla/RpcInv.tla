-------------------------------- MODULE RpcInv -------------------------------
(* The inductive invariant of Rpc.  What it says of a connection or a thread *)
(* is an operator of the records themselves, so that a step is a lemma about *)
(* the records before and after it.                                          *)
EXTENDS Rpc, Functions

MessageAt(n) == [no |-> n, xid |-> n % XidMod, frags |-> Sizes[n][1], back |-> Sizes[n][2]]
Messages == {MessageAt(n) : n \in 1..Len(Sizes)}
Pieces   == [msg : Messages, part : Nat \ {0}, half : {1, 2}]
Queued   == [msg : Messages, part : Nat \ {0}]
Entries  == [msg : Messages, rdata : Messages \union {None}, on : Nat \ {0}]
Answers  == [call : Messages, reply : Messages]
Asking   == [by : Threads, sent : Nat, cut : BOOLEAN]

ThreadStates ==
  [pc : {"idle", "send", "retry", "resend", "add", "listen", "relisten"},
   msg : Messages \union {None}, part : Nat, want : Int, got : Seq(Pieces),
   sock : Nat, ended : {"none", "error", "timeout", "inuse", "returned", "garbled", "stray"},
   answer : Answers \union {None}]

Connections ==
  [by : Threads, open : BOOLEAN, broken : BOOLEAN, fd : {"new", "open", "gone"},
   up : Seq(Pieces), down : Seq(Pieces), readbuf : Seq(Pieces), packetbuf : Seq(Pieces),
   recordbuf : Seq(Queued), writebuf : Seq(Pieces), mask : {"read", "both"},
   cut : BOOLEAN, torn : BOOLEAN]

List(X) == DOMAIN X \subseteq Nat /\ \A x \in DOMAIN X : X[x] \in Entries

TypeInv ==
  /\ xid \in Nat /\ lockLost \in BOOLEAN /\ alive \in BOOLEAN /\ faults \in Nat
  /\ th \in [Threads -> ThreadStates]
  /\ xidlist = [t \in Threads |-> xidlist[t]] /\ \A t \in Threads : List(xidlist[t])
  /\ conn \in Seq(Connections)
  /\ calls \in Seq(Asking) /\ Len(calls) <= Len(Sizes)
  /\ ran \in Seq(Nat) /\ Len(ran) = Len(calls)

-----------------------------------------------------------------------------
(* What a connection and a thread hold of the two streams.  C is the set of  *)
(* calls whose sending was cut: what is answered of those, and what is kept  *)
(* under their xids, is right only on the connections without a cut.         *)

CutBy(t) == {n \in DOMAIN calls : calls[n].by = t /\ calls[n].cut}
Cuts(r, C) == IF r.cut THEN C ELSE {}
CutOn(r) == Cuts(r, CutBy(r.by))
Xids(C)  == {n % XidMod : n \in C}

\* the requests under way, and those of which the server has a part
Asked(r) == (r.packetbuf \o r.readbuf) \o r.up
\* the replies under way, and those of which the client has a part
Told(T, r) == (T.got \o r.down) \o r.writebuf

\* the pieces of a message come in order, each of them once
InOrder(s) == \A i, j \in 1..Len(s) : i < j /\ s[i].msg = s[j].msg => Place(s[i]) < Place(s[j])

Asks(r, n) == \* of n calls made
  /\ InOrder(Asked(r))
  /\ \A y \in Range(Asked(r)) : y.part <= y.msg.frags /\ y.msg.no <= n

\* a call is known to a thread that has it on its list, or is about to
Known(T, X, lost, m) ==
  \/ m.xid \in DOMAIN X /\ X[m.xid].msg = m
  \/ T.pc = "add" /\ T.msg = m
  \/ T.pc = "idle" /\ lost

Answered(T, r, m) ==
  \/ \E y \in Range(Told(T, r)) : y.msg = m
  \/ \E i \in 1..Len(r.recordbuf) : r.recordbuf[i].msg = m

\* of the calls a connection carries
Knows(T, X, lost, m, C) == m.xid \in Xids(C) \/ Known(T, X, lost, m)
AllKnown(T, X, lost, r, C) ==
  /\ \A y \in Range(Asked(r)) : Ends(y, y.msg.frags) => Knows(T, X, lost, y.msg, C)
  /\ \A y \in Range(Told(T, r)) : Knows(T, X, lost, y.msg, C)
  /\ \A i \in 1..Len(r.recordbuf) : Knows(T, X, lost, r.recordbuf[i].msg, C)

\* what is answered is asked no more
AskedOrAnswered(T, r, C) ==
  \A y \in Range(Asked(r)) : Place(y) = 1 \/ y.msg.no \notin C => ~Answered(T, r, y.msg)

\* the replies, written and not
Tells(T, r) ==
  /\ InOrder(Told(T, r))
  /\ \A y \in Range(Told(T, r)) : y.part <= y.msg.back
  /\ \A i \in 1..Len(r.recordbuf) : r.recordbuf[i].part <= r.recordbuf[i].msg.back
  /\ \A i, j \in 1..Len(r.recordbuf) : i # j => r.recordbuf[i].msg # r.recordbuf[j].msg
  /\ \A y \in Range(Told(T, r)) : \A i \in 1..Len(r.recordbuf) :
       y.msg = r.recordbuf[i].msg => y.part < r.recordbuf[i].part

\* what is being sent has not been sent here
IsSending(T) == T.pc \in {"send", "retry", "resend"}
SentSoFar(T, r) ==
  IsSending(T) =>
    /\ \A y \in Range(Asked(r)) : y.msg = T.msg => y.part < T.part
    /\ ~Answered(T, r, T.msg)

\* an answer kept on the list was the only one
KeptOnce(T, X, r, C) ==
  \A x \in DOMAIN X : X[x].rdata # None /\ x \notin Xids(C) =>
    /\ \A y \in Range(Asked(r)) : y.msg = X[x].msg => ~Ends(y, y.msg.frags)
    /\ ~Answered(T, r, X[x].msg)

\* nothing is under way of a call not yet made
Made(T, r, n) == \A m \in Messages : Answered(T, r, m) => m.no <= n

Link(T, X, lost, r, n, C) ==
  /\ AllKnown(T, X, lost, r, C)
  /\ AskedOrAnswered(T, r, C)
  /\ Tells(T, r)
  /\ SentSoFar(T, r)
  /\ KeptOnce(T, X, r, C)
  /\ Made(T, r, n)

-----------------------------------------------------------------------------
(* Where a thread is in its program.                                         *)

Client(T, X, n, k, C) ==  \* n calls, k connections
  /\ T.sock <= k
  /\ T.pc \notin {"idle", "listen"} => T.msg \in Messages /\ T.msg.no \in (1..n) \ C
  /\ IsSending(T) => T.part \in 1..T.msg.frags
  /\ T.pc \in {"add", "relisten"} => T.sock # NoSocket
  /\ T.pc \in {"listen", "resend", "relisten"} =>
       T.want \in DOMAIN X /\ X[T.want].rdata = None
  /\ T.pc \in {"resend", "relisten"} => X[T.want].msg = T.msg
  /\ T.pc \in {"send", "retry", "add"} => \A x \in DOMAIN X : X[x].msg # T.msg
  /\ T.pc \notin {"listen", "relisten"} => T.got = <<>>
  /\ \A x \in DOMAIN X :
       /\ X[x].msg.xid = x /\ X[x].msg.no \in (1..n) \ C
       /\ X[x].rdata # None => X[x].rdata.xid = x /\ (x \notin Xids(C) => X[x].rdata = X[x].msg)
       /\ X[x].on <= k

Linked(T, X, lost, cs, n, C) ==
  T.sock # NoSocket /\ ~cs[T.sock].broken =>
    Link(T, X, lost, cs[T.sock], n, Cuts(cs[T.sock], C))

Owned(T, t, cs) == T.sock # NoSocket => cs[T.sock].by = t

Caller(T, t, cs) == T.pc = "send" => cs[T.msg.no].by = t

\* of calls with one xid, the right one is answered unless one was cut
Fits(a, C) == a.reply.xid = a.call.xid /\ (a.call.xid \notin Xids(C) => a.call = a.reply)

\* what listen came to
Outcome(T, cs, C) ==
  /\ T.ended = "stray" => T.pc = "idle" /\ T.sock # NoSocket /\ cs[T.sock].cut
  /\ T.answer # None => Fits(T.answer, C)

SafeInv ==
  /\ TypeInv
  /\ xid = Len(calls) % XidMod
  /\ \A c \in 1..Len(conn) : ~conn[c].broken => Asks(conn[c], Len(calls))
  /\ \A t \in Threads : Owned(th[t], t, conn)
  /\ \A t \in Threads : Caller(th[t], t, calls)
  /\ \A t \in Threads : Client(th[t], xidlist[t], Len(calls), Len(conn), CutBy(t))
  /\ \A t \in Threads : Linked(th[t], xidlist[t], lockLost, conn, Len(calls), CutBy(t))
  /\ \A t \in Threads : Outcome(th[t], conn, CutBy(t))

-----------------------------------------------------------------------------
(* How often a call was sent and not yet run.                                *)

\* the connections that carry all of a call, or of one whose sending was cut the
\* beginning: the server may still run it from there
CarriedOn(cs, a, n) ==
  {c \in 1..Len(cs) : ~cs[c].broken /\ \E y \in Range(Asked(cs[c])) :
     y.msg.no = n /\ IF a.cut THEN Place(y) = 1 ELSE Ends(y, y.msg.frags)}
Due(a) == a.sent + (IF a.cut THEN 1 ELSE 0)
RanInv ==
  \A n \in 1..Len(calls) : ran[n] + Cardinality(CarriedOn(conn, calls[n], n)) <= Due(calls[n])

\* a thread has no business with another's call
Held(T, X) ==
  {X[x].msg : x \in DOMAIN X} \union (IF T.pc \in {"idle", "listen"} THEN {} ELSE {T.msg})
HeldInv == \A t \in Threads : \A m \in Held(th[t], xidlist[t]) : calls[m.no].by = t

\* what is sent first is on one connection
AloneInv ==
  \A t \in Threads : th[t].pc = "send" =>
    \A c \in 1..Len(conn) : c # th[t].sock /\ ~conn[c].broken =>
      \A y \in Range(Asked(conn[c])) : y.msg # th[t].msg

RunInv == RanInv /\ HeldInv /\ AloneInv

-----------------------------------------------------------------------------
(* The stream of requests of a connection.  C is the set of calls that may be*)
(* on it and whose sending was cut.                                          *)

\* the piece that comes after x
After(x, y, n) == IF Ends(x, n) THEN Place(y) = 1 ELSE y.msg = x.msg /\ Place(y) = Place(x) + 1

\* the beginning of a record of fragments that are whole
Clean(p) ==
  /\ \A i \in 1..Len(p) : p[i].msg = p[1].msg /\ Place(p[i]) = i /\ ~Ends(p[i], p[i].msg.frags)
  /\ p # <<>> => p[Len(p)].half = 2

AsksWhole(r, C) ==
  LET s == Asked(r)
      p == r.packetbuf
  IN  /\ \A i \in 1..(Len(s) - 1) : s[i].msg.no \notin C => After(s[i], s[i + 1], s[i].msg.frags)
      /\ p # <<>> /\ Place(p[1]) = 1 /\ p[1].msg.no \notin C => Clean(p)
      /\ ~r.cut /\ s # <<>> => Place(s[1]) = 1

\* what is sent next comes after what was sent last
NextAsked(T, r, C) ==
  LET s == Asked(r)
  IN  /\ s # <<>> => IF IsSending(T) /\ T.part > 1
                     THEN s[Len(s)].msg = T.msg /\ s[Len(s)].part = T.part - 1 /\ s[Len(s)].half = 2
                     ELSE s[Len(s)].msg.no \notin C => Ends(s[Len(s)], s[Len(s)].msg.frags)
      /\ ~r.cut /\ IsSending(T) /\ T.part > 1 => s # <<>>

StreamInv ==
  /\ \A c \in 1..Len(conn) : ~conn[c].broken => AsksWhole(conn[c], CutOn(conn[c]))
  /\ \A t \in Threads : th[t].sock # NoSocket /\ ~conn[th[t].sock].broken =>
       NextAsked(th[t], conn[th[t].sock], CutOn(conn[th[t].sock]))

-----------------------------------------------------------------------------
(* The stream of replies of a connection on which no receive timed out.      *)

TellsWhole(T, r) ==
  LET s == Told(T, r)
      q == r.recordbuf
  IN  /\ \A i \in 1..Len(T.got) :
           T.got[i].msg = T.got[1].msg /\ Place(T.got[i]) = i /\ ~Ends(T.got[i], T.got[i].msg.back)
      /\ s # <<>> => Place(s[1]) = 1
      /\ \A i \in 1..(Len(s) - 1) : After(s[i], s[i + 1], s[i].msg.back)
      /\ \A i \in 2..Len(q) : q[i].part = 1
      /\ IF q # <<>> /\ q[1].part > 1
         THEN s # <<>> /\ s[Len(s)].msg = q[1].msg /\ s[Len(s)].part = q[1].part - 1 /\ s[Len(s)].half = 2
         ELSE s # <<>> => Ends(s[Len(s)], s[Len(s)].msg.back)

ReplyInv ==
  \A t \in Threads : Usable(t) /\ ~Sock(t).torn => TellsWhole(th[t], Sock(t))

-----------------------------------------------------------------------------
(* Where an outstanding call is.                                             *)

Somewhere(T, r, m) ==
  \/ \E y \in Range(r.readbuf \o r.up) : y.msg = m /\ Ends(y, m.frags)
  \/ \E i \in 1..Len(r.recordbuf) : r.recordbuf[i].msg = m
  \/ \E y \in Range(r.down \o r.writebuf) : y.msg = m /\ Ends(y, m.back)

Undisturbed(r) == r.open /\ ~r.broken /\ r.fd # "gone" /\ ~r.cut /\ ~r.torn
PlaceInv ==
  \A t \in Threads : th[t].sock # NoSocket /\ Undisturbed(Sock(t)) /\ alive =>
    /\ th[t].pc = "add" => Somewhere(th[t], Sock(t), th[t].msg)
    /\ \A x \in DOMAIN xidlist[t] :
         xidlist[t][x].on = th[t].sock /\ xidlist[t][x].rdata = None =>
           Somewhere(th[t], Sock(t), xidlist[t][x].msg)
=============================================================================
