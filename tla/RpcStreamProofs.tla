---------------------------- MODULE RpcStreamProofs ---------------------------
(* Theorems about the RPC client and server.  SafeInv, of what each side     *)
(* knows of the calls under way, and StreamInv, of the two streams of a      *)
(* connection, are kept together: what a cut fragment does to the calls      *)
(* shows only where the stream goes out of step.  From them: an answer is    *)
(* that of its call, no reply is stray and no call runs more often than it   *)
(* was sent, but for what a cut call explains; the server's loop ends only   *)
(* over the errors it does not catch, a reply's fragments are not mixed with *)
(* those of another, and an outstanding call is in one place.                *)
EXTENDS RpcProofs

-----------------------------------------------------------------------------
(* What a client's step leaves of the connections.                           *)

\* the requests and the server's end are as they were, and no flag is taken back
Kept(r, r2) ==
  /\ r2.by = r.by /\ r2.broken = r.broken /\ r2.fd = r.fd /\ r2.mask = r.mask
  /\ r2.up = r.up /\ r2.readbuf = r.readbuf /\ r2.packetbuf = r.packetbuf
  /\ r2.recordbuf = r.recordbuf /\ r2.writebuf = r.writebuf /\ r2.cut = r.cut
  /\ (r2.open => r.open) /\ (r.torn => r2.torn)

\* of every connection, by a step of t that may have made one more
CarriesOn(t) ==
  /\ Len(conn') = Len(conn) \/ Len(conn') = Len(conn) + 1
  /\ \A c \in 1..Len(conn) : Kept(conn[c], conn'[c]) /\ (c # th[t].sock => conn'[c] = conn[c])
  /\ \A c \in 1..Len(conn') : c \notin 1..Len(conn) => conn'[c] = Connection(t)

\* a thread that has reconnected, if anyone listened
Moved(t) ==
  /\ th'[t].sock \in {NoSocket, Len(conn) + 1} /\ xidlist'[t] = xidlist[t]
  /\ th'[t].got = <<>> /\ th'[t].pc \in {"idle", "retry", "resend"}
  /\ th'[t].pc # "idle" => th'[t].part = 1 /\ th'[t].msg \in Held(th[t], xidlist[t])

(* What changes no field but these keeps a connection.                       *)
LEMMA KeptFlags ==
  ASSUME NEW r \in Connections, NEW d \in Seq(Pieces)
  PROVE  /\ Kept(r, r) /\ Kept(r, [r EXCEPT !.open = FALSE])
         /\ Kept(r, [r EXCEPT !.torn = TRUE]) /\ Kept(r, [r EXCEPT !.down = d])
BY DEF Kept, Connections

(* Nothing changed, or one connection.                                       *)
LEMMA CarriesOnSame ==
  ASSUME SafeInv, NEW t \in Threads, conn' = conn
  PROVE  CarriesOn(t)
<1>1. \A c \in 1..Len(conn) : Kept(conn[c], conn[c])
  BY StateFacts DEF Kept
<1> QED BY <1>1 DEF CarriesOn

(* One connection changed, which is kept.                                    *)
LEMMA CarriesOnOne ==
  ASSUME SafeInv, NEW t \in Threads, th[t].sock # NoSocket, NEW r2 \in Connections,
         conn' = [conn EXCEPT ![th[t].sock] = r2], Kept(conn[th[t].sock], r2)
  PROVE  CarriesOn(t) /\ Len(conn') = Len(conn) /\ conn'[th[t].sock] = r2
<1>1. conn \in Seq(Connections) /\ th[t].sock \in 1..Len(conn)
  BY StateFacts, ThreadFacts
<1>2. /\ Len(conn') = Len(conn) /\ conn'[th[t].sock] = r2
      /\ \A k \in 1..Len(conn) : k # th[t].sock => conn'[k] = conn[k]
  BY <1>1, ExceptSeq
<1>3. \A c \in 1..Len(conn) : Kept(conn[c], conn[c])
  BY StateFacts DEF Kept
<1> QED BY <1>2, <1>3 DEF CarriesOn

(* The old socket is closed.                                                 *)
LEMMA ClosedKept ==
  ASSUME SafeInv, NEW t \in Threads
  PROVE  /\ Closed(t) \in Seq(Connections) /\ Len(Closed(t)) = Len(conn)
         /\ \A c \in 1..Len(conn) : /\ Kept(conn[c], Closed(t)[c])
                                    /\ c # th[t].sock => Closed(t)[c] = conn[c]
<1>1. /\ Closed(t) \in Seq(Connections) /\ Len(Closed(t)) = Len(conn)
      /\ \A c \in 1..Len(conn) : c # th[t].sock => Closed(t)[c] = conn[c]
  BY ClosedConnections
<1>2. \A c \in 1..Len(conn) : Kept(conn[c], conn[c]) /\ Kept(conn[c], [conn[c] EXCEPT !.open = FALSE])
  <2>1. PICK e \in Seq(Pieces) : TRUE
    BY EmptySeq
  <2> QED BY <2>1, StateFacts, KeptFlags
<1>3. CASE th[t].sock = NoSocket
  <2>1. Closed(t) = conn
    BY <1>3 DEF Closed
  <2> QED BY <2>1, <1>1, <1>2
<1>4. CASE th[t].sock # NoSocket
  <2>1. th[t].sock \in 1..Len(conn) /\ DOMAIN conn = 1..Len(conn)
    BY <1>4, StateFacts, ThreadFacts
  <2>2. Closed(t)[th[t].sock] = [conn[th[t].sock] EXCEPT !.open = FALSE]
    BY <1>4, <2>1 DEF Closed
  <2> QED BY <1>1, <1>2, <2>1, <2>2
<1> QED BY <1>3, <1>4

(* reconnect leaves every connection there was, but for its flag.            *)
LEMMA ReconnectCarriesOn ==
  ASSUME SafeInv, NEW t \in Threads, NEW r \in ThreadStates, Reconnect(t, r), r.got = <<>>,
         r.pc \in {"idle", "retry", "resend"}, UNCHANGED xidlist,
         r.pc # "idle" => r.part = 1 /\ r.msg \in Held(th[t], xidlist[t])
  PROVE  CarriesOn(t) /\ Moved(t) /\ \A u \in Threads : u # t => th'[u] = th[u]
<1>1. /\ Closed(t) \in Seq(Connections) /\ Len(Closed(t)) = Len(conn) /\ Len(conn) \in Nat
      /\ \A c \in 1..Len(conn) : /\ Kept(conn[c], Closed(t)[c])
                                 /\ c # th[t].sock => Closed(t)[c] = conn[c]
  BY ClosedKept, StateFacts
<1>2. DOMAIN th = Threads /\ th[t] \in ThreadStates
  BY StateFacts, ThreadFacts
<1>3. CASE alive
  <2> DEFINE T2 == [r EXCEPT !.sock = Len(conn) + 1]
  <2>1. conn' = Append(Closed(t), Connection(t)) /\ th' = [th EXCEPT ![t] = T2]
    BY <1>3 DEF Reconnect, Become
  <2>2. /\ T2.sock = Len(conn) + 1 /\ T2.got = <<>> /\ T2.pc = r.pc /\ T2.part = r.part
        /\ T2.msg = r.msg
    BY DEF ThreadStates
  <2> HIDE DEF T2
  <2>3. th'[t] = T2 /\ \A u \in Threads : u # t => th'[u] = th[u]
    BY <2>1, <1>2
  <2>4. Connection(t) \in Connections
    BY NewConnection
  <2>5. /\ Len(conn') = Len(conn) + 1 /\ conn'[Len(conn) + 1] = Connection(t)
        /\ \A c \in 1..Len(conn) : conn'[c] = Closed(t)[c]
    BY <2>1, <2>4, <1>1, AppendProperties
  <2>6. \A c \in 1..Len(conn') : c \notin 1..Len(conn) => c = Len(conn) + 1
    BY <2>5, <1>1
  <2>7. CarriesOn(t)
    BY <1>1, <2>5, <2>6 DEF CarriesOn
  <2>8. Moved(t)
    BY <2>2, <2>3 DEF Moved
  <2> QED BY <2>3, <2>7, <2>8
<1>4. CASE ~alive
  <2> DEFINE T2 == [Idle(th[t]) EXCEPT !.sock = NoSocket, !.ended = "error"]
  <2>1. conn' = Closed(t) /\ th' = [th EXCEPT ![t] = T2]
    BY <1>4 DEF Reconnect, Become
  <2>2. T2.sock = NoSocket /\ T2.got = <<>> /\ T2.pc = "idle"
    BY <1>2 DEF Idle, ThreadStates
  <2> HIDE DEF T2
  <2>3. th'[t] = T2 /\ \A u \in Threads : u # t => th'[u] = th[u]
    BY <2>1, <1>2
  <2>4. CarriesOn(t)
    BY <1>1, <2>1 DEF CarriesOn
  <2>5. Moved(t)
    BY <2>2, <2>3 DEF Moved
  <2> QED BY <2>3, <2>4, <2>5
<1> QED BY <1>3, <1>4

(* And so does raising after it.                                             *)
LEMMA RaiseCarriesOn ==
  ASSUME SafeInv, NEW t \in Threads, NEW e \in {"error", "timeout"}, ReconnectAndRaise(t, e),
         UNCHANGED xidlist
  PROVE  CarriesOn(t) /\ Moved(t) /\ \A u \in Threads : u # t => th'[u] = th[u]
<1> DEFINE T == th[t]
           T2 == Leaving(T, e)
<1>1. Reconnect(t, T2)
  BY DEF ReconnectAndRaise
<1>2. T \in ThreadStates
  BY ThreadFacts
<1>3. T2 \in ThreadStates /\ T2.pc = "idle" /\ T2.got = <<>>
  <2>1. e \in {"none", "error", "timeout", "inuse", "returned", "garbled", "stray"}
    OBVIOUS
  <2> QED BY ONLY <2>1, <1>2, Left
<1> HIDE DEF T2
<1> QED BY <1>1, <1>3, ReconnectCarriesOn

\* what a client's step does besides
ClientRest(t) ==
  /\ CarriesOn(t) /\ alive' = alive
  /\ \A u \in Threads : u # t => th'[u] = th[u] /\ xidlist'[u] = xidlist[u]
  /\ UNCHANGED <<calls, ran>> \/ Send(t)

\* a thread's list as it was, with the call just sent, or without one
Lists(t) ==
  \/ xidlist'[t] = xidlist[t]
  \/ th[t].pc = "add" /\ xidlist'[t] = With(xidlist[t], th[t].msg.xid,
                                            [msg |-> th[t].msg, rdata |-> None, on |-> th[t].sock])
  \/ \E x \in DOMAIN xidlist[t] : xidlist'[t] = Without(xidlist[t], x)

\* no bytes are moved; a reply left half read is marked on the connection
Quiet(t) ==
  /\ th'[t].sock = th[t].sock /\ th'[t].got = <<>> /\ ~IsSending(th[t]) /\ Lists(t)
  /\ \/ th'[t].pc \in {"idle", "listen"}
     \/ th'[t].pc = "send" /\ th'[t].part = 1 /\ Send(t)
  /\ th[t].sock # NoSocket =>
       LET r == conn[th[t].sock]
           r2 == conn'[th[t].sock]
       IN  r2.down = r.down /\ (th[t].got # <<>> => r2.torn)

(* What a list that changed at one thread leaves alone.                      *)
LEMMA OneThread ==
  ASSUME SafeInv, NEW t \in Threads
  PROVE  /\ \A T : th' = [th EXCEPT ![t] = T] => th'[t] = T /\ \A u \in Threads : u # t => th'[u] = th[u]
         /\ \A X : xidlist' = [xidlist EXCEPT ![t] = X] =>
                     xidlist'[t] = X /\ \A u \in Threads : u # t => xidlist'[u] = xidlist[u]
BY StateFacts

(* A thread that has left send or listen.                                    *)
LEMMA RaisedThread ==
  ASSUME SafeInv, NEW t \in Threads, NEW e \in {"error", "timeout", "inuse", "garbled", "stray"},
         Raise(t, e)
  PROVE  /\ th'[t].sock = th[t].sock /\ th'[t].got = <<>> /\ th'[t].pc = "idle"
         /\ ~IsSending(th'[t]) /\ \A u \in Threads : u # t => th'[u] = th[u]
<1> DEFINE T2 == Leaving(th[t], e)
<1>1. th' = [th EXCEPT ![t] = T2]
  BY DEF Raise, Become
<1>2. th[t] \in ThreadStates /\ e \in {"none", "error", "timeout", "inuse", "returned", "garbled", "stray"}
  BY ThreadFacts
<1>3. T2.pc = "idle" /\ T2.got = <<>> /\ T2.sock = th[t].sock
  BY ONLY <1>2, Left
<1> HIDE DEF T2
<1>4. th'[t] = T2 /\ \A u \in Threads : u # t => th'[u] = th[u]
  BY <1>1, OneThread
<1> QED BY <1>3, <1>4 DEF IsSending

(* What a thread between two calls, or sending, has read.                    *)
LEMMA NothingRead ==
  ASSUME SafeInv, NEW t \in Threads
  PROVE  th[t].pc \notin {"listen", "relisten"} => th[t].got = <<>>
BY ThreadFacts DEF Client

(* send begins: nothing has been sent.                                       *)
LEMMA CasesSend ==
  ASSUME SafeInv, NEW t \in Threads, Send(t)
  PROVE  ClientRest(t) /\ Quiet(t)
<1>1. /\ th[t].pc = "idle" /\ UNCHANGED <<lockLost, xidlist, conn, alive, faults>>
      /\ th[t] \in ThreadStates
  BY ThreadFacts DEF Send
<1>2. PICK m : th' = [th EXCEPT ![t] = [Entered(th[t]) EXCEPT !.pc = "send", !.msg = m, !.part = 1]]
  BY DEF Send, Become
<1> DEFINE T2 == [Entered(th[t]) EXCEPT !.pc = "send", !.msg = m, !.part = 1]
<1>3. T2.sock = th[t].sock /\ T2.got = <<>> /\ T2.pc = "send" /\ T2.part = 1
  BY <1>1, EnteredFields DEF ThreadStates
<1> HIDE DEF T2
<1>4. th'[t] = T2 /\ \A u \in Threads : u # t => th'[u] = th[u]
  BY <1>2, OneThread DEF T2
<1>5. CarriesOn(t)
  BY <1>1, CarriesOnSame
<1>6. Quiet(t)
  BY <1>1, <1>3, <1>4, NothingRead DEF Quiet, Lists, IsSending
<1> QED BY <1>1, <1>4, <1>5, <1>6 DEF ClientRest

(* A failed send moves its thread to a new connection.                       *)
LEMMA CasesSendError ==
  ASSUME SafeInv, NEW t \in Threads, SendError(t)
  PROVE  ClientRest(t) /\ Moved(t)
<1>1. /\ IsSending(th[t]) /\ UNCHANGED <<xid, lockLost, xidlist, alive, calls, ran, faults>>
      /\ th[t] \in ThreadStates /\ th[t].got = <<>>
  <2>1. IsSending(th[t]) /\ UNCHANGED <<xid, lockLost, xidlist, alive, calls, ran, faults>>
    BY DEF SendError, Sending, IsSending
  <2> QED BY <2>1, ThreadFacts, NothingRead DEF IsSending
<1>2. CASE th[t].pc = "send"
  <2> DEFINE r == [th[t] EXCEPT !.pc = "retry", !.part = 1]
  <2>1. Reconnect(t, r)
    BY <1>2 DEF SendError, ResumeAt
  <2>2. r \in ThreadStates /\ r.pc = "retry" /\ r.part = 1 /\ r.got = <<>> /\ r.msg = th[t].msg
    <3>1. 1 \in Nat
      OBVIOUS
    <3> QED BY <3>1, <1>1 DEF ThreadStates
  <2>2a. th[t].msg \in Held(th[t], xidlist[t])
    BY <1>2 DEF Held
  <2> HIDE DEF r
  <2>3. CarriesOn(t) /\ Moved(t) /\ \A u \in Threads : u # t => th'[u] = th[u]
    BY <2>1, <2>2, <2>2a, <1>1, ReconnectCarriesOn
  <2> QED BY <2>3, <1>1 DEF ClientRest
<1>3. CASE th[t].pc # "send"
  <2>1. ReconnectAndRaise(t, "error")
    BY <1>3 DEF SendError
  <2>2. CarriesOn(t) /\ Moved(t) /\ \A u \in Threads : u # t => th'[u] = th[u]
    BY <2>1, <1>1, RaiseCarriesOn
  <2> QED BY <2>2, <1>1 DEF ClientRest
<1> QED BY <1>2, <1>3

(* A send that timed out moves its thread, if it was not the first.          *)
LEMMA CasesSendTimeout ==
  ASSUME SafeInv, NEW t \in Threads, SendTimeout(t), th[t].pc # "send"
  PROVE  ClientRest(t) /\ Moved(t)
<1>1. UNCHANGED <<xid, lockLost, xidlist, alive, calls, ran>> /\ ReconnectAndRaise(t, "timeout")
  BY DEF SendTimeout
<1>2. CarriesOn(t) /\ Moved(t) /\ \A u \in Threads : u # t => th'[u] = th[u]
  BY <1>1, RaiseCarriesOn
<1> QED BY <1>1, <1>2 DEF ClientRest

(* A call goes on the list.                                                  *)
LEMMA CasesAddOutstanding ==
  ASSUME SafeInv, NEW t \in Threads, AddOutstanding(t)
  PROVE  ClientRest(t) /\ Quiet(t)
<1>1. /\ th[t].pc = "add" /\ UNCHANGED <<xid, conn, alive, calls, ran, faults>>
      /\ th[t] \in ThreadStates
  BY ThreadFacts DEF AddOutstanding
<1>2. CarriesOn(t)
  BY <1>1, CarriesOnSame
<1>3. CASE InUse(t, th[t].msg.xid)
  <2>1. Raise(t, "inuse") /\ UNCHANGED xidlist
    BY <1>3 DEF AddOutstanding
  <2>2. /\ th'[t].sock = th[t].sock /\ th'[t].got = <<>> /\ th'[t].pc = "idle"
        /\ ~IsSending(th'[t]) /\ \A u \in Threads : u # t => th'[u] = th[u]
    BY <2>1, RaisedThread
  <2>3. Quiet(t)
    BY <2>1, <2>2, <1>1, NothingRead DEF Quiet, Lists, IsSending
  <2> QED BY <2>1, <2>2, <2>3, <1>1, <1>2 DEF ClientRest
<1>4. CASE ~InUse(t, th[t].msg.xid)
  <2> DEFINE X2 == With(xidlist[t], th[t].msg.xid, [msg |-> th[t].msg, rdata |-> None, on |-> th[t].sock])
  <2>1. xidlist' = [xidlist EXCEPT ![t] = X2] /\ th' = [th EXCEPT ![t] = Idle(th[t])]
    BY <1>4 DEF AddOutstanding, Become
  <2>2. Idle(th[t]).sock = th[t].sock /\ Idle(th[t]).got = <<>> /\ Idle(th[t]).pc = "idle"
    BY <1>1 DEF Idle, ThreadStates
  <2> HIDE DEF X2
  <2>3. /\ th'[t] = Idle(th[t]) /\ \A u \in Threads : u # t => th'[u] = th[u]
        /\ xidlist'[t] = X2 /\ \A u \in Threads : u # t => xidlist'[u] = xidlist[u]
    BY <2>1, OneThread
  <2>4. Quiet(t)
    BY <2>2, <2>3, <1>1, NothingRead DEF Quiet, Lists, IsSending, X2
  <2> QED BY <2>3, <2>4, <1>1, <1>2 DEF ClientRest
<1> QED BY <1>3, <1>4

(* listen begins, or returns an answer that was kept.                        *)
LEMMA CasesListen ==
  ASSUME SafeInv, NEW t \in Threads, Listen(t)
  PROVE  ClientRest(t) /\ Quiet(t)
<1>1. /\ th[t].pc = "idle" /\ UNCHANGED <<xid, lockLost, conn, alive, calls, ran, faults>>
      /\ th[t] \in ThreadStates
  BY ThreadFacts DEF Listen
<1>2. CarriesOn(t)
  BY <1>1, CarriesOnSame
<1>3. PICK x \in DOMAIN xidlist[t] :
        IF xidlist[t][x].rdata # None THEN Return(t, x, xidlist[t][x].rdata)
        ELSE /\ Become(t, [Entered(th[t]) EXCEPT !.pc = "listen", !.want = x])
             /\ UNCHANGED xidlist
  BY DEF Listen
<1>4. CASE xidlist[t][x].rdata # None
  <2>1. Return(t, x, xidlist[t][x].rdata)
    BY <1>3, <1>4
  <2>2. PICK a : /\ xidlist' = [xidlist EXCEPT ![t] = Without(xidlist[t], x)]
                 /\ th' = [th EXCEPT ![t] = [Idle(th[t]) EXCEPT !.ended = "returned", !.answer = a]]
    BY <2>1 DEF Return, Returned, Become
  <2> DEFINE T2 == [Idle(th[t]) EXCEPT !.ended = "returned", !.answer = a]
  <2>3. T2.sock = th[t].sock /\ T2.got = <<>> /\ T2.pc = "idle"
    BY <1>1 DEF Idle, ThreadStates
  <2> HIDE DEF T2
  <2>4. /\ th'[t] = T2 /\ \A u \in Threads : u # t => th'[u] = th[u]
        /\ xidlist'[t] = Without(xidlist[t], x) /\ \A u \in Threads : u # t => xidlist'[u] = xidlist[u]
    BY <2>2, OneThread DEF T2
  <2>5. Quiet(t)
    BY <2>3, <2>4, <1>1, NothingRead DEF Quiet, Lists, IsSending
  <2> QED BY <2>4, <2>5, <1>1, <1>2 DEF ClientRest
<1>5. CASE ~(xidlist[t][x].rdata # None)
  <2> DEFINE T2 == [Entered(th[t]) EXCEPT !.pc = "listen", !.want = x]
  <2>1. th' = [th EXCEPT ![t] = T2] /\ UNCHANGED xidlist
    BY <1>3, <1>5 DEF Become
  <2>2. T2.sock = th[t].sock /\ T2.got = <<>> /\ T2.pc = "listen"
    BY <1>1, EnteredFields DEF ThreadStates
  <2> HIDE DEF T2
  <2>3. th'[t] = T2 /\ \A u \in Threads : u # t => th'[u] = th[u]
    BY <2>1, OneThread
  <2>4. Quiet(t)
    BY <2>1, <2>2, <2>3, <1>1, NothingRead DEF Quiet, Lists, IsSending
  <2> QED BY <2>1, <2>3, <2>4, <1>1, <1>2 DEF ClientRest
<1> QED BY <1>4, <1>5

(* A failed receive moves its thread to a new connection.                    *)
LEMMA CasesRecvError ==
  ASSUME SafeInv, NEW t \in Threads, RecvError(t)
  PROVE  ClientRest(t) /\ Moved(t)
<1>1. /\ th[t].pc \in {"listen", "relisten"}
      /\ UNCHANGED <<xid, lockLost, xidlist, alive, calls, ran, faults>>
      /\ th[t] \in ThreadStates /\ List(xidlist[t]) /\ Client(th[t], xidlist[t], Len(calls), Len(conn), CutBy(t))
  BY ThreadFacts DEF RecvError
<1>2. CASE th[t].pc = "listen"
  <2> DEFINE m == xidlist[t][th[t].want].msg
             r == [th[t] EXCEPT !.pc = "resend", !.part = 1, !.got = <<>>, !.msg = m]
  <2>1. Reconnect(t, r)
    BY <1>2 DEF RecvError
  <2>2. m \in Messages /\ m \in Held(th[t], xidlist[t])
    <3>1. th[t].want \in DOMAIN xidlist[t]
      BY <1>1 DEF Client
    <3>2. xidlist[t][th[t].want] \in Entries
      BY <3>1, <1>1 DEF List
    <3> QED BY <3>1, <3>2 DEF Entries, Held
  <2> HIDE DEF m
  <2>3. r \in ThreadStates /\ r.pc = "resend" /\ r.part = 1 /\ r.got = <<>> /\ r.msg = m
    <3>1. <<>> \in Seq(Pieces) /\ m \in Messages \union {None} /\ 1 \in Nat
      BY <2>2
    <3> QED BY <3>1, <1>1 DEF ThreadStates
  <2> HIDE DEF r
  <2>4. CarriesOn(t) /\ Moved(t) /\ \A u \in Threads : u # t => th'[u] = th[u]
    BY <2>1, <2>2, <2>3, <1>1, ReconnectCarriesOn
  <2> QED BY <2>4, <1>1 DEF ClientRest
<1>3. CASE th[t].pc # "listen"
  <2>1. ReconnectAndRaise(t, "error")
    BY <1>3 DEF RecvError
  <2>2. CarriesOn(t) /\ Moved(t) /\ \A u \in Threads : u # t => th'[u] = th[u]
    BY <2>1, <1>1, RaiseCarriesOn
  <2> QED BY <2>2, <1>1 DEF ClientRest
<1> QED BY <1>2, <1>3

(* A receive that timed out tears its stream or moves its thread.            *)
LEMMA CasesRecvTimeout ==
  ASSUME SafeInv, NEW t \in Threads, RecvTimeout(t)
  PROVE  ClientRest(t) /\ (Moved(t) \/ Quiet(t))
<1>1. /\ th[t].pc \in {"listen", "relisten"} /\ th[t].sock # NoSocket
      /\ UNCHANGED <<xid, lockLost, alive, calls, ran>> /\ UNCHANGED xidlist
      /\ th[t] \in ThreadStates /\ ~IsSending(th[t])
  <2>1. /\ th[t].pc \in {"listen", "relisten"} /\ th[t].sock # NoSocket
        /\ UNCHANGED <<xid, lockLost, alive, calls, ran>> /\ UNCHANGED xidlist
    BY DEF RecvTimeout, Listening, Usable, AfterTimeout
  <2> QED BY <2>1, ThreadFacts DEF IsSending
<1>2. CASE th[t].pc = "listen"
  <2>1. /\ Raise(t, "timeout")
        /\ conn' = IF th[t].got = <<>> THEN conn ELSE [conn EXCEPT ![th[t].sock].torn = TRUE]
    BY <1>2 DEF RecvTimeout
  <2>2. /\ th'[t].sock = th[t].sock /\ th'[t].got = <<>> /\ th'[t].pc = "idle"
        /\ ~IsSending(th'[t]) /\ \A u \in Threads : u # t => th'[u] = th[u]
    BY <2>1, RaisedThread
  <2>3. CASE th[t].got = <<>>
    <3>1. conn' = conn
      BY <2>1, <2>3
    <3>2. CarriesOn(t)
      BY <3>1, CarriesOnSame
    <3>3. Quiet(t)
      BY <3>1, <2>2, <2>3, <1>1 DEF Quiet, Lists
    <3> QED BY <3>2, <3>3, <2>2, <1>1 DEF ClientRest
  <2>4. CASE th[t].got # <<>>
    <3>1. conn[th[t].sock] \in Connections
      BY <1>1, SockFacts DEF Sock
    <3> DEFINE r2 == [conn[th[t].sock] EXCEPT !.torn = TRUE]
    <3>2. PICK e \in Seq(Pieces) : TRUE
      BY EmptySeq
    <3>3. r2 \in Connections /\ Kept(conn[th[t].sock], r2) /\ r2.torn /\ r2.down = conn[th[t].sock].down
      <4>1. Kept(conn[th[t].sock], r2)
        BY <3>1, <3>2, KeptFlags
      <4> QED BY <4>1, <3>1 DEF Connections
    <3>4. conn' = [conn EXCEPT ![th[t].sock] = r2]
      BY <2>1, <2>4
    <3> HIDE DEF r2
    <3>5. CarriesOn(t) /\ conn'[th[t].sock] = r2
      BY <3>3, <3>4, <1>1, CarriesOnOne
    <3>6. Quiet(t)
      BY <3>3, <3>5, <2>2, <1>1 DEF Quiet, Lists
    <3> QED BY <3>5, <3>6, <2>2, <1>1 DEF ClientRest
  <2> QED BY <2>3, <2>4
<1>3. CASE th[t].pc # "listen"
  <2>1. ReconnectAndRaise(t, "timeout")
    BY <1>3 DEF RecvTimeout
  <2>2. CarriesOn(t) /\ Moved(t) /\ \A u \in Threads : u # t => th'[u] = th[u]
    BY <2>1, <1>1, RaiseCarriesOn
  <2> QED BY <2>2, <1>1 DEF ClientRest
<1> QED BY <1>2, <1>3

(* close sends and reads nothing.                                            *)
LEMMA CasesClose ==
  ASSUME SafeInv, NEW t \in Threads, Close(t)
  PROVE  ClientRest(t) /\ Quiet(t)
<1>1. /\ th[t].pc = "idle" /\ th[t].sock # NoSocket /\ conn' = Closed(t)
      /\ UNCHANGED <<xid, lockLost, th, xidlist, alive, calls, ran>> /\ th[t].got = <<>>
  <2>1. /\ th[t].pc = "idle" /\ th[t].sock # NoSocket /\ conn' = Closed(t)
        /\ UNCHANGED <<xid, lockLost, th, xidlist, alive, calls, ran>>
    BY DEF Close, Usable
  <2> QED BY <2>1, NothingRead
<1>2. /\ Len(Closed(t)) = Len(conn)
      /\ \A c \in 1..Len(conn) : /\ Kept(conn[c], Closed(t)[c])
                                 /\ c # th[t].sock => Closed(t)[c] = conn[c]
  BY ClosedKept
<1>3. CarriesOn(t)
  BY <1>1, <1>2 DEF CarriesOn
<1>4. Closed(t)[th[t].sock].down = conn[th[t].sock].down
  <2>1. th[t].sock \in 1..Len(conn) /\ conn[th[t].sock] \in Connections
    BY <1>1, ThreadFacts, StateFacts
  <2>2. Closed(t)[th[t].sock] = [conn[th[t].sock] EXCEPT !.open = Closed(t)[th[t].sock].open]
    BY <2>1, ClosedConnections
  <2> QED BY <2>1, <2>2 DEF Connections
<1>5. Quiet(t)
  BY <1>1, <1>4 DEF Quiet, Lists, IsSending
<1> QED BY <1>1, <1>3, <1>5 DEF ClientRest

\* an answer read whole is returned or kept
Delivers(X, X2, m) ==
  m.xid \in DOMAIN X /\ (X2 = Without(X, m.xid) \/ X2 = [X EXCEPT ![m.xid].rdata = m])

\* a thread reads a piece
Reads(T, T2, X, X2, r, r2) ==
  LET x == Head(r.down)
      s == Append(T.got, x)
  IN  /\ T.pc \in {"listen", "relisten"} /\ r.down # <<>> /\ r2.down = Tail(r.down)
      /\ T2.pc \in {"idle", "listen"} \/ (T2.pc = T.pc /\ T2.msg = T.msg)
      /\ \/ ~Ends(x, x.msg.back) /\ T2.got = s /\ X2 = X
         \/ /\ Ends(x, x.msg.back) /\ T2.got = <<>>
            /\ \/ Delivers(X, X2, s[1].msg)
               \/ X2 = X /\ (Whole(s, s[1].msg.back) => s[1].msg.xid \notin DOMAIN X)

\* a thread reads a body where it wants a mark, or a mark where it wants a body
Misreads(T, T2, X, X2, r) ==
  /\ T.pc \in {"listen", "relisten"} /\ T2.pc = "idle" /\ T2.got = <<>> /\ X2 = X
  /\ r.down # <<>> /\ Head(r.down).half # (Len(T.got) % 2) + 1

OnOwn(t) == th[t].sock # NoSocket /\ th'[t].sock = th[t].sock

(* What is no mark is misread.                                               *)
LEMMA CasesRecvGarbage ==
  ASSUME SafeInv, NEW t \in Threads, RecvGarbage(t)
  PROVE  ClientRest(t) /\ OnOwn(t) /\ Misreads(th[t], th'[t], xidlist[t], xidlist'[t], conn[th[t].sock])
<1>1. /\ th[t].pc \in {"listen", "relisten"} /\ th[t].sock # NoSocket /\ Raise(t, "garbled")
      /\ UNCHANGED <<xid, lockLost, xidlist, alive, calls, ran>>
      /\ conn[th[t].sock].down # <<>>
      /\ Head(conn[th[t].sock].down).half # (Len(th[t].got) % 2) + 1
  BY DEF RecvGarbage, Listening, Usable, Sock
<1>2. PICK r \in Connections : r = conn[th[t].sock]
  BY <1>1, SockFacts DEF Sock
<1>3. PICK k \in 1..Len(r.down) :
        conn' = [conn EXCEPT ![th[t].sock].down = SubSeq(@, k + 1, Len(@))]
  BY <1>2 DEF RecvGarbage, Sock
<1> DEFINE d2 == SubSeq(r.down, k + 1, Len(r.down))
           r2 == [r EXCEPT !.down = d2]
<1>4. conn' = [conn EXCEPT ![th[t].sock] = r2]
  BY <1>2, <1>3
<1>5. d2 \in Seq(Pieces)
  <2>1. r.down \in Seq(Pieces) /\ Len(r.down) \in Nat
    BY ConnectionFields
  <2>2. \A i \in (k + 1)..Len(r.down) : r.down[i] \in Pieces
    BY <2>1, ElementOfSeq
  <2>3. k + 1 \in Int /\ Len(r.down) \in Int
    BY <2>1
  <2> QED BY ONLY <2>2, <2>3, SubSeqProperties
<1> HIDE DEF d2
<1>6. r2 \in Connections /\ Kept(r, r2)
  <2>1. Kept(r, r2)
    BY <1>5, KeptFlags
  <2> QED BY <2>1, <1>5 DEF Connections
<1> HIDE DEF r2
<1>7. CarriesOn(t)
  BY <1>1, <1>2, <1>4, <1>6, CarriesOnOne
<1>8. /\ th'[t].sock = th[t].sock /\ th'[t].got = <<>> /\ th'[t].pc = "idle"
      /\ ~IsSending(th'[t]) /\ \A u \in Threads : u # t => th'[u] = th[u]
  BY <1>1, RaisedThread
<1>9. Misreads(th[t], th'[t], xidlist[t], xidlist'[t], conn[th[t].sock])
  BY <1>1, <1>8 DEF Misreads, IsSending
<1> QED BY <1>1, <1>7, <1>8, <1>9 DEF ClientRest, OnOwn

(* A mark or a body is read, and with the last of them a reply delivered.    *)
LEMMA CasesRecv ==
  ASSUME SafeInv, NEW t \in Threads, Recv(t)
  PROVE  /\ ClientRest(t) /\ OnOwn(t)
         /\ Reads(th[t], th'[t], xidlist[t], xidlist'[t], conn[th[t].sock], conn'[th[t].sock])
<1> DEFINE T == th[t]
           X == xidlist[t]
           r == conn[T.sock]
           x == Head(r.down)
           s == Append(T.got, x)
           r2 == [r EXCEPT !.down = Tail(r.down)]
<1>1. /\ T.pc \in {"listen", "relisten"} /\ T.sock # NoSocket /\ r.down # <<>>
      /\ UNCHANGED <<xid, lockLost, alive, calls, ran, faults>> /\ T \in ThreadStates
      /\ Ends(x, x.msg.back) => Deliver(t, s)
      /\ ~Ends(x, x.msg.back) => Become(t, [T EXCEPT !.got = s]) /\ UNCHANGED xidlist
      /\ conn' = [conn EXCEPT ![T.sock].down = Tail(@)]
  BY ThreadFacts DEF Recv, Listening, Usable, Sock
<1>2. T.sock \in 1..Len(conn) /\ r \in Connections
  BY <1>1, SockFacts DEF Sock
<1>3. r2 \in Connections /\ Kept(r, r2) /\ r2.down = Tail(r.down)
  <2>1. Tail(r.down) \in Seq(Pieces)
    BY <1>1, <1>2, ConnectionFields, HeadTailProperties
  <2> QED BY <2>1, <1>2, KeptFlags DEF Connections
<1>4. conn' = [conn EXCEPT ![T.sock] = r2]
  BY <1>1, <1>2
<1> HIDE DEF r2
<1>5. CarriesOn(t) /\ conn'[T.sock] = r2
  BY <1>1, <1>3, <1>4, CarriesOnOne
<1> DEFINE Effect == /\ th'[t].sock = T.sock
                     /\ th'[t].pc \in {"idle", "listen"} \/ (th'[t].pc = T.pc /\ th'[t].msg = T.msg)
                     /\ \A u \in Threads : u # t => th'[u] = th[u] /\ xidlist'[u] = xidlist[u]
                     /\ \/ ~Ends(x, x.msg.back) /\ th'[t].got = s /\ xidlist'[t] = X
                        \/ /\ Ends(x, x.msg.back) /\ th'[t].got = <<>>
                           /\ \/ Delivers(X, xidlist'[t], s[1].msg)
                              \/ /\ xidlist'[t] = X
                                 /\ Whole(s, s[1].msg.back) => s[1].msg.xid \notin DOMAIN X
<1> HIDE DEF x, s
<1>7. ASSUME ~Ends(x, x.msg.back) PROVE Effect
  <2> DEFINE T2 == [T EXCEPT !.got = s]
  <2>1. th' = [th EXCEPT ![t] = T2] /\ xidlist' = xidlist
    BY <1>1, <1>7 DEF Become
  <2>2. T2.got = s /\ T2.sock = T.sock /\ T2.pc = T.pc /\ T2.msg = T.msg
    BY <1>1 DEF ThreadStates
  <2> HIDE DEF T2
  <2>3. th'[t] = T2 /\ \A u \in Threads : u # t => th'[u] = th[u]
    BY <2>1, OneThread
  <2>4. Effect
    BY <2>1, <2>2, <2>3, <1>1, <1>7
  <2> QED BY <2>4
<1>8. ASSUME Ends(x, x.msg.back) PROVE Effect
  <2> DEFINE m == s[1].msg
  <2>1. Deliver(t, s)
    BY <1>1, <1>8
  <2>2. CASE ~Whole(s, m.back)
    <3>1. Raise(t, "garbled") /\ UNCHANGED xidlist
      BY <2>1, <2>2 DEF Deliver
    <3>2. /\ th'[t].sock = T.sock /\ th'[t].got = <<>> /\ th'[t].pc = "idle"
          /\ ~IsSending(th'[t]) /\ \A u \in Threads : u # t => th'[u] = th[u]
      BY <3>1, RaisedThread
    <3> QED BY <3>1, <3>2, <2>2, <1>8
  <2>3. CASE Whole(s, m.back) /\ m.xid \notin DOMAIN X
    <3>1. Raise(t, "stray") /\ UNCHANGED xidlist
      BY <2>1, <2>3 DEF Deliver
    <3>2. /\ th'[t].sock = T.sock /\ th'[t].got = <<>> /\ th'[t].pc = "idle"
          /\ ~IsSending(th'[t]) /\ \A u \in Threads : u # t => th'[u] = th[u]
      BY <3>1, RaisedThread
    <3> QED BY <3>1, <3>2, <2>3, <1>8
  <2>4. CASE Whole(s, m.back) /\ m.xid \in DOMAIN X /\ m.xid = T.want
    <3>1. Return(t, m.xid, m)
      BY <2>1, <2>4 DEF Deliver
    <3>2. PICK a : /\ xidlist' = [xidlist EXCEPT ![t] = Without(X, m.xid)]
                   /\ th' = [th EXCEPT ![t] = [Idle(T) EXCEPT !.ended = "returned", !.answer = a]]
      BY <3>1 DEF Return, Returned, Become
    <3> DEFINE T2 == [Idle(T) EXCEPT !.ended = "returned", !.answer = a]
               X2 == Without(X, m.xid)
    <3>3. T2.sock = T.sock /\ T2.got = <<>> /\ T2.pc = "idle"
      BY <1>1 DEF Idle, ThreadStates
    <3>3a. th' = [th EXCEPT ![t] = T2] /\ xidlist' = [xidlist EXCEPT ![t] = X2]
      BY <3>2
    <3> HIDE DEF T2, X2
    <3>4. /\ th'[t] = T2 /\ \A u \in Threads : u # t => th'[u] = th[u]
          /\ xidlist'[t] = X2 /\ \A u \in Threads : u # t => xidlist'[u] = xidlist[u]
      BY <3>3a, OneThread
    <3>5. Delivers(X, xidlist'[t], m)
      BY <3>4, <2>4 DEF Delivers, X2
    <3> QED BY <3>3, <3>4, <3>5, <1>8
  <2>5. CASE Whole(s, m.back) /\ m.xid \in DOMAIN X /\ m.xid # T.want
    <3> DEFINE T2 == [T EXCEPT !.pc = "listen", !.got = <<>>]
               X2 == [X EXCEPT ![m.xid].rdata = m]
    <3>1. th' = [th EXCEPT ![t] = T2]
      BY <2>1, <2>5 DEF Deliver, Become
    <3>2. xidlist' = [xidlist EXCEPT ![t] = X2]
      BY <2>1, <2>5 DEF Deliver
    <3>3. T2.sock = T.sock /\ T2.got = <<>> /\ T2.pc = "listen"
      BY <1>1 DEF ThreadStates
    <3> HIDE DEF T2, X2
    <3>4. /\ th'[t] = T2 /\ \A u \in Threads : u # t => th'[u] = th[u]
          /\ xidlist'[t] = X2 /\ \A u \in Threads : u # t => xidlist'[u] = xidlist[u]
      BY <3>1, <3>2, OneThread
    <3>5. Delivers(X, xidlist'[t], m)
      BY <3>4, <2>5 DEF Delivers, X2
    <3> QED BY <3>3, <3>4, <3>5, <1>8
  <2> QED BY <2>2, <2>3, <2>4, <2>5
<1>9. Effect
  <2>1. Ends(x, x.msg.back) \/ ~Ends(x, x.msg.back)
    OBVIOUS
  <2> HIDE DEF Effect
  <2> QED BY <2>1, <1>7, <1>8
<1>10. Reads(T, th'[t], X, xidlist'[t], r, conn'[T.sock])
  BY <1>1, <1>3, <1>5, <1>9 DEF Reads, x, s
<1> HIDE DEF T, X, r
<1> QED BY <1>1, <1>5, <1>9, <1>10 DEF ClientRest, OnOwn, T, X, r

\* a step that may put bytes on the wire
Writes(t) == SendFragment(t) \/ (SendTimeout(t) /\ th[t].pc = "send")

(* Every step of a client but these.                                         *)
LEMMA ClientCases ==
  ASSUME SafeInv, NEW t \in Threads, ClientNext(t), ~Writes(t)
  PROVE  /\ ClientRest(t)
         /\ \/ Moved(t) \/ Quiet(t)
            \/ OnOwn(t) /\ Reads(th[t], th'[t], xidlist[t], xidlist'[t], conn[th[t].sock], conn'[th[t].sock])
            \/ OnOwn(t) /\ Misreads(th[t], th'[t], xidlist[t], xidlist'[t], conn[th[t].sock])
<1>1. CASE Send(t)          BY <1>1, CasesSend
<1>2. CASE SendError(t)     BY <1>2, CasesSendError
<1>3. CASE SendTimeout(t)   BY <1>3, CasesSendTimeout DEF Writes
<1>4. CASE AddOutstanding(t) BY <1>4, CasesAddOutstanding
<1>5. CASE Listen(t)        BY <1>5, CasesListen
<1>6. CASE Recv(t)          BY <1>6, CasesRecv
<1>7. CASE RecvGarbage(t)   BY <1>7, CasesRecvGarbage
<1>8. CASE RecvError(t)     BY <1>8, CasesRecvError
<1>9. CASE RecvTimeout(t)   BY <1>9, CasesRecvTimeout
<1>10. CASE Close(t)        BY <1>10, CasesClose
<1> QED BY <1>1, <1>2, <1>3, <1>4, <1>5, <1>6, <1>7, <1>8, <1>9, <1>10 DEF ClientNext, Writes

\* a thread sends a fragment
Sends(T, T2, X, X2, r, r2) ==
  LET m == T.msg
      p == T.part
  IN  /\ IsSending(T) /\ m \in Messages /\ p \in 1..m.frags
      /\ T.got = <<>> /\ T2.got = <<>> /\ T2.msg = m
      /\ r.open /\ ~r.broken
      /\ r2.open = r.open /\ r2.broken = r.broken /\ r2.fd = r.fd /\ r2.cut = r.cut /\ r2.torn = r.torn
      /\ r2.readbuf = r.readbuf /\ r2.packetbuf = r.packetbuf /\ r2.recordbuf = r.recordbuf
      /\ r2.down = r.down /\ r2.writebuf = r.writebuf /\ r2.up = r.up \o Fragment(m, p)
      /\ p # m.frags => T2.pc = T.pc /\ T2.part = p + 1 /\ X2 = X
      /\ p = m.frags =>
           \/ T2.pc = "add" /\ X2 = X
           \/ /\ T2.pc = "relisten" /\ m.xid \in DOMAIN X /\ X[m.xid].msg = m
              /\ X2 = [X EXCEPT ![m.xid].on = T.sock]

(* A fragment is sent, on the thread's own connection.                       *)
LEMMA CasesSendFragment ==
  ASSUME SafeInv, NEW t \in Threads, SendFragment(t)
  PROVE  /\ OnOwn(t) /\ UNCHANGED <<alive, ran>> /\ Len(conn') = Len(conn)
         /\ \A c \in 1..Len(conn) : c # th[t].sock => conn'[c] = conn[c]
         /\ \A u \in Threads : u # t => th'[u] = th[u] /\ xidlist'[u] = xidlist[u]
         /\ calls' = IF th[t].part = th[t].msg.frags THEN [calls EXCEPT ![th[t].msg.no].sent = @ + 1]
                     ELSE calls
         /\ th[t].msg.no \in 1..Len(calls)
         /\ Sends(th[t], th'[t], xidlist[t], xidlist'[t], conn[th[t].sock], conn'[th[t].sock])
<1> DEFINE T == th[t]
           X == xidlist[t]
           m == T.msg
           p == T.part
           f == Fragment(m, p)
           r == conn[T.sock]
           r2 == [r EXCEPT !.up = @ \o f]
           last == p = m.frags
           T2 == IF last THEN [T EXCEPT !.pc = AfterSend(@)] ELSE [T EXCEPT !.part = @ + 1]
           X2 == IF last /\ T.pc = "resend" THEN [X EXCEPT ![m.xid].on = T.sock] ELSE X
<1>1. /\ T \in ThreadStates /\ List(X) /\ IsSending(T) /\ T.sock # NoSocket
      /\ Client(T, X, Len(calls), Len(conn), CutBy(t))
      /\ UNCHANGED <<xid, lockLost, alive, ran, faults>>
      /\ T.pc \in {"send", "retry", "resend"} /\ r.open /\ ~r.broken /\ T.got = <<>>
  <2>1. /\ T \in ThreadStates /\ List(X) /\ IsSending(T) /\ T.sock # NoSocket
        /\ Client(T, X, Len(calls), Len(conn), CutBy(t))
        /\ UNCHANGED <<xid, lockLost, alive, ran, faults>>
        /\ T.pc \in {"send", "retry", "resend"} /\ r.open /\ ~r.broken
    BY ThreadFacts DEF SendFragment, Sending, IsSending, Usable, Sock
  <2> QED BY <2>1, NothingRead
<1>2. T.sock \in 1..Len(conn) /\ r \in Connections /\ conn \in Seq(Connections)
  BY <1>1, ThreadFacts, StateFacts
<1>3. m \in Messages /\ p \in 1..m.frags /\ m.no <= Len(calls) /\ m.no \in 1..Len(calls)
  <2>1. m \in Messages /\ m.no <= Len(calls) /\ p \in 1..m.frags
    BY <1>1 DEF Client, IsSending
  <2>2. m.no \in 1..Len(Sizes)
    BY <2>1, MessageSizes
  <2>3. Len(calls) \in Nat /\ Len(Sizes) \in Nat
    BY StateFacts, ConstantTypes
  <2> QED BY <2>1, <2>2, <2>3
<1>4. /\ conn' = [conn EXCEPT ![T.sock] = r2] /\ th' = [th EXCEPT ![t] = T2]
      /\ calls' = IF last THEN [calls EXCEPT ![m.no].sent = @ + 1] ELSE calls
      /\ xidlist' = IF last /\ T.pc = "resend"
                    THEN [xidlist EXCEPT ![t][m.xid].on = th[t].sock] ELSE xidlist
  BY <1>2 DEF SendFragment, Become
<1>5. f \in Seq(Pieces)
  <2>1. m.frags \in Nat \ {0}
    BY <1>3, MessageSizes
  <2>2. p \in Nat \ {0}
    BY <2>1, <1>3
  <2> QED BY <2>2, <1>3, FragmentPieces
<1>6. /\ r2 \in Connections /\ r2.up = r.up \o f /\ r2.open = r.open /\ r2.broken = r.broken
      /\ r2.fd = r.fd /\ r2.cut = r.cut /\ r2.torn = r.torn
      /\ r2.readbuf = r.readbuf /\ r2.packetbuf = r.packetbuf /\ r2.recordbuf = r.recordbuf
      /\ r2.down = r.down /\ r2.writebuf = r.writebuf
  <2>1. r.up \in Seq(Pieces)
    BY <1>2, ConnectionFields
  <2>2. r.up \o f \in Seq(Pieces)
    BY <2>1, <1>5, Concatenated
  <2> HIDE DEF f
  <2> QED BY <2>2, <1>2 DEF Connections
<1>7. /\ T2.sock = T.sock /\ T2.msg = m /\ T2.got = T.got
      /\ last => T2.pc = AfterSend(T.pc)
      /\ ~last => T2.pc = T.pc /\ T2.part = p + 1
  <2>1. CASE last
    <3>1. T2 = [T EXCEPT !.pc = AfterSend(@)]
      BY <2>1
    <3> HIDE DEF T2
    <3> QED BY <3>1, <2>1, <1>1 DEF ThreadStates
  <2>2. CASE ~last
    <3>1. T2 = [T EXCEPT !.part = p + 1]
      BY <2>2, <1>3
    <3> HIDE DEF T2
    <3> QED BY <3>1, <2>2, <1>1 DEF ThreadStates
  <2> QED BY <2>1, <2>2
<1>8. T.pc = "resend" => m.xid \in DOMAIN X /\ X[m.xid].msg = m
  BY <1>1 DEF Client
<1>9. xidlist' = [xidlist EXCEPT ![t] = X2]
  <2>1. xidlist = [u \in Threads |-> xidlist[u]]
    BY StateFacts
  <2> QED BY <2>1, <1>4
<1> HIDE DEF T2, r2, f
<1>10. /\ Len(conn') = Len(conn) /\ conn'[T.sock] = r2
       /\ \A c \in 1..Len(conn) : c # T.sock => conn'[c] = conn[c]
  <2> HIDE DEF T, r
  <2> QED BY <1>2, <1>4, <1>6, ExceptSeq
<1>11. /\ th'[t] = T2 /\ \A u \in Threads : u # t => th'[u] = th[u]
       /\ xidlist'[t] = X2 /\ \A u \in Threads : u # t => xidlist'[u] = xidlist[u]
  <2> HIDE DEF X2, X, T
  <2>1. SafeInv /\ t \in Threads
    OBVIOUS
  <2>2. th' = [th EXCEPT ![t] = T2] /\ xidlist' = [xidlist EXCEPT ![t] = X2]
    BY <1>4, <1>9
  <2> QED BY ONLY <2>1, <2>2, OneThread
<1>12. p = m.frags =>
         \/ T2.pc = "add" /\ X2 = X
         \/ /\ T2.pc = "relisten" /\ m.xid \in DOMAIN X /\ X[m.xid].msg = m
            /\ X2 = [X EXCEPT ![m.xid].on = T.sock]
  BY <1>7, <1>8 DEF AfterSend
<1>13. p # m.frags => X2 = X
  OBVIOUS
<1> HIDE DEF X2
<1>14. Sends(T, T2, X, X2, r, r2)
  BY <1>1, <1>3, <1>6, <1>7, <1>12, <1>13 DEF Sends, f
<1> HIDE DEF X, r
<1> QED BY <1>1, <1>3, <1>4, <1>7, <1>10, <1>11, <1>14 DEF OnOwn, X, r

\* a thread's first send stops with f of its fragment on the wire, and has begun its
\* record if it sent any of it
Stops(T, T2, r, r2, f, begun) ==
  LET m == T.msg
      p == T.part
  IN  /\ T.pc = "send" /\ m \in Messages /\ p \in 1..m.frags
      /\ T.got = <<>> /\ T2.got = <<>> /\ T2.pc = "idle" /\ ~r.broken
      /\ r2.open = r.open /\ r2.broken = r.broken /\ r2.fd = r.fd /\ r2.torn = r.torn
      /\ r2.readbuf = r.readbuf /\ r2.packetbuf = r.packetbuf /\ r2.recordbuf = r.recordbuf
      /\ r2.down = r.down /\ r2.writebuf = r.writebuf
      /\ r2.up = r.up \o f /\ (r2.cut <=> r.cut \/ begun)
      /\ \/ f = <<>> /\ (begun <=> p > 1)
         \/ Len(f) = 1 /\ begun /\ f[1].msg = m /\ f[1].part = p /\ f[1].half = 1

(* What is left behind of a first send that times out.                       *)
LEMMA CasesStop ==
  ASSUME SafeInv, NEW t \in Threads, SendTimeout(t), th[t].pc = "send"
  PROVE  /\ OnOwn(t) /\ UNCHANGED <<xidlist, alive, ran>> /\ Len(conn') = Len(conn)
         /\ \A c \in 1..Len(conn) : c # th[t].sock => conn'[c] = conn[c]
         /\ \A u \in Threads : u # t => th'[u] = th[u]
         /\ th[t].msg.no \in 1..Len(calls)
         /\ \E f \in Seq(Pieces), begun \in BOOLEAN :
              /\ calls' = [calls EXCEPT ![th[t].msg.no].cut = begun]
              /\ Stops(th[t], th'[t], conn[th[t].sock], conn'[th[t].sock], f, begun)
<1>1. UNCHANGED <<xid, lockLost, xidlist, alive, ran>> /\ th[t].sock # NoSocket /\ ~Sock(t).broken
  BY DEF SendTimeout, Gone, Usable
<1>2. PICK r \in Connections : r = Sock(t) /\ r = conn[th[t].sock] /\ th[t].sock \in 1..Len(conn)
  BY <1>1, SockFacts
<1>3. PICK T \in ThreadStates, m \in Messages, p \in Nat \ {0} :
        /\ T = th[t] /\ T.pc = "send" /\ T.got = <<>> /\ m = T.msg /\ p = T.part
        /\ p \in 1..m.frags /\ m.no \in 1..Len(calls)
  <2>1. th[t] \in ThreadStates /\ Client(th[t], xidlist[t], Len(calls), Len(conn), CutBy(t))
    BY ThreadFacts
  <2>2. /\ th[t].msg \in Messages /\ th[t].part \in 1..th[t].msg.frags
        /\ th[t].msg.no \in 1..Len(calls) /\ th[t].got = <<>>
    BY <2>1 DEF Client, IsSending
  <2>3. th[t].msg.frags \in Nat \ {0}
    BY <2>2, MessageSizes
  <2>4. th[t].part \in Nat \ {0}
    BY <2>2, <2>3
  <2> QED BY <2>1, <2>2, <2>4
<1>4. PICK k \in {0, 1} :
        LET begun == th[t].part > 1 \/ k > 0
        IN  /\ conn' = [conn EXCEPT ![th[t].sock].up = @ \o SubSeq(Fragment(th[t].msg, th[t].part), 1, k),
                                 ![th[t].sock].cut = @ \/ begun]
            /\ calls' = [calls EXCEPT ![th[t].msg.no].cut = begun]
            /\ Raise(t, "timeout")
  BY DEF SendTimeout
<1>5. PICK begun \in BOOLEAN :
        /\ begun <=> th[t].part > 1 \/ k > 0
        /\ conn' = [conn EXCEPT ![th[t].sock].up = @ \o SubSeq(Fragment(th[t].msg, th[t].part), 1, k),
                             ![th[t].sock].cut = @ \/ begun]
        /\ calls' = [calls EXCEPT ![th[t].msg.no].cut = begun]
  <2> DEFINE b == th[t].part > 1 \/ k > 0
  <2>1. b \in BOOLEAN
    BY Zenon
  <2> WITNESS b \in BOOLEAN
  <2> QED BY <1>4
<1>6. PICK f \in Seq(Pieces) :
        /\ f = SubSeq(Fragment(m, p), 1, k) /\ Len(f) = k
        /\ k = 1 => f[1].msg = m /\ f[1].part = p /\ f[1].half = 1
  <2>1. PICK f : f = SubSeq(Fragment(m, p), 1, k)
    OBVIOUS
  <2> QED BY <2>1, CutPieces
<1>7. PICK r2 \in Connections :
        /\ r2 = [r EXCEPT !.up = @ \o f, !.cut = @ \/ begun]
        /\ r2.open = r.open /\ r2.broken = r.broken /\ r2.fd = r.fd /\ r2.torn = r.torn
        /\ r2.readbuf = r.readbuf /\ r2.packetbuf = r.packetbuf /\ r2.recordbuf = r.recordbuf
        /\ r2.down = r.down /\ r2.writebuf = r.writebuf
        /\ r2.up = r.up \o f /\ (r2.cut <=> r.cut \/ begun)
  <2>1. r.up \o f \in Seq(Pieces) /\ (r.cut \/ begun) \in BOOLEAN
    BY ConnectionFields, Concatenated
  <2> DEFINE q == r.up \o f
             b == r.cut \/ begun
  <2> HIDE DEF q, b
  <2>2. PICK r2 : r2 = [r EXCEPT !.up = q, !.cut = b]
    OBVIOUS
  <2>3. /\ r2 \in Connections /\ r2.up = q /\ r2.cut = b
        /\ r2.open = r.open /\ r2.broken = r.broken /\ r2.fd = r.fd /\ r2.torn = r.torn
        /\ r2.readbuf = r.readbuf /\ r2.packetbuf = r.packetbuf /\ r2.recordbuf = r.recordbuf
        /\ r2.down = r.down /\ r2.writebuf = r.writebuf
    BY <2>1, <2>2 DEF Connections, q, b
  <2> QED BY <2>2, <2>3 DEF q, b
<1>8. conn' = [conn EXCEPT ![th[t].sock] = r2]
  <2>1. f = SubSeq(Fragment(th[t].msg, th[t].part), 1, k)
    BY <1>3, <1>6
  <2>2. conn' = [conn EXCEPT ![th[t].sock].up = @ \o f, ![th[t].sock].cut = @ \/ begun]
    BY ONLY <1>5, <2>1, Zenon
  <2> DEFINE s == th[t].sock
  <2>3. s \in DOMAIN conn
    BY <1>2, StateFacts
  <2>4. conn' = [conn EXCEPT ![s] = [conn[s] EXCEPT !.up = conn[s].up \o f, !.cut = conn[s].cut \/ begun]]
    <3> HIDE DEF s
    <3> QED BY <2>2, <2>3 DEF s
  <2> QED BY ONLY <2>4, <1>2, <1>7
<1>9. /\ Len(conn') = Len(conn) /\ conn'[th[t].sock] = r2
      /\ \A c \in 1..Len(conn) : c # th[t].sock => conn'[c] = conn[c]
  <2>1. conn \in Seq(Connections)
    BY StateFacts
  <2> QED BY <2>1, <1>2, <1>8, ExceptSeq
<1>10. Raise(t, "timeout")
  BY <1>4
<1>11. /\ th'[t].sock = th[t].sock /\ th'[t].got = <<>> /\ th'[t].pc = "idle"
       /\ \A u \in Threads : u # t => th'[u] = th[u]
  BY <1>10, RaisedThread
<1>12. \/ f = <<>> /\ (begun <=> p > 1)
       \/ Len(f) = 1 /\ begun /\ f[1].msg = m /\ f[1].part = p /\ f[1].half = 1
  <2>1. CASE k = 0
    <3>1. f = <<>>
      BY <2>1, <1>6, EmptySeq
    <3> QED BY <3>1, <2>1, <1>3, <1>5
  <2>2. CASE k = 1
    BY <2>2, <1>5, <1>6
  <2> QED BY <2>1, <2>2
<1>13. Stops(T, th'[t], r, r2, f, begun)
  BY <1>1, <1>2, <1>3, <1>7, <1>11, <1>12 DEF Stops
<1> QED BY <1>1, <1>2, <1>3, <1>5, <1>9, <1>11, <1>13 DEF OnOwn

(* What the invariant says of the state after.                               *)
LEMMA NextFacts ==
  ASSUME SafeInv'
  PROVE  /\ conn' \in Seq(Connections) /\ Len(conn') \in Nat /\ \A c \in 1..Len(conn') : conn'[c] \in Connections
         /\ \A t \in Threads : /\ th'[t] \in ThreadStates
                               /\ th'[t].sock # NoSocket =>
                                    th'[t].sock \in 1..Len(conn') /\ conn'[th'[t].sock].by = t
         /\ calls' \in Seq(Asking) /\ ran' \in Seq(Nat) /\ Len(ran') = Len(calls')
<1>1. /\ conn' \in Seq(Connections) /\ th' \in [Threads -> ThreadStates]
      /\ calls' \in Seq(Asking) /\ ran' \in Seq(Nat) /\ Len(ran') = Len(calls')
  BY DEF SafeInv, TypeInv
<1>2. Len(conn') \in Nat /\ \A c \in 1..Len(conn') : conn'[c] \in Connections
  BY <1>1, LenProperties, ElementOfSeq
<1>3. ASSUME NEW t \in Threads, th'[t].sock # NoSocket
      PROVE  th'[t].sock \in 1..Len(conn') /\ conn'[th'[t].sock].by = t
  <2>1. th'[t].sock \in Nat /\ th'[t].sock # 0
    BY <1>1, <1>3 DEF ThreadStates, NoSocket
  <2>2. th'[t].sock <= Len(conn') /\ conn'[th'[t].sock].by = t
    BY <1>3 DEF SafeInv, Client, Owned
  <2> QED BY <1>2, <2>1, <2>2
<1> QED BY <1>1, <1>2, <1>3

(* A step changes one connection.                                            *)
LEMMA OneConnection ==
  ASSUME SafeInv, NEW c \in 1..Len(conn), NEW r2, conn' = [conn EXCEPT ![c] = r2]
  PROVE  /\ Len(conn') = Len(conn) /\ conn'[c] = r2
         /\ \A k \in 1..Len(conn) : k # c => conn'[k] = conn[k]
<1>1. conn \in Seq(Connections)
  BY StateFacts
<1>2. DOMAIN conn = 1..Len(conn) /\ Len(conn) \in Nat
  BY StateFacts
<1>3. DOMAIN conn' = 1..Len(conn) /\ conn'[c] = r2 /\ \A k \in 1..Len(conn) : k # c => conn'[k] = conn[k]
  BY <1>2
<1>4. conn' = [k \in 1..Len(conn) |-> IF k = c THEN r2 ELSE conn[k]]
  BY <1>2
<1>5. Len(conn') = Len(conn)
  BY <1>2, <1>4
<1> QED BY <1>3, <1>5

\* a connection but for where its server end stands
Refiled(r, r2) ==
  /\ r2.by = r.by /\ r2.open = r.open /\ r2.broken = r.broken /\ r2.mask = r.mask
  /\ r2.up = r.up /\ r2.down = r.down /\ r2.readbuf = r.readbuf /\ r2.packetbuf = r.packetbuf
  /\ r2.recordbuf = r.recordbuf /\ r2.writebuf = r.writebuf /\ r2.cut = r.cut /\ r2.torn = r.torn
  /\ r2.fd # "gone" => r.fd # "gone"

(* An event that moves no bytes.                                             *)
LEMMA FdCases ==
  ASSUME SafeInv, NEW c \in 1..Len(conn), EventNewClient(c) \/ ReadEnd(c) \/ EventHup(c)
  PROVE  /\ UNCHANGED <<xid, lockLost, th, xidlist, calls, ran, faults>> /\ (alive' => alive)
         /\ Len(conn') = Len(conn) /\ Refiled(conn[c], conn'[c])
         /\ \A k \in 1..Len(conn) : k # c => conn'[k] = conn[k]
<1>1. PICK f \in {"open", "gone"} :
        conn' = [conn EXCEPT ![c] = [conn[c] EXCEPT !.fd = f]] /\ (f = "open" => conn[c].fd = "new")
  BY DEF EventNewClient, ReadEnd, EventHup
<1>2. UNCHANGED <<xid, lockLost, th, xidlist, calls, ran, faults>> /\ (alive' => alive)
  BY DEF EventNewClient, ReadEnd, EventHup, Serving
<1> DEFINE r2 == [conn[c] EXCEPT !.fd = f]
<1>3. conn[c] \in Connections
  BY StateFacts
<1>4. Refiled(conn[c], r2)
  BY <1>1, <1>3 DEF Connections, Refiled
<1>5. conn' = [conn EXCEPT ![c] = r2]
  BY <1>1
<1> HIDE DEF r2
<1> QED BY <1>2, <1>4, <1>5, OneConnection

(* A reset.                                                                  *)
LEMMA BreakCases ==
  ASSUME SafeInv, NEW c \in 1..Len(conn), Break(c)
  PROVE  /\ UNCHANGED <<xid, lockLost, th, xidlist, alive, calls, ran>>
         /\ Len(conn') = Len(conn) /\ conn'[c].broken /\ conn'[c].by = conn[c].by
         /\ \A k \in 1..Len(conn) : k # c => conn'[k] = conn[k]
<1> DEFINE r2 == [conn[c] EXCEPT !.broken = TRUE, !.up = <<>>, !.down = <<>>]
<1>1. UNCHANGED <<xid, lockLost, th, xidlist, alive, calls, ran>>
  BY DEF Break
<1>2. r2.by = conn[c].by /\ r2.broken
  <2>1. conn[c] \in Connections
    BY StateFacts
  <2> QED BY <2>1 DEF Connections
<1>3. conn' = [conn EXCEPT ![c] = r2]
  BY DEF Break
<1> HIDE DEF r2
<1> QED BY <1>1, <1>2, <1>3, OneConnection

-----------------------------------------------------------------------------
(* Whose business a call is.                                                 *)

(* A message that a thread has is one of the calls made.                     *)
LEMMA HeldMessages ==
  ASSUME SafeInv, NEW t \in Threads, NEW m \in Held(th[t], xidlist[t])
  PROVE  m \in Messages /\ m.no \in 1..Len(calls)
<1>1. List(xidlist[t]) /\ Client(th[t], xidlist[t], Len(calls), Len(conn), CutBy(t))
  BY ThreadFacts
<1>2. CASE \E x \in DOMAIN xidlist[t] : m = xidlist[t][x].msg
  BY <1>1, <1>2 DEF List, Entries, Client
<1>3. CASE th[t].pc \notin {"idle", "listen"} /\ m = th[t].msg
  BY <1>1, <1>3 DEF Client
<1> QED BY <1>2, <1>3 DEF Held

(* What is to be shown of a step of one thread.                              *)
LEMMA HeldStep ==
  ASSUME SafeInv, HeldInv, NEW t \in Threads,
         \A n \in 1..Len(calls) : calls'[n].by = calls[n].by,
         \A u \in Threads : u # t => th'[u] = th[u] /\ xidlist'[u] = xidlist[u],
         \A m \in Held(th'[t], xidlist'[t]) : m \in Held(th[t], xidlist[t]) \/ calls'[m.no].by = t
  PROVE  HeldInv'
<1> SUFFICES ASSUME NEW u \in Threads, NEW m \in Held(th'[u], xidlist'[u])
             PROVE  calls'[m.no].by = u
  BY DEF HeldInv
<1>1. ASSUME m \in Held(th[u], xidlist[u]) PROVE calls'[m.no].by = u
  <2>1. m.no \in 1..Len(calls) /\ calls[m.no].by = u
    BY <1>1, HeldMessages DEF HeldInv
  <2> QED BY <2>1
<1> QED BY <1>1

(* A list holds the calls it held, and that of its thread.                   *)
LEMMA ListsHold ==
  ASSUME NEW T, NEW X, NEW X2, NEW m, NEW x,
         \/ X2 = X
         \/ T.pc \notin {"idle", "listen"} /\ X2 = With(X, x, [msg |-> T.msg, rdata |-> None, on |-> m])
         \/ X2 = Without(X, x)
         \/ X2 = [X EXCEPT ![x].rdata = m]
         \/ X2 = [X EXCEPT ![x].on = m]
  PROVE  \A z \in DOMAIN X2 : X2[z].msg \in Held(T, X)
<1> SUFFICES ASSUME NEW z \in DOMAIN X2 PROVE X2[z].msg \in Held(T, X)
  OBVIOUS
<1>1. CASE X2 = X
  BY <1>1 DEF Held
<1>2. CASE T.pc \notin {"idle", "listen"} /\ X2 = With(X, x, [msg |-> T.msg, rdata |-> None, on |-> m])
  <2>1. z = x \/ (z \in DOMAIN X /\ X2[z] = X[z])
    BY <1>2 DEF With
  <2>2. CASE z = x
    <3>1. X2[z] = [msg |-> T.msg, rdata |-> None, on |-> m]
      BY <1>2, <2>2 DEF With
    <3> QED BY <3>1, <1>2 DEF Held
  <2> QED BY <2>1, <2>2 DEF Held
<1>3. CASE X2 = Without(X, x)
  BY <1>3 DEF Without, Held
<1>4. CASE X2 = [X EXCEPT ![x].rdata = m]
  <2>1. z \in DOMAIN X /\ X2[z].msg = X[z].msg
    BY <1>4
  <2> QED BY <2>1 DEF Held
<1>5. CASE X2 = [X EXCEPT ![x].on = m]
  <2>1. z \in DOMAIN X /\ X2[z].msg = X[z].msg
    BY <1>5
  <2> QED BY <2>1 DEF Held
<1> QED BY <1>1, <1>2, <1>3, <1>4, <1>5

(* What a new call is, and to whom.                                          *)
LEMMA SendCalls ==
  ASSUME SafeInv, NEW t \in Threads, Send(t)
  PROVE  /\ conn' = conn /\ xidlist' = xidlist /\ th'[t].sock = th[t].sock
         /\ th'[t].pc = "send" /\ th'[t].msg.no = Len(calls) + 1 /\ th'[t].part = 1
         /\ calls' = Append(calls, [by |-> t, sent |-> 0, cut |-> FALSE]) /\ ran' = Append(ran, 0)
         /\ Len(calls) \in Nat /\ Len(calls') = Len(calls) + 1
         /\ calls'[Len(calls) + 1] = [by |-> t, sent |-> 0, cut |-> FALSE] /\ ran'[Len(calls) + 1] = 0
         /\ \A n \in 1..Len(calls) : calls'[n] = calls[n] /\ ran'[n] = ran[n]
         /\ \A u \in Threads : CutBy(u)' = CutBy(u)
<1> DEFINE a == [by |-> t, sent |-> 0, cut |-> FALSE]
<1>1. /\ conn' = conn /\ xidlist' = xidlist /\ calls' = Append(calls, a) /\ ran' = Append(ran, 0)
      /\ th[t] \in ThreadStates
  BY ThreadFacts DEF Send
<1>2. /\ calls \in Seq(Asking) /\ ran \in Seq(Nat) /\ Len(ran) = Len(calls) /\ Len(calls) \in Nat
      /\ a \in Asking
  BY StateFacts DEF Asking
<1> HIDE DEF a
<1>3. /\ Len(calls') = Len(calls) + 1 /\ calls'[Len(calls) + 1] = a /\ calls' \in Seq(Asking)
      /\ \A n \in 1..Len(calls) : calls'[n] = calls[n]
  BY <1>1, <1>2, AppendProperties
<1>4. ran'[Len(calls) + 1] = 0 /\ \A n \in 1..Len(calls) : ran'[n] = ran[n]
  BY <1>1, <1>2, AppendProperties
<1> DEFINE k == Len(calls')
           m == [no |-> k, xid |-> xid', frags |-> Sizes[k][1], back |-> Sizes[k][2]]
<1>5. th' = [th EXCEPT ![t] = [Entered(th[t]) EXCEPT !.pc = "send", !.msg = m, !.part = 1]]
  BY DEF Send, Become
<1>5a. m.no = Len(calls')
  OBVIOUS
<1> HIDE DEF m
<1> DEFINE T2 == [Entered(th[t]) EXCEPT !.pc = "send", !.msg = m, !.part = 1]
<1>6. T2.sock = th[t].sock /\ T2.pc = "send" /\ T2.part = 1 /\ T2.msg = m
  BY <1>1, EnteredFields DEF ThreadStates
<1> HIDE DEF T2
<1>7. th'[t] = T2
  <2>1. th' = [th EXCEPT ![t] = T2]
    BY <1>5 DEF T2
  <2> QED BY <2>1, OneThread
<1>8. \A u \in Threads : CutBy(u)' = CutBy(u)
  <2>1. \A n \in 1..Len(calls') : n \notin 1..Len(calls) => n = Len(calls) + 1
    BY <1>2, <1>3
  <2>2. ~a.cut
    BY DEF a
  <2>3. Len(calls) <= Len(calls')
    BY <1>2, <1>3
  <2> QED BY <1>2, <1>3, <2>1, <2>2, <2>3, CutsKept
<1> QED BY <1>1, <1>2, <1>3, <1>4, <1>5a, <1>6, <1>7, <1>8 DEF a

(* What a fragment does to the calls.                                        *)
LEMMA FragmentCalls ==
  ASSUME SafeInv, NEW t \in Threads, SendFragment(t)
  PROVE  /\ Len(calls') = Len(calls) /\ Len(calls) \in Nat /\ th[t].msg.no \in 1..Len(calls)
         /\ \A n \in 1..Len(calls) :
              /\ calls[n] \in Asking /\ calls'[n].by = calls[n].by /\ calls'[n].cut = calls[n].cut
              /\ calls'[n].sent = IF n = th[t].msg.no /\ th[t].part = th[t].msg.frags
                                  THEN calls[n].sent + 1 ELSE calls[n].sent
         /\ \A u \in Threads : CutBy(u)' = CutBy(u)
<1> DEFINE no == th[t].msg.no
           last == th[t].part = th[t].msg.frags
<1>1. calls' = (IF last THEN [calls EXCEPT ![no].sent = @ + 1] ELSE calls) /\ no \in 1..Len(calls)
  BY CasesSendFragment
<1>2. calls \in Seq(Asking) /\ DOMAIN calls = 1..Len(calls) /\ Len(calls) \in Nat
  BY StateFacts, LenProperties
<1>3. PICK a \in Asking : a = calls[no]
  BY <1>1, <1>2, ElementOfSeq
<1> HIDE DEF no, last
<1>4. PICK a2 \in Asking :
        /\ last => a2 = [a EXCEPT !.sent = @ + 1] /\ a2.sent = a.sent + 1
        /\ ~last => a2 = a
        /\ a2.by = a.by /\ a2.cut = a.cut
  <2>1. CASE last
    <3>1. PICK a2 : a2 = [a EXCEPT !.sent = @ + 1]
      OBVIOUS
    <3>2. a2 \in Asking /\ a2.by = a.by /\ a2.cut = a.cut /\ a2.sent = a.sent + 1
      BY <3>1 DEF Asking
    <3> QED BY <2>1, <3>1, <3>2
  <2>2. CASE ~last
    BY <2>2
  <2> QED BY <2>1, <2>2
<1>5. calls' = [calls EXCEPT ![no] = a2]
  <2>1. CASE last
    BY <2>1, <1>1, <1>3, <1>4
  <2>2. CASE ~last
    BY <2>2, <1>1, <1>2, <1>3, <1>4
  <2> QED BY <2>1, <2>2
<1>6. /\ calls' \in Seq(Asking) /\ Len(calls') = Len(calls) /\ calls'[no] = a2
      /\ \A n \in 1..Len(calls) : n # no => calls'[n] = calls[n]
  BY ONLY <1>1, <1>2, <1>4, <1>5, ExceptSeq
<1>7. \A n \in 1..Len(calls) :
        /\ calls[n] \in Asking /\ calls'[n].by = calls[n].by /\ calls'[n].cut = calls[n].cut
        /\ calls'[n].sent = IF n = no /\ last THEN calls[n].sent + 1 ELSE calls[n].sent
  <2> SUFFICES ASSUME NEW n \in 1..Len(calls)
               PROVE  /\ calls[n] \in Asking /\ calls'[n].by = calls[n].by /\ calls'[n].cut = calls[n].cut
                      /\ calls'[n].sent = IF n = no /\ last THEN calls[n].sent + 1 ELSE calls[n].sent
    OBVIOUS
  <2>1. calls[n] \in Asking
    BY <1>2, ElementOfSeq
  <2>2. CASE n = no
    BY <2>1, <2>2, <1>3, <1>4, <1>6
  <2>3. CASE n # no
    BY <2>1, <2>3, <1>6
  <2> QED BY <2>2, <2>3
<1>8. Len(calls) <= Len(calls') /\ \A n \in 1..Len(calls') : n \notin 1..Len(calls) => ~calls'[n].cut
  BY <1>2, <1>6
<1>9. \A u \in Threads : CutBy(u)' = CutBy(u)
  BY <1>2, <1>6, <1>7, <1>8, CutsKept
<1> QED BY <1>1, <1>2, <1>6, <1>7, <1>9 DEF no, last

(* What is left of a first send that times out.                              *)
LEMMA StopCalls ==
  ASSUME SafeInv, NEW t \in Threads, SendTimeout(t), th[t].pc = "send", NEW begun \in BOOLEAN,
         calls' = [calls EXCEPT ![th[t].msg.no].cut = begun]
  PROVE  /\ Len(calls') = Len(calls) /\ Len(calls) \in Nat /\ th[t].msg.no \in 1..Len(calls)
         /\ \A n \in 1..Len(calls) :
              /\ calls[n] \in Asking /\ calls'[n].by = calls[n].by /\ calls'[n].sent = calls[n].sent
              /\ IF n = th[t].msg.no THEN ~calls[n].cut /\ calls'[n].cut = begun
                 ELSE calls'[n].cut = calls[n].cut
         /\ CutBy(t)' = CutBy(t) \union (IF begun THEN {th[t].msg.no} ELSE {})
         /\ \A u \in Threads : u # t => CutBy(u)' = CutBy(u)
<1> DEFINE no == th[t].msg.no
<1>1. no \in 1..Len(calls) /\ no \notin CutBy(t) /\ calls[no].by = t
  BY ThreadFacts DEF Client, Caller
<1>2. calls \in Seq(Asking) /\ DOMAIN calls = 1..Len(calls) /\ Len(calls) \in Nat
  BY StateFacts, LenProperties
<1>3. PICK a \in Asking : a = calls[no]
  BY <1>1, <1>2, ElementOfSeq
<1>4. PICK a2 : a2 = [a EXCEPT !.cut = begun]
  OBVIOUS
<1>5. a2 \in Asking /\ a2.by = a.by /\ a2.cut = begun /\ a2.sent = a.sent
  BY <1>4 DEF Asking
<1>6. calls' = [calls EXCEPT ![no] = a2]
  BY <1>3, <1>4
<1>7. Len(calls') = Len(calls) /\ calls'[no] = a2 /\ \A n \in 1..Len(calls) : n # no => calls'[n] = calls[n]
  <2> HIDE DEF no
  <2> QED BY ONLY <1>1, <1>2, <1>5, <1>6, ExceptSeq
<1>8. ~a.cut
  BY <1>1, <1>2, <1>3 DEF CutBy
<1> HIDE DEF no
<1>9. \A n \in 1..Len(calls) :
        /\ calls[n] \in Asking /\ calls'[n].by = calls[n].by /\ calls'[n].sent = calls[n].sent
        /\ IF n = no THEN ~calls[n].cut /\ calls'[n].cut = begun ELSE calls'[n].cut = calls[n].cut
  <2> SUFFICES ASSUME NEW n \in 1..Len(calls)
               PROVE  /\ calls[n] \in Asking /\ calls'[n].by = calls[n].by /\ calls'[n].sent = calls[n].sent
                      /\ IF n = no THEN ~calls[n].cut /\ calls'[n].cut = begun
                         ELSE calls'[n].cut = calls[n].cut
    OBVIOUS
  <2>1. calls[n] \in Asking
    BY <1>2, ElementOfSeq
  <2>2. CASE n = no
    BY <2>1, <2>2, <1>3, <1>5, <1>7, <1>8
  <2>3. CASE n # no
    BY <2>1, <2>3, <1>7
  <2> QED BY <2>2, <2>3
<1>10. /\ CutBy(t)' = CutBy(t) \union (IF begun THEN {no} ELSE {})
       /\ \A u \in Threads : u # t => CutBy(u)' = CutBy(u)
  BY CutMade DEF no
<1> QED BY <1>1, <1>2, <1>7, <1>9, <1>10 DEF no

(* No step makes a call another thread's.                                    *)
LEMMA HeldNext == SafeInv /\ HeldInv /\ [Next]_vars => HeldInv'
<1> SUFFICES ASSUME SafeInv, HeldInv, [Next]_vars PROVE HeldInv'
  OBVIOUS
<1>1. ASSUME NEW t \in Threads, ClientNext(t) PROVE HeldInv'
  <2>1. CASE Send(t)
    <3>1. \A u \in Threads : u # t => th'[u] = th[u] /\ xidlist'[u] = xidlist[u]
      BY <2>1, CasesSend DEF ClientRest
    <3>2. /\ xidlist' = xidlist /\ th'[t].msg.no = Len(calls) + 1
          /\ calls'[Len(calls) + 1] = [by |-> t, sent |-> 0, cut |-> FALSE]
          /\ \A n \in 1..Len(calls) : calls'[n].by = calls[n].by
      BY <2>1, SendCalls
    <3>3. \A m \in Held(th'[t], xidlist'[t]) : m \in Held(th[t], xidlist[t]) \/ calls'[m.no].by = t
      BY <3>2 DEF Held
    <3> QED BY <3>1, <3>2, <3>3, HeldStep
  <2>2. CASE SendFragment(t)
    <3>1. /\ \A u \in Threads : u # t => th'[u] = th[u] /\ xidlist'[u] = xidlist[u]
          /\ \A n \in 1..Len(calls) : calls'[n].by = calls[n].by
      BY <2>2, CasesSendFragment, FragmentCalls
    <3>2. Sends(th[t], th'[t], xidlist[t], xidlist'[t], conn[th[t].sock], conn'[th[t].sock])
      BY <2>2, CasesSendFragment
    <3>3. /\ th[t].pc \notin {"idle", "listen"} /\ th'[t].msg = th[t].msg
          /\ \/ xidlist'[t] = xidlist[t]
             \/ xidlist'[t] = [xidlist[t] EXCEPT ![th[t].msg.xid].on = th[t].sock]
      BY <3>2 DEF Sends, IsSending
    <3>4. \A z \in DOMAIN xidlist'[t] : xidlist'[t][z].msg \in Held(th[t], xidlist[t])
      BY <3>3, ListsHold
    <3>5. \A m \in Held(th'[t], xidlist'[t]) : m \in Held(th[t], xidlist[t])
      BY <3>3, <3>4 DEF Held
    <3> QED BY <3>1, <3>5, HeldStep
  <2>3. CASE SendTimeout(t) /\ th[t].pc = "send"
    <3>1. PICK f \in Seq(Pieces), begun \in BOOLEAN :
            /\ calls' = [calls EXCEPT ![th[t].msg.no].cut = begun]
            /\ Stops(th[t], th'[t], conn[th[t].sock], conn'[th[t].sock], f, begun)
      BY <2>3, CasesStop
    <3>2. /\ \A u \in Threads : u # t => th'[u] = th[u]
          /\ xidlist' = xidlist /\ th'[t].pc = "idle"
      BY <2>3, <3>1, CasesStop DEF Stops
    <3>3. \A n \in 1..Len(calls) : calls'[n].by = calls[n].by
      BY <2>3, <3>1, StopCalls
    <3>4. \A m \in Held(th'[t], xidlist'[t]) : m \in Held(th[t], xidlist[t])
      BY <3>2 DEF Held
    <3> QED BY <3>2, <3>3, <3>4, HeldStep
  <2>4. CASE ~Writes(t) /\ ~Send(t)
    <3>1. /\ \A u \in Threads : u # t => th'[u] = th[u] /\ xidlist'[u] = xidlist[u]
          /\ calls' = calls
      BY <1>1, <2>4, ClientCases DEF ClientRest
    <3>2. CASE Moved(t)
      BY <3>1, <3>2, HeldStep DEF Moved, Held
    <3>3. CASE Quiet(t)
      <4>1. \A z \in DOMAIN xidlist'[t] : xidlist'[t][z].msg \in Held(th[t], xidlist[t])
        BY <3>3, ListsHold DEF Quiet, Lists
      <4>2. th'[t].pc \in {"idle", "listen"}
        BY <3>3, <2>4 DEF Quiet
      <4> QED BY <4>1, <4>2, <3>1, HeldStep DEF Held
    <3>4. CASE Reads(th[t], th'[t], xidlist[t], xidlist'[t], conn[th[t].sock], conn'[th[t].sock])
      <4>1. \A z \in DOMAIN xidlist'[t] : xidlist'[t][z].msg \in Held(th[t], xidlist[t])
        <5> DEFINE m == Append(th[t].got, Head(conn[th[t].sock].down))[1].msg
        <5>1. \/ xidlist'[t] = xidlist[t] \/ xidlist'[t] = Without(xidlist[t], m.xid)
              \/ xidlist'[t] = [xidlist[t] EXCEPT ![m.xid].rdata = m]
          BY <3>4 DEF Reads, Delivers
        <5> HIDE DEF m
        <5> QED BY <5>1, ListsHold
      <4>2. th'[t].pc \in {"idle", "listen"} \/ (th'[t].pc = th[t].pc /\ th'[t].msg = th[t].msg)
        BY <3>4 DEF Reads
      <4> QED BY <4>1, <4>2, <3>1, HeldStep DEF Held
    <3>5. CASE Misreads(th[t], th'[t], xidlist[t], xidlist'[t], conn[th[t].sock])
      BY <3>1, <3>5, HeldStep DEF Misreads, Held
    <3> QED BY <1>1, <2>4, <3>2, <3>3, <3>4, <3>5, ClientCases
  <2> QED BY <2>1, <2>2, <2>3, <2>4 DEF Writes
<1>2. ASSUME UNCHANGED <<th, xidlist, calls>> PROVE HeldInv'
  BY <1>2 DEF HeldInv
<1>3. ASSUME NEW c \in 1..Len(conn), ServerNext(c) \/ Break(c) PROVE UNCHANGED <<th, xidlist, calls>>
  BY <1>3 DEF ServerNext, Break, EventNewClient, ReadData, ReadEnd, EventWrite, EventHup
<1>4. DOMAIN conn = 1..Len(conn)
  BY StateFacts
<1> QED BY <1>1, <1>2, <1>3, <1>4 DEF Next, vars

-----------------------------------------------------------------------------
(* Where the pieces of a call are.                                           *)

\* nothing is asked that was not asked before
StillAsks(cs, cs2) ==
  \A c \in 1..Len(cs2) : ~cs2[c].broken =>
    \A y \in Range(Asked(cs2[c])) :
      c \in 1..Len(cs) /\ ~cs[c].broken /\ y \in Range(Asked(cs[c]))
\* but for what is written of m on connection s
AsksOnly(cs, cs2, s, m) ==
  \A c \in 1..Len(cs2) : ~cs2[c].broken =>
    \A y \in Range(Asked(cs2[c])) :
      \/ c \in 1..Len(cs) /\ ~cs[c].broken /\ y \in Range(Asked(cs[c]))
      \/ c = s /\ y.msg = m

(* Nothing is asked on a new connection.                                     *)
LEMMA NothingAsked ==
  ASSUME NEW t \in Threads
  PROVE  Asked(Connection(t)) = <<>> /\ \A y : y \notin Range(Asked(Connection(t)))
<1>1. PICK e \in Seq(Pieces) : e = <<>>
  BY EmptySeq
<1>2. Asked(Connection(t)) = e
  <2>1. e \o e = e
    BY ConcatEmptySeq, <1>1
  <2> QED BY <2>1, <1>1, NewConnection DEF Asked
<1> QED BY <1>1, <1>2, EmptyRange

(* A client that sends nothing asks nothing new.                             *)
LEMMA ClientStillAsks ==
  ASSUME SafeInv, NEW t \in Threads, CarriesOn(t)
  PROVE  StillAsks(conn, conn')
<1> SUFFICES ASSUME NEW c \in 1..Len(conn'), ~conn'[c].broken, NEW y \in Range(Asked(conn'[c]))
             PROVE  c \in 1..Len(conn) /\ ~conn[c].broken /\ y \in Range(Asked(conn[c]))
  BY DEF StillAsks
<1>1. CASE c \in 1..Len(conn)
  <2>1. Kept(conn[c], conn'[c])
    BY <1>1 DEF CarriesOn
  <2> QED BY <2>1, <1>1 DEF Kept, Asked
<1>2. CASE c \notin 1..Len(conn)
  <2>1. conn'[c] = Connection(t)
    BY <1>2 DEF CarriesOn
  <2> QED BY <2>1, NothingAsked
<1> QED BY <1>1, <1>2

(* What a client writes is on its own connection, and of one call.           *)
LEMMA WritesAsk ==
  ASSUME SafeInv, NEW t \in Threads, Writes(t)
  PROVE  /\ AsksOnly(conn, conn', th[t].sock, th[t].msg)
         /\ th[t].pc \notin {"idle", "listen"} /\ th'[t].sock = th[t].sock
         /\ th'[t].pc = "send" => th[t].pc = "send" /\ th'[t].msg = th[t].msg
         /\ \A u \in Threads : u # t => th'[u] = th[u]
<1> DEFINE s == th[t].sock
           m == th[t].msg
<1>1. ASSUME /\ s \in 1..Len(conn) /\ Len(conn') = Len(conn)
             /\ \A c \in 1..Len(conn) : c # s => conn'[c] = conn[c]
             /\ conn'[s].broken = conn[s].broken,
             NEW f \in Seq(Pieces), Asked(conn'[s]) = Asked(conn[s]) \o f, \A y \in Range(f) : y.msg = m
      PROVE  AsksOnly(conn, conn', s, m)
  <2>1. Asked(conn[s]) \in Seq(Pieces)
    BY <1>1, StateFacts, AskedType
  <2>2. \A y : y \in Range(Asked(conn'[s])) <=> y \in Range(Asked(conn[s])) \/ y \in Range(f)
    BY <1>1, <2>1, RangeOfConcat
  <2> HIDE DEF s, m
  <2> QED BY <1>1, <2>2 DEF AsksOnly
<1>2. CASE SendFragment(t)
  <2>1. /\ OnOwn(t) /\ Len(conn') = Len(conn)
        /\ \A c \in 1..Len(conn) : c # s => conn'[c] = conn[c]
        /\ \A u \in Threads : u # t => th'[u] = th[u]
        /\ Sends(th[t], th'[t], xidlist[t], xidlist'[t], conn[s], conn'[s])
    BY <1>2, CasesSendFragment
  <2>2. PICK r \in Connections : r = conn[s] /\ s \in 1..Len(conn)
    BY <2>1, ThreadFacts, StateFacts DEF OnOwn
  <2>3. /\ m \in Messages /\ th[t].part \in 1..m.frags /\ th[t].pc \notin {"idle", "listen"}
        /\ conn'[s].packetbuf = r.packetbuf /\ conn'[s].readbuf = r.readbuf
        /\ conn'[s].up = r.up \o Fragment(m, th[t].part) /\ conn'[s].broken = r.broken
        /\ th'[t].pc = "send" => th[t].pc = "send" /\ th'[t].msg = th[t].msg
    BY <2>1, <2>2 DEF Sends, IsSending
  <2>4. m.frags \in Nat
    BY <2>3, MessageSizes
  <2>5. PICK p \in Nat \ {0} : p = th[t].part
    BY <2>3, <2>4
  <2>6. Fragment(m, p) \in Seq(Pieces) /\ \A y \in Range(Fragment(m, p)) : y.msg = m
    BY <2>3, FragmentPieces
  <2>7. Asked(conn'[s]) = Asked(r) \o Fragment(m, p)
    <3>1. PICK f \in Seq(Pieces) : f = Fragment(m, p)
      BY <2>6
    <3>2. r.packetbuf \in Seq(Pieces) /\ r.readbuf \in Seq(Pieces) /\ r.up \in Seq(Pieces)
      BY ConnectionFields
    <3>3. PICK a \in Seq(Pieces), u \in Seq(Pieces) : a = r.packetbuf \o r.readbuf /\ u = r.up
      BY <3>2, Concatenated
    <3>4. (a \o u) \o f = a \o (u \o f)
      BY Associative, Zenon
    <3> QED BY <3>1, <3>3, <3>4, <2>3, <2>5 DEF Asked
  <2>8. AsksOnly(conn, conn', s, m)
    BY <1>1, <2>1, <2>2, <2>3, <2>6, <2>7
  <2> QED BY <2>1, <2>3, <2>8 DEF OnOwn
<1>3. CASE SendTimeout(t) /\ th[t].pc = "send"
  <2>1. /\ OnOwn(t) /\ Len(conn') = Len(conn)
        /\ \A c \in 1..Len(conn) : c # s => conn'[c] = conn[c]
        /\ \A u \in Threads : u # t => th'[u] = th[u]
    BY <1>3, CasesStop
  <2>2. PICK f \in Seq(Pieces), begun \in BOOLEAN : Stops(th[t], th'[t], conn[s], conn'[s], f, begun)
    BY <1>3, CasesStop
  <2>3. PICK r \in Connections : r = conn[s] /\ s \in 1..Len(conn)
    BY <2>1, ThreadFacts, StateFacts DEF OnOwn
  <2>4. /\ conn'[s].packetbuf = r.packetbuf /\ conn'[s].readbuf = r.readbuf
        /\ conn'[s].up = r.up \o f /\ conn'[s].broken = r.broken /\ th'[t].pc = "idle"
        /\ f = <<>> \/ (Len(f) = 1 /\ f[1].msg = m)
    BY <2>2, <2>3 DEF Stops
  <2>5. \A y \in Range(f) : y.msg = m
    <3>1. CASE f = <<>>
      BY <3>1, EmptyRange
    <3>2. CASE Len(f) = 1 /\ f[1].msg = m
      BY <3>2, InRange
    <3> QED BY <2>4, <3>1, <3>2
  <2>6. Asked(conn'[s]) = Asked(r) \o f
    <3>1. PICK a \in Seq(Pieces), u \in Seq(Pieces) : a = r.packetbuf \o r.readbuf /\ u = r.up
      BY ConnectionFields, Concatenated
    <3>2. (a \o u) \o f = a \o (u \o f)
      BY Associative, Zenon
    <3> QED BY <3>1, <3>2, <2>4 DEF Asked
  <2>7. AsksOnly(conn, conn', s, m)
    BY <1>1, <2>1, <2>3, <2>4, <2>5, <2>6
  <2> QED BY <2>1, <2>4, <2>7, <1>3 DEF OnOwn
<1> QED BY <1>2, <1>3 DEF Writes

(* What is being sent first stays on its connection.                         *)
LEMMA AloneStep ==
  ASSUME AloneInv, StillAsks(conn, conn'),
         \A u \in Threads : th'[u].pc = "send" =>
           th[u].pc = "send" /\ th'[u].msg = th[u].msg /\ th'[u].sock = th[u].sock
  PROVE  AloneInv'
<1> SUFFICES ASSUME NEW u \in Threads, th'[u].pc = "send",
                    NEW c \in 1..Len(conn'), c # th'[u].sock, ~conn'[c].broken,
                    NEW y \in Range(Asked(conn'[c]))
             PROVE  y.msg # th'[u].msg
  BY DEF AloneInv, Asked
<1>1. c \in 1..Len(conn) /\ ~conn[c].broken /\ y \in Range(Asked(conn[c]))
  BY DEF StillAsks
<1> QED BY <1>1 DEF AloneInv

(* And as a new call is sent.                                                *)
LEMMA AloneSend ==
  ASSUME SafeInv, AloneInv, NEW t \in Threads, Send(t)
  PROVE  AloneInv'
<1>1. /\ conn' = conn /\ th'[t].sock = th[t].sock /\ th'[t].msg.no = Len(calls) + 1 /\ Len(calls) \in Nat
      /\ \A u \in Threads : u # t => th'[u] = th[u]
  BY SendCalls, CasesSend DEF ClientRest
<1> SUFFICES ASSUME NEW u \in Threads, th'[u].pc = "send",
                    NEW c \in 1..Len(conn), c # th'[u].sock, ~conn[c].broken,
                    NEW y \in Range(Asked(conn[c]))
             PROVE  y.msg # th'[u].msg
  BY <1>1 DEF AloneInv, Asked
<1>2. CASE u = t
  <2>1. y.msg.no <= Len(calls) /\ y.msg \in Messages
    <3>1. Asked(conn[c]) \in Seq(Pieces) /\ Asks(conn[c], Len(calls))
      BY StateFacts, AskedType
    <3> QED BY <3>1, InRange, PlaceOfPiece DEF Asks
  <2>2. y.msg.no \in 1..Len(Sizes)
    BY <2>1, MessageSizes
  <2> QED BY <2>1, <2>2, <1>1, <1>2, ConstantTypes
<1>3. CASE u # t
  BY <1>1, <1>3 DEF AloneInv
<1> QED BY <1>2, <1>3

(* And as another thread writes.                                             *)
LEMMA AloneWrites ==
  ASSUME SafeInv, HeldInv, AloneInv, NEW t \in Threads, Writes(t)
  PROVE  AloneInv'
<1>1. /\ AsksOnly(conn, conn', th[t].sock, th[t].msg)
      /\ th[t].pc \notin {"idle", "listen"} /\ th'[t].sock = th[t].sock
      /\ th'[t].pc = "send" => th[t].pc = "send" /\ th'[t].msg = th[t].msg
      /\ \A u \in Threads : u # t => th'[u] = th[u]
  BY WritesAsk
<1> SUFFICES ASSUME NEW u \in Threads, th'[u].pc = "send",
                    NEW c \in 1..Len(conn'), c # th'[u].sock, ~conn'[c].broken,
                    NEW y \in Range(Asked(conn'[c])), y.msg = th'[u].msg
             PROVE  FALSE
  BY DEF AloneInv, Asked
<1>2. th[u].pc = "send" /\ th'[u].msg = th[u].msg /\ th'[u].sock = th[u].sock
  BY <1>1
<1>3. \/ c \in 1..Len(conn) /\ ~conn[c].broken /\ y \in Range(Asked(conn[c]))
      \/ c = th[t].sock /\ y.msg = th[t].msg
  BY <1>1 DEF AsksOnly
<1>4. CASE c \in 1..Len(conn) /\ ~conn[c].broken /\ y \in Range(Asked(conn[c]))
  BY <1>2, <1>4 DEF AloneInv
<1>5. CASE c = th[t].sock /\ y.msg = th[t].msg
  <2>1. u # t
    BY <1>1, <1>2, <1>5
  <2>2. th[t].msg \in Held(th[t], xidlist[t]) /\ th[u].msg \in Held(th[u], xidlist[u])
    BY <1>1, <1>2 DEF Held
  <2>3. calls[th[t].msg.no].by = t /\ calls[th[u].msg.no].by = u
    BY <2>2 DEF HeldInv
  <2> QED BY <2>1, <2>3, <1>2, <1>5
<1> QED BY <1>3, <1>4, <1>5

-----------------------------------------------------------------------------
(* How often a call runs.                                                    *)

(* A message is known by its number.                                         *)
LEMMA SameNumber ==
  ASSUME NEW m \in Messages, NEW m2 \in Messages, m.no = m2.no
  PROVE  m = m2
BY MessageSizes

(* The connections a call is on are finitely many.                           *)
LEMMA CarriedFinite ==
  ASSUME NEW cs \in Seq(Connections), NEW a, NEW n
  PROVE  /\ IsFiniteSet(CarriedOn(cs, a, n)) /\ Cardinality(CarriedOn(cs, a, n)) \in Nat
         /\ \A S : S \subseteq CarriedOn(cs, a, n) =>
              /\ IsFiniteSet(S) /\ Cardinality(S) \in Nat
              /\ Cardinality(S) <= Cardinality(CarriedOn(cs, a, n))
<1>1. Len(cs) \in Int /\ 1 \in Int
  BY LenProperties
<1>2. IsFiniteSet(1..Len(cs))
  BY <1>1, FS_Interval
<1>3. CarriedOn(cs, a, n) \in SUBSET (1..Len(cs))
  BY DEF CarriedOn
<1>4. IsFiniteSet(CarriedOn(cs, a, n))
  BY <1>2, <1>3, FS_Subset
<1> QED BY <1>4, FS_Subset, FS_CardinalityType

(* A step that asks nothing new of a call leaves it on no more of them.      *)
LEMMA CarriedLess ==
  ASSUME NEW cs \in Seq(Connections), NEW cs2 \in Seq(Connections), NEW a, NEW a2, NEW n,
         NEW s, NEW m, AsksOnly(cs, cs2, s, m), m.no # n, a2.cut = a.cut
  PROVE  /\ CarriedOn(cs2, a2, n) \subseteq CarriedOn(cs, a, n)
         /\ Cardinality(CarriedOn(cs, a, n)) \in Nat /\ Cardinality(CarriedOn(cs2, a2, n)) \in Nat
         /\ Cardinality(CarriedOn(cs2, a2, n)) <= Cardinality(CarriedOn(cs, a, n))
<1>1. CarriedOn(cs2, a2, n) \subseteq CarriedOn(cs, a, n)
  BY DEF CarriedOn, AsksOnly
<1> QED BY <1>1, CarriedFinite

(* The counts are numbers.                                                   *)
LEMMA RanTypes ==
  ASSUME SafeInv, NEW n \in 1..Len(calls)
  PROVE  ran[n] \in Nat /\ calls[n] \in Asking /\ calls[n].sent \in Nat /\ Due(calls[n]) \in Nat
         /\ Due(calls[n]) = calls[n].sent + (IF calls[n].cut THEN 1 ELSE 0)
<1>1. ran \in Seq(Nat) /\ calls \in Seq(Asking) /\ n \in 1..Len(ran)
  BY StateFacts
<1>2. ran[n] \in Nat /\ calls[n] \in Asking
  BY <1>1, ElementOfSeq
<1> QED BY <1>2 DEF Asking, Due

(* A step that asks nothing new, sends nothing and runs nothing.             *)
LEMMA RanQuiet ==
  ASSUME SafeInv, SafeInv', RanInv, StillAsks(conn, conn'), UNCHANGED <<calls, ran>>
  PROVE  RanInv'
<1>1. conn \in Seq(Connections) /\ conn' \in Seq(Connections)
  BY StateFacts, NextFacts
<1> SUFFICES ASSUME NEW n \in 1..Len(calls)
             PROVE  ran[n] + Cardinality(CarriedOn(conn', calls[n], n)) <= Due(calls[n])
  BY DEF RanInv
<1> DEFINE m == [no |-> n + 1]
<1>2. AsksOnly(conn, conn', 0, m)
  BY DEF AsksOnly, StillAsks
<1>3. m.no # n
  OBVIOUS
<1> HIDE DEF m
<1>4. /\ Cardinality(CarriedOn(conn, calls[n], n)) \in Nat
      /\ Cardinality(CarriedOn(conn', calls[n], n)) \in Nat
      /\ Cardinality(CarriedOn(conn', calls[n], n)) <= Cardinality(CarriedOn(conn, calls[n], n))
  BY <1>1, <1>2, <1>3, CarriedLess
<1>5. ran[n] + Cardinality(CarriedOn(conn, calls[n], n)) <= Due(calls[n])
  BY DEF RanInv
<1>6. ran[n] \in Nat /\ Due(calls[n]) \in Nat
  BY RanTypes
<1> QED BY ONLY <1>4, <1>5, <1>6

(* A call that is made has not been sent.                                    *)
LEMMA RanSend ==
  ASSUME SafeInv, SafeInv', RanInv, NEW t \in Threads, Send(t)
  PROVE  RanInv'
<1>1. /\ conn' = conn /\ Len(calls) \in Nat /\ Len(calls') = Len(calls) + 1
      /\ calls'[Len(calls) + 1] = [by |-> t, sent |-> 0, cut |-> FALSE] /\ ran'[Len(calls) + 1] = 0
      /\ \A n \in 1..Len(calls) : calls'[n] = calls[n] /\ ran'[n] = ran[n]
  BY SendCalls
<1>2. ASSUME NEW a PROVE CarriedOn(conn, a, Len(calls) + 1) = {}
  <2> SUFFICES ASSUME NEW c \in 1..Len(conn), ~conn[c].broken, NEW y \in Range(Asked(conn[c])),
                      y.msg.no = Len(calls) + 1
               PROVE  FALSE
    BY DEF CarriedOn
  <2>1. y.msg.no <= Len(calls)
    BY StateFacts DEF Asks
  <2> QED BY <2>1, <1>1
<1> SUFFICES ASSUME NEW n \in 1..Len(calls')
             PROVE  ran'[n] + Cardinality(CarriedOn(conn, calls'[n], n)) <= Due(calls'[n])
  BY <1>1 DEF RanInv, CarriedOn
<1>3. CASE n = Len(calls) + 1
  <2>1. Cardinality(CarriedOn(conn, calls'[n], n)) = 0
    BY <1>2, <1>3, FS_EmptySet
  <2>2. Due(calls'[n]) = 0
    BY <1>1, <1>3 DEF Due
  <2> QED BY <2>1, <2>2, <1>1, <1>3
<1>4. CASE n \in 1..Len(calls)
  BY <1>1, <1>4 DEF RanInv
<1> QED BY <1>1, <1>3, <1>4

(* A fragment puts its call on one connection more at most, if it is the last.*)
LEMMA RanFragment ==
  ASSUME SafeInv, SafeInv', HeldInv, RanInv, NEW t \in Threads, SendFragment(t)
  PROVE  RanInv'
<1> DEFINE m == th[t].msg
           p == th[t].part
           s == th[t].sock
<1>1. /\ Len(calls') = Len(calls) /\ Len(calls) \in Nat /\ ran' = ran /\ m.no \in 1..Len(calls)
      /\ \A n \in 1..Len(calls) :
           /\ calls[n] \in Asking /\ calls'[n].by = calls[n].by /\ calls'[n].cut = calls[n].cut
           /\ calls'[n].sent = IF n = m.no /\ p = m.frags THEN calls[n].sent + 1 ELSE calls[n].sent
  BY FragmentCalls, CasesSendFragment
<1>2. AsksOnly(conn, conn', s, m)
  BY WritesAsk DEF Writes
<1>3. conn \in Seq(Connections) /\ conn' \in Seq(Connections)
  BY StateFacts, NextFacts
<1>4. ~calls[m.no].cut
  <2>1. th[t].pc \notin {"idle", "listen"}
    BY WritesAsk DEF Writes
  <2>2. m.no \notin CutBy(t)
    BY <2>1, ThreadFacts DEF Client
  <2>3. calls[m.no].by = t
    BY <2>1 DEF HeldInv, Held
  <2>4. m.no \in DOMAIN calls
    BY <1>1, StateFacts, LenProperties
  <2> QED BY <2>2, <2>3, <2>4 DEF CutBy
<1>5. \A y \in Range(Asked(conn'[s])) : y.msg = m /\ y \notin Range(Asked(conn[s])) => y.part = p
  <2>1. /\ OnOwn(t) /\ Sends(th[t], th'[t], xidlist[t], xidlist'[t], conn[s], conn'[s])
    BY CasesSendFragment
  <2>2. PICK r \in Connections, r2 \in Connections : r = conn[s] /\ r2 = conn'[s]
    BY <2>1, ThreadFacts, StateFacts, NextFacts DEF OnOwn
  <2>3. /\ m \in Messages /\ p \in 1..m.frags
        /\ r2.packetbuf = r.packetbuf /\ r2.readbuf = r.readbuf /\ r2.up = r.up \o Fragment(m, p)
    BY <2>1, <2>2 DEF Sends
  <2>4. m.frags \in Nat
    BY <2>3, MessageSizes
  <2>5. p \in Nat \ {0}
    BY <2>3, <2>4
  <2> HIDE DEF m, p
  <2>6. Fragment(m, p) \in Seq(Pieces) /\ \A y \in Range(Fragment(m, p)) : y.msg = m /\ y.part = p
    BY <2>3, <2>5, FragmentPieces
  <2>7. Asked(r2) = Asked(r) \o Fragment(m, p)
    BY <2>3, <2>6, UpAppended
  <2>8. \A y : y \in Range(Asked(r2)) <=> y \in Range(Asked(r)) \/ y \in Range(Fragment(m, p))
    BY <2>6, <2>7, AskedType, RangeOfConcat
  <2> QED BY <2>2, <2>6, <2>8
<1> HIDE DEF m, p, s
<1> SUFFICES ASSUME NEW n \in 1..Len(calls)
             PROVE  ran[n] + Cardinality(CarriedOn(conn', calls'[n], n)) <= Due(calls'[n])
  BY <1>1 DEF RanInv, CarriedOn
<1>6. /\ ran[n] \in Nat /\ calls[n].sent \in Nat /\ Due(calls[n]) \in Nat
      /\ ran[n] + Cardinality(CarriedOn(conn, calls[n], n)) <= Due(calls[n])
  BY RanTypes DEF RanInv
<1>7. CASE n = m.no /\ p = m.frags
  <2> DEFINE A == CarriedOn(conn, calls[n], n)
             B == CarriedOn(conn', calls'[n], n)
  <2>1. B \in SUBSET (A \union {s})
    BY <1>1, <1>2 DEF CarriedOn, AsksOnly
  <2>2. IsFiniteSet(A) /\ Cardinality(A) \in Nat /\ Cardinality(B) \in Nat
    BY <1>3, CarriedFinite
  <2>3. Due(calls'[n]) = Due(calls[n]) + 1
    BY <1>1, <1>6, <1>7 DEF Due
  <2>4. ran[n] + Cardinality(A) <= Due(calls[n])
    BY <1>6
  <2> HIDE DEF A, B
  <2>5. /\ IsFiniteSet(A \union {s})
        /\ Cardinality(A \union {s}) = IF s \in A THEN Cardinality(A) ELSE Cardinality(A) + 1
    BY <2>2, FS_AddElement
  <2>6. Cardinality(B) <= Cardinality(A \union {s})
    BY <2>1, <2>5, FS_Subset
  <2>7. Cardinality(B) <= Cardinality(A) + 1
    BY ONLY <2>2, <2>5, <2>6
  <2>8. ran[n] + Cardinality(B) <= Due(calls'[n])
    <3>1. PICK a \in Nat, b \in Nat, v \in Nat, w \in Nat :
            a = Cardinality(A) /\ b = Cardinality(B) /\ v = ran[n] /\ w = Due(calls[n])
      BY ONLY <2>2, <1>6
    <3> QED BY ONLY <3>1, <2>3, <2>4, <2>7
  <2> QED BY <2>8 DEF B
<1>8. CASE ~(n = m.no /\ p = m.frags)
  <2>1. CarriedOn(conn', calls'[n], n) \subseteq CarriedOn(conn, calls[n], n)
    <3> SUFFICES ASSUME NEW c \in CarriedOn(conn', calls'[n], n), c \notin CarriedOn(conn, calls[n], n)
                 PROVE  FALSE
      OBVIOUS
    <3>1. c \in 1..Len(conn') /\ ~conn'[c].broken
      BY DEF CarriedOn
    <3>2. PICK y \in Range(Asked(conn'[c])) :
            y.msg.no = n /\ IF calls[n].cut THEN Place(y) = 1 ELSE Ends(y, y.msg.frags)
      BY <1>1 DEF CarriedOn
    <3>3. ~(c \in 1..Len(conn) /\ ~conn[c].broken /\ y \in Range(Asked(conn[c])))
      BY <3>2 DEF CarriedOn
    <3>4. c = s /\ y.msg = m
      BY <1>2, <3>1, <3>2, <3>3 DEF AsksOnly
    <3>5. n = m.no /\ y.part = m.frags
      BY <1>4, <3>2, <3>4 DEF Ends
    <3>6. y \notin Range(Asked(conn[s]))
      <4>1. s \in 1..Len(conn) /\ (conn'[s].broken = conn[s].broken)
        BY CasesSendFragment, ThreadFacts DEF OnOwn, Sends, s
      <4> QED BY <4>1, <3>1, <3>3, <3>4
    <3>7. y.part = p
      BY <1>5, <3>2, <3>4, <3>6
    <3> QED BY <1>8, <3>5, <3>7
  <2>2. /\ Cardinality(CarriedOn(conn, calls[n], n)) \in Nat
        /\ Cardinality(CarriedOn(conn', calls'[n], n)) \in Nat
        /\ Cardinality(CarriedOn(conn', calls'[n], n)) <= Cardinality(CarriedOn(conn, calls[n], n))
    BY <2>1, <1>3, CarriedFinite
  <2>3. Due(calls'[n]) = Due(calls[n])
    BY <1>1, <1>8 DEF Due
  <2> QED BY ONLY <2>2, <2>3, <1>6
<1> QED BY <1>7, <1>8

(* A call whose first send stops is on its connection only.                  *)
LEMMA RanStop ==
  ASSUME SafeInv, SafeInv', AloneInv, RanInv, NEW t \in Threads, SendTimeout(t), th[t].pc = "send"
  PROVE  RanInv'
<1> DEFINE m == th[t].msg
           s == th[t].sock
<1>1. PICK f \in Seq(Pieces), begun \in BOOLEAN :
        /\ calls' = [calls EXCEPT ![m.no].cut = begun]
        /\ Stops(th[t], th'[t], conn[s], conn'[s], f, begun)
  BY CasesStop
<1>2. /\ Len(calls') = Len(calls) /\ Len(calls) \in Nat /\ m.no \in 1..Len(calls)
      /\ \A n \in 1..Len(calls) :
           /\ calls[n] \in Asking /\ calls'[n].by = calls[n].by /\ calls'[n].sent = calls[n].sent
           /\ IF n = m.no THEN ~calls[n].cut /\ calls'[n].cut = begun
              ELSE calls'[n].cut = calls[n].cut
  BY <1>1, StopCalls
<1>3. AsksOnly(conn, conn', s, m) /\ ran' = ran
  BY WritesAsk, CasesStop DEF Writes
<1>4. conn \in Seq(Connections) /\ conn' \in Seq(Connections)
  BY StateFacts, NextFacts
<1>5. ~begun => StillAsks(conn, conn')
  <2> SUFFICES ASSUME ~begun, NEW c \in 1..Len(conn'), ~conn'[c].broken, NEW y \in Range(Asked(conn'[c]))
               PROVE  c \in 1..Len(conn) /\ ~conn[c].broken /\ y \in Range(Asked(conn[c]))
    BY DEF StillAsks
  <2>1. /\ OnOwn(t) /\ Len(conn') = Len(conn)
        /\ \A k \in 1..Len(conn) : k # s => conn'[k] = conn[k]
    BY CasesStop
  <2>2. PICK r \in Connections : r = conn[s] /\ s \in 1..Len(conn)
    BY <2>1, ThreadFacts, StateFacts DEF OnOwn
  <2>3. /\ f = <<>> /\ conn'[s].up = r.up \o f /\ conn'[s].broken = r.broken
        /\ conn'[s].packetbuf = r.packetbuf /\ conn'[s].readbuf = r.readbuf
    BY <1>1, <2>2 DEF Stops
  <2>4. r.up \o f = r.up
    BY <2>3, ConnectionFields, ConcatEmptySeq
  <2>5. Asked(conn'[s]) = Asked(r)
    BY <2>3, <2>4 DEF Asked
  <2> QED BY <2>1, <2>2, <2>3, <2>5
<1>6. ASSUME NEW c \in 1..Len(conn'), c # s, ~conn'[c].broken, NEW y \in Range(Asked(conn'[c]))
      PROVE  y.msg # m
  <2>1. c \in 1..Len(conn) /\ ~conn[c].broken /\ y \in Range(Asked(conn[c]))
    BY <1>3, <1>6 DEF AsksOnly
  <2> QED BY <2>1, <1>6 DEF AloneInv
<1>7. m \in Messages /\ \A c \in 1..Len(conn') : \A y \in Range(Asked(conn'[c])) : y.msg \in Messages
  <2>1. m \in Messages
    BY <1>1 DEF Stops
  <2>2. \A c \in 1..Len(conn') : Asked(conn'[c]) \in Seq(Pieces)
    BY NextFacts, AskedType
  <2> QED BY <2>1, <2>2, InRange, PlaceOfPiece
<1> HIDE DEF m, s
<1> SUFFICES ASSUME NEW n \in 1..Len(calls)
             PROVE  ran[n] + Cardinality(CarriedOn(conn', calls'[n], n)) <= Due(calls'[n])
  BY <1>2, <1>3 DEF RanInv, CarriedOn
<1>8. /\ ran[n] \in Nat /\ calls[n].sent \in Nat /\ Due(calls[n]) \in Nat
      /\ ran[n] + Cardinality(CarriedOn(conn, calls[n], n)) <= Due(calls[n])
  BY RanTypes DEF RanInv
<1>9. CASE n = m.no /\ begun
  <2> DEFINE B == CarriedOn(conn', calls'[n], n)
  <2>1. B \in SUBSET {s}
    <3> SUFFICES ASSUME NEW c \in B PROVE c = s
      OBVIOUS
    <3>1. PICK y \in Range(Asked(conn'[c])) : y.msg.no = n /\ c \in 1..Len(conn') /\ ~conn'[c].broken
      BY DEF CarriedOn
    <3>2. y.msg = m
      BY <3>1, <1>7, <1>9, SameNumber
    <3> QED BY <3>1, <3>2, <1>6
  <2>2. Cardinality(B) <= 1 /\ Cardinality(B) \in Nat
    <3>1. IsFiniteSet({s}) /\ Cardinality({s}) = 1
      BY FS_Singleton
    <3> HIDE DEF B
    <3>2. IsFiniteSet(B) /\ Cardinality(B) <= Cardinality({s})
      BY <3>1, <2>1, FS_Subset
    <3> QED BY <3>1, <3>2, FS_CardinalityType
  <2>3. Due(calls'[n]) = calls[n].sent + 1 /\ Due(calls[n]) = calls[n].sent
    <3>1. ~calls[n].cut /\ calls'[n].cut /\ calls'[n].sent = calls[n].sent
      BY <1>2, <1>9, Zenon
    <3> QED BY <3>1, <1>8 DEF Due
  <2>4. Cardinality(CarriedOn(conn, calls[n], n)) \in Nat
    BY <1>4, CarriedFinite
  <2> HIDE DEF B
  <2>5. ran[n] + Cardinality(B) <= Due(calls'[n])
    BY ONLY <2>2, <2>3, <2>4, <1>8
  <2> QED BY <2>5 DEF B
<1>10. CASE ~(n = m.no /\ begun)
  <2>1. calls'[n].cut = calls[n].cut
    <3>1. CASE n # m.no
      BY <1>2, <3>1, Zenon
    <3>2. CASE n = m.no
      <4>1. ~begun /\ ~calls[n].cut /\ calls'[n].cut = begun
        BY <1>2, <1>10, <3>2, Zenon
      <4>2. begun = FALSE /\ calls[n].cut = FALSE
        <5>1. calls[n] \in Asking /\ calls[n].cut \in BOOLEAN
          BY <1>2 DEF Asking
        <5> QED BY <4>1, <5>1
      <4> QED BY <4>1, <4>2
    <3> QED BY <3>1, <3>2
  <2>2. CarriedOn(conn', calls'[n], n) \subseteq CarriedOn(conn, calls[n], n)
    <3>1. CASE n = m.no
      BY <3>1, <2>1, <1>5, <1>10 DEF CarriedOn, StillAsks
    <3>2. CASE n # m.no
      BY <3>2, <2>1, <1>3, <1>4, CarriedLess
    <3> QED BY <3>1, <3>2
  <2>3. /\ Cardinality(CarriedOn(conn, calls[n], n)) \in Nat
        /\ Cardinality(CarriedOn(conn', calls'[n], n)) \in Nat
        /\ Cardinality(CarriedOn(conn', calls'[n], n)) <= Cardinality(CarriedOn(conn, calls[n], n))
    BY <2>2, <1>4, CarriedFinite
  <2>4. Due(calls'[n]) = Due(calls[n])
    BY <1>2, <2>1 DEF Due
  <2> QED BY ONLY <2>3, <2>4, <1>8
<1> QED BY <1>9, <1>10

\* a step of the server at connection c, or a reset of it
ServerRest(c) ==
  /\ UNCHANGED <<xid, lockLost, th, xidlist, calls>> /\ (alive' => alive)
  /\ Len(conn') = Len(conn) /\ \A k \in 1..Len(conn) : k # c => conn'[k] = conn[k]
  /\ conn'[c].by = conn[c].by

\* read_data that answers a call, run or not
Runs(c, taken) ==
  LET rec == conn[c].packetbuf \o taken
  IN  /\ ReadKeeps(conn[c], conn'[c]) /\ ReadCall(conn[c], conn'[c], taken) /\ ~conn[c].broken
      /\ \/ ran' = [ran EXCEPT ![rec[1].msg.no] = @ + 1]
         \/ ran' = ran /\ Wrong(rec)

\* read_data that answers nothing
Passes(c, taken) ==
  /\ ReadKeeps(conn[c], conn'[c]) /\ ~conn[c].broken /\ ran' = ran
  /\ ReadQuiet(conn[c], conn'[c], taken) \/ ReadDropped(conn[c], conn'[c], taken)

(* Every step of the server, and a reset.                                    *)
LEMMA ServerCases ==
  ASSUME SafeInv, NEW c \in 1..Len(conn), ServerNext(c) \/ Break(c)
  PROVE  /\ ServerRest(c)
         /\ \/ conn'[c].broken /\ ran' = ran
            \/ Refiled(conn[c], conn'[c]) /\ ran' = ran
            \/ \E taken \in Seq(Pieces) : Passes(c, taken)
            \/ \E taken \in Seq(Pieces) : Runs(c, taken)
            \/ \E f \in Seq(Pieces) :
                 WriteKeeps(conn[c], conn'[c]) /\ WriteStep(conn[c], conn'[c], f) /\ ran' = ran
<1>1. CASE Break(c)
  BY <1>1, BreakCases DEF ServerRest
<1>2. CASE EventNewClient(c) \/ ReadEnd(c) \/ EventHup(c)
  <2>1. Refiled(conn[c], conn'[c]) /\ conn'[c].by = conn[c].by
    BY <1>2, FdCases DEF Refiled
  <2> QED BY <1>2, <2>1, FdCases DEF ServerRest
<1>3. CASE EventWrite(c)
  <2>1. PICK r2 \in Connections, f \in Seq(Pieces) :
          WriteKeeps(conn[c], r2) /\ WriteStep(conn[c], r2, f) /\ conn' = [conn EXCEPT ![c] = r2]
    BY <1>3, WriteCases
  <2>2. Len(conn') = Len(conn) /\ conn'[c] = r2 /\ \A k \in 1..Len(conn) : k # c => conn'[k] = conn[k]
    BY <2>1, OneConnection
  <2>3. r2.by = conn[c].by /\ UNCHANGED <<xid, lockLost, th, xidlist, alive, calls, ran, faults>>
    BY <2>1, <1>3, WriteCases DEF WriteKeeps
  <2> QED BY <2>1, <2>2, <2>3 DEF ServerRest
<1>4. CASE ReadData(c)
  <2>1. UNCHANGED <<xid, lockLost, th, xidlist, calls, faults>> /\ ~conn[c].broken /\ alive
    BY <1>4, ReadCases DEF Serving
  <2>2. PICK r2 \in Connections, taken \in Seq(Pieces) :
          LET rec == conn[c].packetbuf \o taken
              run == [ran EXCEPT ![rec[1].msg.no] = @ + 1]
          IN  /\ ReadKeeps(conn[c], r2)
              /\ \/ ReadQuiet(conn[c], r2, taken) /\ conn' = [conn EXCEPT ![c] = r2]
                    /\ UNCHANGED <<alive, ran>>
                 \/ ReadDropped(conn[c], r2, taken) /\ conn' = [conn EXCEPT ![c] = r2]
                    /\ UNCHANGED <<alive, ran>>
                 \/ ReadCall(conn[c], r2, taken) /\ conn' = [conn EXCEPT ![c] = r2] /\ alive' = alive
                    /\ (ran' = run \/ (ran' = ran /\ Wrong(rec)))
                 \/ ReadDropped(conn[c], r2, taken) /\ alive' = FALSE /\ UNCHANGED <<conn, ran>>
    BY <1>4, ReadCases
  <2>3. CASE conn' = [conn EXCEPT ![c] = r2]
    <3>1. Len(conn') = Len(conn) /\ conn'[c] = r2 /\ \A k \in 1..Len(conn) : k # c => conn'[k] = conn[k]
      BY <2>3, OneConnection
    <3>2. r2.by = conn[c].by
      BY <2>2 DEF ReadKeeps
    <3>3. alive' => alive
      BY <2>1
    <3>4. ServerRest(c)
      BY <2>1, <3>1, <3>2, <3>3 DEF ServerRest
    <3>5. CASE (ReadQuiet(conn[c], r2, taken) \/ ReadDropped(conn[c], r2, taken)) /\ ran' = ran
      <4>1. Passes(c, taken)
        BY <2>1, <2>2, <3>1, <3>5 DEF Passes
      <4> QED BY <4>1, <3>4
    <3>6. CASE /\ ReadCall(conn[c], r2, taken)
               /\ \/ ran' = [ran EXCEPT ![(conn[c].packetbuf \o taken)[1].msg.no] = @ + 1]
                  \/ ran' = ran /\ Wrong(conn[c].packetbuf \o taken)
      <4>1. Runs(c, taken)
        BY <2>1, <2>2, <3>1, <3>6 DEF Runs
      <4> QED BY <4>1, <3>4
    <3> QED BY <2>2, <3>5, <3>6
  <2>4. CASE alive' = FALSE /\ UNCHANGED <<conn, ran>>
    <3>1. ServerRest(c) /\ Refiled(conn[c], conn'[c])
      BY <2>1, <2>4 DEF ServerRest, Refiled
    <3> QED BY <3>1, <2>4
  <2> QED BY <2>2, <2>3, <2>4
<1> QED BY <1>1, <1>2, <1>3, <1>4 DEF ServerNext

\* m, one of n calls, is answered: it leaves the stream, and its reply is queued.
\* C holds the calls that were cut
Queues(r, r2, n, m, C) ==
  /\ m \in Messages /\ m.no \in 1..n
  /\ r2.recordbuf = Append(r.recordbuf, [msg |-> m, part |-> 1])
  /\ \A y \in Range(Asked(r2)) : y \in Range(Asked(r)) /\ (y.msg = m => Place(y) # 1 /\ m.no \in C)
  /\ \E y \in Range(Asked(r)) : y.msg = m /\ Place(y) = 1
  /\ m.no \notin C => \E y \in Range(Asked(r)) : y.msg = m /\ y.part = m.frags /\ y.half = 2

(* What answering a call does to the stream it came in.                      *)
LEMMA CallFacts ==
  ASSUME NEW r \in Connections, NEW r2 \in Connections, NEW taken \in Seq(Pieces),
         ReadCall(r, r2, taken), NEW n \in Nat, Asks(r, n), NEW C, AsksWhole(r, C)
  PROVE  LET rec == r.packetbuf \o taken
         IN  Queues(r, r2, n, rec[1].msg, C) /\ (Whole(rec, rec[1].msg.frags) \/ rec[1].msg.no \in C)
<1>1. PICK rec \in Seq(Pieces) :
        /\ rec = r.packetbuf \o taken /\ Asked(r) = rec \o Asked(r2)
        /\ rec # <<>> /\ Place(rec[1]) = 1 /\ ReadRecord(r, r2, taken)
        /\ r2.recordbuf = Append(r.recordbuf, [msg |-> rec[1].msg, part |-> 1])
  BY ReadRecordAsked DEF ReadCall
<1>2. PICK m \in Messages : m = rec[1].msg
  BY <1>1, FirstPiece
<1>3. Whole(rec, m.frags) \/ m.no \in C
  BY <1>1, <1>2, RecordBegins
<1>4. Takes(r, r2, rec, m, C)
  BY <1>1, <1>2, <1>3 DEF Takes
<1>5. /\ m.no <= n
      /\ \A y \in Range(Asked(r2)) : y \in Range(Asked(r)) /\ (y.msg = m => Place(y) # 1 /\ m.no \in C)
      /\ rec[1] \in Range(Asked(r)) /\ rec[1].msg = m /\ Place(rec[1]) = 1
      /\ m.no \notin C => \E y \in Range(Asked(r)) : y.msg = m /\ y.part = m.frags /\ y.half = 2
  <2>1. r \in Connections /\ r2 \in Connections /\ n \in Nat /\ rec \in Seq(Pieces) /\ m \in Messages
        /\ Asks(r, n)
    OBVIOUS
  <2> QED BY ONLY <1>4, <2>1, TakenOff
<1>6. m.no \in 1..n
  <2>1. m.no \in 1..Len(Sizes)
    BY MessageSizes
  <2> QED BY <2>1, <1>5, ConstantTypes
<1>7. Queues(r, r2, n, m, C)
  BY <1>1, <1>2, <1>5, <1>6 DEF Queues
<1> QED BY <1>1, <1>2, <1>3, <1>7

(* A change of one connection that asks nothing new.                         *)
LEMMA OneStillAsks ==
  ASSUME SafeInv, NEW c \in 1..Len(conn), ServerRest(c),
         \/ conn'[c].broken
         \/ ~conn[c].broken /\ \A y \in Range(Asked(conn'[c])) : y \in Range(Asked(conn[c]))
         \/ conn'[c].broken = conn[c].broken /\ Asked(conn'[c]) = Asked(conn[c])
  PROVE  StillAsks(conn, conn')
<1> SUFFICES ASSUME NEW k \in 1..Len(conn'), ~conn'[k].broken, NEW y \in Range(Asked(conn'[k]))
             PROVE  k \in 1..Len(conn) /\ ~conn[k].broken /\ y \in Range(Asked(conn[k]))
  BY DEF StillAsks
<1>1. k \in 1..Len(conn) /\ (k # c => conn'[k] = conn[k])
  BY DEF ServerRest
<1> QED BY <1>1

(* What reading leaves of the stream was there.                              *)
LEMMA PassesAsked ==
  ASSUME SafeInv, SafeInv', NEW c \in 1..Len(conn), ServerRest(c), NEW taken \in Seq(Pieces), Passes(c, taken)
  PROVE  \A y \in Range(Asked(conn'[c])) : y \in Range(Asked(conn[c]))
<1>1. conn[c] \in Connections /\ conn'[c] \in Connections
  BY StateFacts, NextFacts DEF ServerRest
<1>2. CASE ReadQuiet(conn[c], conn'[c], taken)
  <2>1. Asked(conn'[c]) = Asked(conn[c])
    BY <1>1, <1>2, ReadQuietAsked
  <2> QED BY <2>1
<1>3. CASE ReadDropped(conn[c], conn'[c], taken)
  <2>1. PICK rec \in Seq(Pieces) : Asked(conn[c]) = rec \o Asked(conn'[c])
    BY <1>1, <1>3, ReadRecordAsked DEF ReadDropped
  <2>2. Asked(conn'[c]) \in Seq(Pieces)
    BY <1>1, AskedType
  <2> QED BY <2>1, <2>2, RangeOfConcat
<1> QED BY <1>2, <1>3 DEF Passes

(* The stream of requests of a connection whose requests stay.               *)
LEMMA WriteAsked ==
  ASSUME NEW r, NEW r2, WriteKeeps(r, r2) \/ Refiled(r, r2)
  PROVE  Asked(r2) = Asked(r) /\ r2.broken = r.broken /\ r2.packetbuf = r.packetbuf
         /\ r2.by = r.by /\ r2.cut = r.cut
BY DEF WriteKeeps, Refiled, Asked

(* A call that is run was asked, and is not asked any more.                  *)
LEMMA RanRun ==
  ASSUME SafeInv, SafeInv', StreamInv, RanInv, NEW c \in 1..Len(conn), ServerRest(c),
         NEW taken \in Seq(Pieces), Runs(c, taken)
  PROVE  RanInv'
<1>1. PICK r \in Connections, r2 \in Connections, k \in Nat :
        r = conn[c] /\ r2 = conn'[c] /\ k = Len(calls) /\ Asks(r, k) /\ ReadCall(r, r2, taken)
        /\ ~r.broken /\ ~r2.broken
        /\ (ran' = [ran EXCEPT ![(r.packetbuf \o taken)[1].msg.no] = @ + 1] \/ ran' = ran)
  BY StateFacts, NextFacts DEF Runs, ReadKeeps, ServerRest
<1>2. PICK C : C = CutOn(r)
  OBVIOUS
<1>3. PICK m \in Messages : m = (r.packetbuf \o taken)[1].msg /\ Queues(r, r2, k, m, C)
  <2>1. r \in Connections /\ r2 \in Connections /\ taken \in Seq(Pieces) /\ k \in Nat
        /\ ReadCall(r, r2, taken) /\ Asks(r, k) /\ AsksWhole(r, C)
    BY <1>1, <1>2 DEF StreamInv
  <2>2. Queues(r, r2, k, (r.packetbuf \o taken)[1].msg, C)
    BY ONLY <2>1, CallFacts
  <2> QED BY <2>2 DEF Queues
<1>4. StillAsks(conn, conn')
  <2>1. \A y \in Range(Asked(r2)) : y \in Range(Asked(r))
    BY <1>3 DEF Queues
  <2> QED BY <1>1, <2>1, OneStillAsks
<1>5. conn \in Seq(Connections) /\ conn' \in Seq(Connections) /\ calls' = calls
  BY StateFacts, NextFacts DEF ServerRest
<1>6. CASE ran' = ran
  BY <1>4, <1>5, <1>6, RanQuiet
<1>7. CASE ran' = [ran EXCEPT ![m.no] = @ + 1]
  <2>1. /\ ran' = [ran EXCEPT ![m.no] = ran[m.no] + 1] /\ k = Len(ran) /\ m.no \in 1..k
        /\ \A n \in 1..k : ran[n] \in Nat /\ Due(calls[n]) \in Nat
        /\ ran \in Seq(Nat)
    <3>1. ran \in Seq(Nat) /\ k = Len(ran) /\ m.no \in 1..k
      BY <1>1, <1>3, StateFacts DEF Queues
    <3>2. \A n \in 1..k : ran[n] \in Nat /\ Due(calls[n]) \in Nat
      BY <1>1, RanTypes
    <3> QED BY <3>1, <3>2, <1>7
  <2>2. ran'[m.no] = ran[m.no] + 1 /\ \A n \in 1..k : n # m.no => ran'[n] = ran[n]
    <3>1. DOMAIN ran = 1..k
      BY <2>1
    <3> QED BY <3>1, <2>1
  <2> SUFFICES ASSUME NEW n \in 1..k
               PROVE  ran'[n] + Cardinality(CarriedOn(conn', calls[n], n)) <= Due(calls[n])
    BY <1>1, <1>5 DEF RanInv
  <2>3. /\ Cardinality(CarriedOn(conn, calls[n], n)) \in Nat
        /\ Cardinality(CarriedOn(conn', calls[n], n)) \in Nat
        /\ Cardinality(CarriedOn(conn', calls[n], n)) <= Cardinality(CarriedOn(conn, calls[n], n))
        /\ CarriedOn(conn', calls[n], n) \subseteq CarriedOn(conn, calls[n], n)
        /\ IsFiniteSet(CarriedOn(conn, calls[n], n))
    <3>1. CarriedOn(conn', calls[n], n) \subseteq CarriedOn(conn, calls[n], n)
      BY <1>4 DEF CarriedOn, StillAsks
    <3> QED BY <3>1, <1>5, CarriedFinite
  <2>4. ran[n] + Cardinality(CarriedOn(conn, calls[n], n)) <= Due(calls[n])
    BY <1>1 DEF RanInv
  <2>5. CASE n = m.no
    <3>1. ~calls[n].cut => m.no \notin C
      <4>1. C \subseteq CutBy(r.by)
        BY <1>2 DEF CutOn, Cuts
      <4> QED BY <4>1, <2>5 DEF CutBy
    <3>2. c \in CarriedOn(conn, calls[n], n)
      <4>1. CASE calls[n].cut
        <5>1. \E y \in Range(Asked(r)) : y.msg = m /\ Place(y) = 1
          BY <1>3 DEF Queues
        <5> QED BY <5>1, <4>1, <1>1, <2>5 DEF CarriedOn
      <4>2. CASE ~calls[n].cut
        <5>1. \E y \in Range(Asked(r)) : y.msg = m /\ Ends(y, y.msg.frags)
          BY <4>2, <3>1, <1>3 DEF Queues, Ends
        <5> QED BY <5>1, <4>2, <1>1, <2>5 DEF CarriedOn
      <4> QED BY <4>1, <4>2
    <3>3. c \notin CarriedOn(conn', calls[n], n)
      <4> SUFFICES ASSUME NEW y \in Range(Asked(r2)), y.msg.no = n,
                          IF calls[n].cut THEN Place(y) = 1 ELSE Ends(y, y.msg.frags)
                   PROVE  FALSE
        BY <1>1 DEF CarriedOn
      <4>1. y.msg \in Messages
        <5>1. Asked(r2) \in Seq(Pieces)
          BY AskedType
        <5> QED BY <5>1, InRange, PlaceOfPiece
      <4>2. y.msg = m
        BY <4>1, <2>5, SameNumber
      <4>3. Place(y) # 1 /\ m.no \in C
        BY <4>2, <1>3 DEF Queues
      <4> QED BY <4>3, <3>1
    <3>4. /\ IsFiniteSet(CarriedOn(conn, calls[n], n) \ {c})
          /\ Cardinality(CarriedOn(conn, calls[n], n) \ {c}) = Cardinality(CarriedOn(conn, calls[n], n)) - 1
      BY <3>2, <2>3, FS_RemoveElement
    <3>5. CarriedOn(conn', calls[n], n) \in SUBSET (CarriedOn(conn, calls[n], n) \ {c})
      BY <3>3, <2>3
    <3>6. Cardinality(CarriedOn(conn', calls[n], n)) <= Cardinality(CarriedOn(conn, calls[n], n)) - 1
      <4>1. Cardinality(CarriedOn(conn', calls[n], n)) <= Cardinality(CarriedOn(conn, calls[n], n) \ {c})
        BY ONLY <3>4, <3>5, FS_Subset
      <4> QED BY ONLY <3>4, <4>1
    <3>7. PICK a \in Nat, b \in Nat, v \in Nat, w \in Nat :
            /\ a = Cardinality(CarriedOn(conn, calls[n], n)) /\ b = Cardinality(CarriedOn(conn', calls[n], n))
            /\ v = ran[n] /\ w = Due(calls[n])
      BY ONLY <2>1, <2>3
    <3>8. v + a <= w
      BY ONLY <3>7, <2>4
    <3>9. b <= a - 1
      BY ONLY <3>7, <3>6
    <3>10. (v + 1) + b <= w
      <4>1. a \in Nat /\ b \in Nat /\ v \in Nat /\ w \in Nat
        BY ONLY <3>7
      <4> QED BY ONLY <3>8, <3>9, <4>1
    <3>11. ran'[n] = v + 1
      BY <2>2, <2>5, <3>7
    <3> QED BY ONLY <3>7, <3>10, <3>11
  <2>6. CASE n # m.no
    <3>1. ran[n] \in Nat /\ Due(calls[n]) \in Nat /\ ran'[n] = ran[n]
      BY <2>1, <2>2, <2>6
    <3> QED BY ONLY <3>1, <2>3, <2>4
  <2> QED BY <2>5, <2>6
<1> QED BY <1>1, <1>3, <1>6, <1>7

(* A step of the server keeps the count.                                     *)
LEMMA RunServer ==
  ASSUME SafeInv, SafeInv', StreamInv, RanInv, AloneInv, NEW c \in 1..Len(conn), ServerNext(c) \/ Break(c)
  PROVE  RanInv' /\ AloneInv'
<1>1. ServerRest(c)
  BY ServerCases
<1>2. conn[c] \in Connections /\ conn'[c] \in Connections
  BY <1>1, StateFacts, NextFacts DEF ServerRest
<1>3. CASE \E taken \in Seq(Pieces) : Runs(c, taken)
  <2>1. PICK taken \in Seq(Pieces) : Runs(c, taken)
    BY <1>3
  <2>2. PICK rec \in Seq(Pieces) : Asked(conn[c]) = rec \o Asked(conn'[c])
    BY <2>1, <1>2, ReadRecordAsked DEF Runs, ReadCall
  <2>3. \A y \in Range(Asked(conn'[c])) : y \in Range(Asked(conn[c]))
    <3>1. Asked(conn'[c]) \in Seq(Pieces)
      BY <1>2, AskedType
    <3> QED BY <3>1, <2>2, RangeOfConcat
  <2>4. StillAsks(conn, conn')
    BY <1>1, <2>1, <2>3, OneStillAsks DEF Runs
  <2>5. AloneInv'
    BY <1>1, <2>4, AloneStep DEF ServerRest
  <2> QED BY <1>1, <2>1, <2>5, RanRun
<1>4. CASE ~\E taken \in Seq(Pieces) : Runs(c, taken)
  <2>1. /\ ran' = ran
        /\ \/ conn'[c].broken
           \/ Refiled(conn[c], conn'[c])
           \/ \E taken \in Seq(Pieces) : Passes(c, taken)
           \/ WriteKeeps(conn[c], conn'[c])
    BY <1>4, ServerCases DEF Passes
  <2>2. \/ conn'[c].broken
        \/ conn'[c].broken = conn[c].broken /\ Asked(conn'[c]) = Asked(conn[c])
        \/ ~conn[c].broken /\ \A y \in Range(Asked(conn'[c])) : y \in Range(Asked(conn[c]))
    <3>1. CASE \E taken \in Seq(Pieces) : Passes(c, taken)
      BY <3>1, <1>1, PassesAsked DEF Passes
    <3> QED BY <3>1, <2>1, WriteAsked
  <2>3. StillAsks(conn, conn')
    BY <1>1, <2>2, OneStillAsks
  <2>4. AloneInv'
    BY <1>1, <2>3, AloneStep DEF ServerRest
  <2> QED BY <2>1, <2>3, <2>4, <1>1, RanQuiet DEF ServerRest
<1> QED BY <1>3, <1>4

(* Every step keeps the count.                                               *)
LEMMA RunNext == SafeInv /\ SafeInv' /\ StreamInv /\ RunInv /\ [Next]_vars => RunInv'
<1> SUFFICES ASSUME SafeInv, SafeInv', StreamInv, RanInv, HeldInv, AloneInv, [Next]_vars
             PROVE  RanInv' /\ AloneInv'
  BY HeldNext DEF RunInv
<1>1. ASSUME NEW t \in Threads, ClientNext(t) PROVE RanInv' /\ AloneInv'
  <2>1. CASE SendFragment(t)
    BY <2>1, RanFragment, AloneWrites DEF Writes
  <2>2. CASE SendTimeout(t) /\ th[t].pc = "send"
    BY <2>2, RanStop, AloneWrites DEF Writes
  <2>3. CASE Send(t)
    BY <2>3, RanSend, AloneSend
  <2>4. CASE ~Writes(t) /\ ~Send(t)
    <3>1. CarriesOn(t) /\ UNCHANGED <<calls, ran>> /\ \A u \in Threads : u # t => th'[u] = th[u]
      BY <1>1, <2>4, ClientCases DEF ClientRest
    <3>2. StillAsks(conn, conn')
      BY <3>1, ClientStillAsks
    <3>3. th'[t].pc # "send"
      BY <1>1, <2>4, ClientCases DEF Moved, Quiet, Reads, Misreads, Delivers
    <3>4. AloneInv'
      BY <3>1, <3>2, <3>3, AloneStep
    <3> QED BY <3>1, <3>2, <3>4, RanQuiet
  <2> QED BY <2>1, <2>2, <2>3, <2>4 DEF Writes
<1>2. ASSUME NEW c \in 1..Len(conn), ServerNext(c) \/ Break(c) PROVE RanInv' /\ AloneInv'
  BY <1>2, RunServer
<1>3. CASE UNCHANGED vars
  BY <1>3 DEF vars, RanInv, AloneInv, CarriedOn, Asked, Due
<1>4. CASE Next
  <2>1. DOMAIN conn = 1..Len(conn)
    BY StateFacts
  <2> QED BY <1>1, <1>2, <1>4, <2>1 DEF Next
<1> QED BY <1>3, <1>4

-----------------------------------------------------------------------------
(* The streams of requests.                                                  *)

\* how many fragments a message has, asked or answered
Size(m, w) == IF w = "up" THEN m.frags ELSE m.back

(* A message has fragments, either way.                                      *)
LEMMA SizeType ==
  ASSUME NEW m \in Messages, NEW w
  PROVE  Size(m, w) \in Nat \ {0}
BY MessageSizes DEF Size

\* the stream s goes from record to record without a gap, but where a call of C was cut
Chained(s, w, C) ==
  \A i \in 1..(Len(s) - 1) : s[i].msg.no \notin C => After(s[i], s[i + 1], Size(s[i].msg, w))
\* and fragment p of m comes next in it
Goes(s, w, C, m, p) ==
  s # <<>> => IF p > 1 THEN s[Len(s)].msg = m /\ s[Len(s)].part = p - 1 /\ s[Len(s)].half = 2
              ELSE s[Len(s)].msg.no \notin C => Ends(s[Len(s)], Size(s[Len(s)].msg, w))
\* a record begins it
Starts(s) == s # <<>> => Place(s[1]) = 1

(* What AsksWhole and NextAsked say in those terms.                          *)
LEMMA AsksWholeParts ==
  ASSUME NEW r, NEW C
  PROVE  AsksWhole(r, C) <=> /\ Chained(Asked(r), "up", C)
                             /\ r.packetbuf # <<>> /\ Place(r.packetbuf[1]) = 1
                                  /\ r.packetbuf[1].msg.no \notin C => Clean(r.packetbuf)
                             /\ ~r.cut => Starts(Asked(r))
BY DEF AsksWhole, Chained, Starts, Size

(* What is next of a thread that sends a call, and of one that sends none.   *)
LEMMA NextAskedParts ==
  ASSUME NEW T, NEW r, NEW C
  PROVE  /\ IsSending(T) => (NextAsked(T, r, C) <=>
                               /\ Goes(Asked(r), "up", C, T.msg, T.part)
                               /\ ~r.cut /\ T.part > 1 => Asked(r) # <<>>)
         /\ ~(IsSending(T) /\ T.part > 1) =>
              (NextAsked(T, r, C) <=> Goes(Asked(r), "up", C, T.msg, 1))
BY DEF NextAsked, Goes, Size

(* The ends of a stream to which something is added.                         *)
LEMMA Lengthened ==
  ASSUME NEW s \in Seq(Pieces), NEW f \in Seq(Pieces), f # <<>>
  PROVE  /\ (s \o f) # <<>> /\ (s \o f)[Len(s \o f)] = f[Len(f)]
         /\ (s \o f)[1] = IF s = <<>> THEN f[1] ELSE s[1]
<1>1. PICK u \in Seq(Pieces) : u = s \o f
  BY Concatenated
<1>2. /\ Len(s) \in Nat /\ Len(f) \in Nat /\ Len(u) = Len(s) + Len(f)
      /\ \A i \in 1..Len(s) : u[i] = s[i]
      /\ \A i \in 1..Len(f) : u[Len(s) + i] = f[i]
  BY <1>1, Joined
<1>3. Len(f) >= 1 /\ 1 \in 1..Len(f) /\ Len(f) \in 1..Len(f)
  BY <1>2, FirstPiece
<1>4. u # <<>>
  <2>1. Len(u) # 0
    BY <1>2, <1>3
  <2> QED BY <2>1, EmptyRange
<1>5. u[Len(u)] = f[Len(f)]
  BY <1>2, <1>3
<1>6. CASE s = <<>>
  <2>1. Len(s) = 0
    BY <1>6, EmptyRange
  <2>2. u[Len(s) + 1] = f[1]
    BY <1>2, <1>3
  <2>3. Len(s) + 1 = 1
    BY <2>1
  <2> QED BY <2>2, <2>3, <1>1, <1>4, <1>5, <1>6
<1>7. CASE s # <<>>
  <2>1. 1 \in 1..Len(s)
    BY <1>7, <1>2, FirstPiece
  <2> QED BY <2>1, <1>1, <1>2, <1>4, <1>5, <1>7
<1> QED BY <1>6, <1>7

(* A fragment that comes next, or the beginning of it.                       *)
LEMMA ChainedFragment ==
  ASSUME NEW w, NEW C, NEW s \in Seq(Pieces), NEW m \in Messages, NEW p \in 1..Size(m, w),
         Chained(s, w, C), Goes(s, w, C, m, p),
         NEW f \in Seq(Pieces), Len(f) \in {1, 2}, f[1].msg = m, f[1].part = p, f[1].half = 1,
         Len(f) = 2 => f[2].msg = m /\ f[2].part = p /\ f[2].half = 2
  PROVE  Chained(s \o f, w, C)
<1>0. Size(m, w) \in Nat \ {0} /\ p \in Nat \ {0} /\ p <= Size(m, w)
  BY SizeType
<1>1. PICK u \in Seq(Pieces), k \in Nat : u = s \o f /\ k = Len(s)
  BY Concatenated, LenProperties
<1>2. /\ Len(u) = k + Len(f)
      /\ \A i \in 1..k : u[i] = s[i] /\ s[i] \in Pieces
      /\ u[k + 1] = f[1] /\ (Len(f) = 2 => u[k + 2] = f[2])
  <2>1. /\ Len(u) = Len(s) + Len(f)
        /\ \A i \in 1..Len(s) : u[i] = s[i]
        /\ \A i \in 1..Len(f) : u[Len(s) + i] = f[i]
    BY <1>1, Joined
  <2>2. 1 \in 1..Len(f) /\ (Len(f) = 2 => 2 \in 1..Len(f))
    OBVIOUS
  <2>3. \A i \in 1..k : s[i] \in Pieces
    BY <1>1, ElementOfSeq
  <2> QED BY <1>1, <2>1, <2>2, <2>3
<1>3. /\ Place(f[1]) = 2 * (p - 1) + 1 /\ (Len(f) = 2 => Place(f[2]) = 2 * (p - 1) + 2)
  BY DEF Place
<1> SUFFICES ASSUME NEW i \in 1..(Len(u) - 1), u[i].msg.no \notin C
             PROVE  After(u[i], u[i + 1], Size(u[i].msg, w))
  BY <1>1 DEF Chained
<1>4. CASE i < k
  <2>1. i \in 1..(Len(s) - 1) /\ i \in 1..k /\ i + 1 \in 1..k
    BY <1>4, <1>1
  <2>2. s[i].msg.no \notin C => After(s[i], s[i + 1], Size(s[i].msg, w))
    BY <2>1 DEF Chained
  <2> QED BY <2>1, <2>2, <1>2
<1>5. CASE i = k
  <2>1. i \in 1..k /\ u[i] = s[Len(s)] /\ u[i + 1] = f[1] /\ s # <<>>
    <3>1. i \in 1..k
      BY <1>5
    <3>2. s # <<>>
      BY <3>1, <1>1, EmptyRange
    <3> QED BY <3>1, <3>2, <1>1, <1>2, <1>5
  <2>2. CASE p > 1
    <3>1. u[i].msg = m /\ u[i].part = p - 1 /\ u[i].half = 2
      BY <2>1, <2>2 DEF Goes
    <3>2. ~Ends(u[i], Size(u[i].msg, w))
      BY <3>1, <1>0 DEF Ends
    <3>3. Place(u[i]) = 2 * ((p - 1) - 1) + 2
      BY <3>1 DEF Place
    <3>4. Place(f[1]) = Place(u[i]) + 1
      BY <3>3, <1>0, <1>3
    <3> QED BY <3>1, <3>2, <3>4, <2>1 DEF After
  <2>3. CASE ~(p > 1)
    <3>1. Ends(u[i], Size(u[i].msg, w))
      BY <2>1, <2>3 DEF Goes
    <3>2. Place(f[1]) = 1
      BY <2>3, <1>0, <1>3
    <3> QED BY <3>1, <3>2, <2>1 DEF After
  <2> QED BY <2>2, <2>3
<1>6. CASE i = k + 1
  <2>1. Len(f) = 2 /\ u[i] = f[1] /\ u[i + 1] = f[2]
    <3>1. Len(f) = 2
      BY <1>1, <1>2, <1>6
    <3>2. i + 1 = k + 2
      BY <1>6
    <3> QED BY <3>1, <3>2, <1>2, <1>6
  <2>2. ~Ends(f[1], Size(f[1].msg, w))
    BY DEF Ends
  <2>3. Place(f[2]) = Place(f[1]) + 1
    BY <1>3, <1>0, <2>1
  <2> QED BY <2>1, <2>2, <2>3 DEF After
<1>7. i < k \/ i = k \/ i = k + 1
  <2>1. PICK l \in {1, 2} : l = Len(f)
    OBVIOUS
  <2>2. i \in 1..((k + l) - 1) /\ k \in Nat /\ l \in {1, 2}
    BY <2>1, <1>1, <1>2
  <2> QED BY ONLY <2>2
<1> QED BY <1>4, <1>5, <1>6, <1>7

(* What is left once a record is taken.                                      *)
LEMMA ChainedRest ==
  ASSUME NEW w, NEW C, NEW rec \in Seq(Pieces), NEW rest \in Seq(Pieces), Chained(rec \o rest, w, C)
  PROVE  /\ Chained(rest, w, C)
         /\ rec # <<>> /\ rest # <<>> =>
              /\ rec[Len(rec)].msg.no \notin C => After(rec[Len(rec)], rest[1], Size(rec[Len(rec)].msg, w))
              /\ (rec \o rest)[Len(rec \o rest)] = rest[Len(rest)]
<1>1. PICK s \in Seq(Pieces), k \in Nat : s = rec \o rest /\ k = Len(rec)
  BY Concatenated, LenProperties
<1>2. /\ Len(s) = k + Len(rest) /\ Len(rest) \in Nat /\ Chained(s, w, C)
      /\ \A i \in 1..k : s[i] = rec[i]
      /\ \A i \in 1..Len(rest) : s[k + i] = rest[i]
  BY <1>1, Joined
<1>3. ASSUME rec # <<>>, rest # <<>>
      PROVE  /\ rec[k].msg.no \notin C => After(rec[k], rest[1], Size(rec[k].msg, w))
             /\ s[Len(s)] = rest[Len(rest)]
  <2>1. k >= 1 /\ Len(rest) >= 1
    BY <1>1, <1>3, FirstPiece
  <2>2. k \in 1..(Len(s) - 1) /\ k \in 1..k /\ 1 \in 1..Len(rest) /\ Len(rest) \in 1..Len(rest)
    BY <2>1, <1>2
  <2>3. s[k] = rec[k] /\ s[k + 1] = rest[1] /\ s[Len(s)] = rest[Len(rest)]
    BY <2>2, <1>2
  <2>4. s[k].msg.no \notin C => After(s[k], s[k + 1], Size(s[k].msg, w))
    BY <2>2, <1>2 DEF Chained
  <2> QED BY <2>3, <2>4
<1>4. ASSUME NEW i \in 1..(Len(rest) - 1), rest[i].msg.no \notin C
      PROVE  After(rest[i], rest[i + 1], Size(rest[i].msg, w))
  <2>1. k + i \in 1..(Len(s) - 1) /\ i \in 1..Len(rest) /\ i + 1 \in 1..Len(rest) /\ (k + i) + 1 = k + (i + 1)
    BY <1>2
  <2>2. s[k + i].msg.no \notin C => After(s[k + i], s[(k + i) + 1], Size(s[k + i].msg, w))
    BY <2>1, <1>2 DEF Chained
  <2> QED BY <2>1, <2>2, <1>2, <1>4
<1> QED BY <1>1, <1>3, <1>4 DEF Chained

(* A stream that stays is as whole as it was, with no call cut or with more. *)
LEMMA KeptStream ==
  ASSUME NEW r, NEW r2, NEW C, NEW C2, C \subseteq C2, AsksWhole(r, C),
         Asked(r2) = Asked(r), r2.packetbuf = r.packetbuf, ~r2.cut => ~r.cut
  PROVE  AsksWhole(r2, C2)
BY DEF AsksWhole

(* And what comes next too, at a thread that begins no record in the middle. *)
LEMMA KeptNext ==
  ASSUME NEW T, NEW T2, NEW r, NEW r2, NEW C, NextAsked(T, r, C), Asked(r2) = Asked(r), r2.cut = r.cut,
         T2 = T \/ (~IsSending(T) /\ (IsSending(T2) => T2.part = 1))
  PROVE  NextAsked(T2, r2, C)
<1>1. CASE T2 = T
  BY <1>1 DEF NextAsked
<1>2. CASE ~IsSending(T) /\ (IsSending(T2) => T2.part = 1)
  <2>1. ~(IsSending(T2) /\ T2.part > 1)
    BY <1>2
  <2> QED BY <2>1, <1>2 DEF NextAsked
<1> QED BY <1>1, <1>2

(* Nothing is amiss on a new connection.                                     *)
LEMMA NewStream ==
  ASSUME NEW t \in Threads, NEW C
  PROVE  /\ AsksWhole(Connection(t), C)
         /\ \A T : (IsSending(T) => T.part = 1) => NextAsked(T, Connection(t), C)
<1>1. Asked(Connection(t)) = <<>> /\ Connection(t).packetbuf = <<>>
  BY NothingAsked, NewConnection
<1>2. AsksWhole(Connection(t), C)
  <2>1. PICK e \in Seq(Pieces) : e = <<>> /\ Len(e) = 0
    BY EmptySeq
  <2>2. 1..(Len(e) - 1) = {}
    BY <2>1
  <2> QED BY <2>1, <2>2, <1>1 DEF AsksWhole
<1>3. \A T : (IsSending(T) => T.part = 1) => NextAsked(T, Connection(t), C)
  <2> TAKE T
  <2> HAVE IsSending(T) => T.part = 1
  <2>1. ~(IsSending(T) /\ T.part > 1)
    OBVIOUS
  <2> QED BY <2>1, <1>1 DEF NextAsked
<1> QED BY <1>2, <1>3

(* The fragment that comes next comes next in the stream.                    *)
LEMMA SendsStream ==
  ASSUME NEW T, NEW T2, NEW X, NEW X2, NEW r \in Connections, NEW r2 \in Connections, NEW C,
         Sends(T, T2, X, X2, r, r2), AsksWhole(r, C), NextAsked(T, r, C)
  PROVE  AsksWhole(r2, C) /\ NextAsked(T2, r2, C)
<1>1. PICK m \in Messages, p \in Nat : m = T.msg /\ p = T.part /\ p \in 1..m.frags
  <2>1. T.msg \in Messages /\ T.part \in 1..T.msg.frags
    BY DEF Sends
  <2>2. T.part \in Nat
    BY <2>1
  <2> QED BY <2>1, <2>2
<1>2. /\ IsSending(T) /\ T2.msg = m /\ r2.cut = r.cut
      /\ r2.readbuf = r.readbuf /\ r2.packetbuf = r.packetbuf /\ r2.up = r.up \o Fragment(m, p)
      /\ p # m.frags => T2.pc = T.pc /\ T2.part = p + 1
      /\ p = m.frags => T2.pc \in {"add", "relisten"}
  BY <1>1 DEF Sends
<1>3. m.frags \in Nat \ {0} /\ p \in Nat \ {0} /\ p <= m.frags /\ p \in 1..Size(m, "up")
  BY <1>1, MessageSizes DEF Size
<1>4. PICK f \in Seq(Pieces) :
        /\ f = Fragment(m, p) /\ Len(f) = 2 /\ f[1].msg = m /\ f[1].part = p /\ f[1].half = 1
        /\ f[2].msg = m /\ f[2].part = p /\ f[2].half = 2 /\ f # <<>>
  <2>1. PICK f \in Seq(Pieces) :
        /\ f = Fragment(m, p) /\ Len(f) = 2 /\ f[1].msg = m /\ f[1].part = p /\ f[1].half = 1
        /\ f[2].msg = m /\ f[2].part = p /\ f[2].half = 2
    BY <1>3, FragmentPieces
  <2>2. f # <<>>
    <3>1. Len(f) # 0
      BY <2>1
    <3> QED BY <3>1, EmptyRange
  <2> QED BY <2>1, <2>2
<1>5. PICK s \in Seq(Pieces) : s = Asked(r) /\ Asked(r2) = s \o f
  BY <1>2, <1>4, AskedType, UpAppended
<1>6. /\ Chained(s, "up", C) /\ Goes(s, "up", C, m, p)
      /\ ~r.cut => Starts(s) /\ (p > 1 => s # <<>>)
  BY <1>1, <1>2, <1>5, AsksWholeParts, NextAskedParts
<1>7. Chained(s \o f, "up", C)
  <2>1. Len(f) \in {1, 2} /\ p \in 1..Size(m, "up")
    BY <1>3, <1>4
  <2> QED BY <2>1, <1>4, <1>6, ChainedFragment
<1>8. /\ (s \o f) # <<>> /\ (s \o f)[Len(s \o f)] = f[2]
      /\ (s \o f)[1] = IF s = <<>> THEN f[1] ELSE s[1]
  BY <1>4, Lengthened
<1>9. ~r2.cut => Starts(s \o f)
  <2> SUFFICES ASSUME ~r.cut PROVE Place((s \o f)[1]) = 1
    BY <1>2 DEF Starts
  <2>1. CASE s = <<>>
    <3>1. p = 1
      BY <2>1, <1>3, <1>6
    <3>2. Place(f[1]) = 1
      BY <3>1, <1>4 DEF Place
    <3> QED BY <3>2, <2>1, <1>8
  <2>2. CASE s # <<>>
    BY <2>2, <1>6, <1>8 DEF Starts
  <2> QED BY <2>1, <2>2
<1>10. AsksWhole(r2, C)
  <2>1. r.packetbuf # <<>> /\ Place(r.packetbuf[1]) = 1 /\ r.packetbuf[1].msg.no \notin C => Clean(r.packetbuf)
    BY AsksWholeParts
  <2> QED BY <2>1, <1>2, <1>5, <1>7, <1>9, AsksWholeParts
<1>11. NextAsked(T2, r2, C)
  <2>1. CASE p = m.frags
    <3>1. ~IsSending(T2)
      BY <2>1, <1>2 DEF IsSending
    <3>2. Ends(f[2], Size(f[2].msg, "up"))
      BY <2>1, <1>4 DEF Ends, Size
    <3>3. Goes(s \o f, "up", C, T2.msg, 1)
      BY <3>2, <1>8 DEF Goes
    <3> QED BY <3>1, <3>3, <1>5, NextAskedParts
  <2>2. CASE p # m.frags
    <3>1. T2.part > 1 /\ T2.part - 1 = p /\ T2.msg = m
      <4>1. T2.part = p + 1 /\ T2.msg = m /\ p \in Nat \ {0}
        BY <2>2, <1>2, <1>3
      <4>2. T2.part > 1 /\ T2.part - 1 = p
        BY ONLY <4>1
      <4> QED BY <4>1, <4>2
    <3>2. Goes(s \o f, "up", C, T2.msg, T2.part)
      BY <3>1, <1>4, <1>8 DEF Goes
    <3>3. IsSending(T2)
      BY <2>2, <1>2 DEF IsSending
    <3> QED BY <3>2, <3>3, <1>5, <1>8, NextAskedParts
  <2> QED BY <2>1, <2>2
<1> QED BY <1>10, <1>11

(* And so does the beginning of it where a send stops, if its call is one of *)
(* those cut from then on.                                                   *)
LEMMA StopsStream ==
  ASSUME NEW T, NEW T2, NEW r \in Connections, NEW r2 \in Connections, NEW C, NEW C2,
         NEW f \in Seq(Pieces), NEW begun \in BOOLEAN, Stops(T, T2, r, r2, f, begun),
         AsksWhole(r, C), NextAsked(T, r, C), C \subseteq C2, begun => T.msg.no \in C2
  PROVE  AsksWhole(r2, C2) /\ NextAsked(T2, r2, C2)
<1>1. PICK m \in Messages, p \in Nat : m = T.msg /\ p = T.part /\ p \in 1..m.frags
  <2>1. T.msg \in Messages /\ T.part \in 1..T.msg.frags
    BY DEF Stops
  <2>2. T.part \in Nat
    BY <2>1
  <2> QED BY <2>1, <2>2
<1>2. /\ IsSending(T) /\ ~IsSending(T2) /\ (r2.cut <=> r.cut \/ begun)
      /\ r2.readbuf = r.readbuf /\ r2.packetbuf = r.packetbuf /\ r2.up = r.up \o f
      /\ \/ f = <<>> /\ (begun <=> p > 1)
         \/ Len(f) = 1 /\ begun /\ f[1].msg = m /\ f[1].part = p /\ f[1].half = 1
  BY <1>1 DEF Stops, IsSending
<1>3. p \in 1..Size(m, "up") /\ p \in Nat \ {0}
  BY <1>1 DEF Size
<1>4. PICK s \in Seq(Pieces) : s = Asked(r) /\ Asked(r2) = s \o f
  BY <1>2, AskedType, UpAppended
<1>5. /\ Chained(s, "up", C) /\ Goes(s, "up", C, m, p)
      /\ ~r.cut => Starts(s)
      /\ r.packetbuf # <<>> /\ Place(r.packetbuf[1]) = 1 /\ r.packetbuf[1].msg.no \notin C => Clean(r.packetbuf)
  BY <1>1, <1>2, <1>4, AsksWholeParts, NextAskedParts
<1>6. Chained(s \o f, "up", C2) /\ Goes(s \o f, "up", C2, T2.msg, 1) /\ (~r2.cut => Starts(s \o f))
  <2>1. CASE f = <<>>
    <3>1. s \o f = s
      BY <2>1, ConcatEmptySeq
    <3>2. begun <=> p > 1
      <4>1. Len(f) # 1
        BY <2>1, EmptyRange
      <4> QED BY <4>1, <1>2
    <3>3. Chained(s, "up", C2)
      BY <1>5 DEF Chained
    <3>4. Goes(s, "up", C2, T2.msg, 1)
      <4>1. CASE p > 1
        BY <4>1, <3>2, <1>1, <1>5 DEF Goes
      <4>2. CASE ~(p > 1)
        BY <4>2, <1>5 DEF Goes
      <4> QED BY <4>1, <4>2
    <3> QED BY <3>1, <3>3, <3>4, <1>2, <1>5
  <2>2. CASE f # <<>>
    <3>1. Len(f) = 1 /\ begun /\ f[1].msg = m /\ f[1].part = p /\ f[1].half = 1 /\ m.no \in C2
      BY <2>2, <1>1, <1>2
    <3>2. Chained(s \o f, "up", C)
      <4>1. Len(f) \in {1, 2} /\ Len(f) # 2
        BY <3>1
      <4> QED BY <4>1, <3>1, <1>3, <1>5, ChainedFragment
    <3>3. Chained(s \o f, "up", C2)
      BY <3>2 DEF Chained
    <3>4. Goes(s \o f, "up", C2, T2.msg, 1)
      <4>1. (s \o f)[Len(s \o f)] = f[1]
        BY <2>2, <3>1, Lengthened
      <4>2. (s \o f)[Len(s \o f)].msg.no \in C2
        BY <4>1, <3>1
      <4> QED BY <4>2 DEF Goes
    <3> QED BY <3>1, <3>3, <3>4, <1>2
  <2> QED BY <2>1, <2>2
<1>7. AsksWhole(r2, C2)
  <2>1. r2.packetbuf # <<>> /\ Place(r2.packetbuf[1]) = 1 /\ r2.packetbuf[1].msg.no \notin C2 =>
          Clean(r2.packetbuf)
    BY <1>2, <1>5
  <2> QED BY <2>1, <1>4, <1>6, AsksWholeParts
<1>8. NextAsked(T2, r2, C2)
  <2>1. ~(IsSending(T2) /\ T2.part > 1)
    BY <1>2
  <2> QED BY <2>1, <1>4, <1>6, NextAskedParts
<1> QED BY <1>7, <1>8

(* A packet that ends no record goes on with the one under way.              *)
LEMMA QuietStream ==
  ASSUME NEW r \in Connections, NEW r2 \in Connections, NEW C, NEW n, NEW taken \in Seq(Pieces),
         ReadKeeps(r, r2), ReadQuiet(r, r2, taken), AsksWhole(r, C), Asks(r, n)
  PROVE  AsksWhole(r2, C)
<1>1. Asked(r2) = Asked(r) /\ r2.cut = r.cut
  BY ReadQuietAsked DEF ReadKeeps
<1>2. PICK rec \in Seq(Pieces), rest \in Seq(Pieces) :
        rec = r.packetbuf \o taken /\ rest = r2.readbuf \o r2.up /\ r2.packetbuf = rec /\ Asked(r) = rec \o rest
  BY PacketMoved DEF ReadQuiet
<1>3. ASSUME rec # <<>>, Place(rec[1]) = 1, rec[1].msg.no \notin C PROVE Clean(rec)
  <2>1. CASE taken = <<>>
    <3>1. rec = r.packetbuf
      BY <2>1, <1>2, ConnectionFields, ConcatEmptySeq
    <3> QED BY <3>1, <1>3 DEF AsksWhole
  <2>2. CASE taken # <<>>
    <3>1. Asked(r)[1] = rec[1] /\ Asked(r) # <<>> /\ \A i \in 1..Len(rec) : rec[i] \in Range(Asked(r))
      <4>1. PICK s \in Seq(Pieces) : s = rec \o rest /\ s = Asked(r)
        BY <1>2, Concatenated
      <4>2. /\ Len(s) = Len(rec) + Len(rest) /\ Len(rest) \in Nat /\ Len(rec) \in Nat
            /\ \A i \in 1..Len(rec) : s[i] = rec[i] /\ i \in 1..Len(s)
        BY <4>1, Joined
      <4>3. 1 \in 1..Len(rec)
        BY <4>2, <1>3, FirstPiece
      <4>4. s # <<>>
        BY <4>2, <4>3, EmptyRange
      <4>5. \A i \in 1..Len(rec) : rec[i] \in Range(s)
        BY <4>2, InRange
      <4>6. s[1] = rec[1]
        BY <4>2, <4>3
      <4> QED BY <4>1, <4>4, <4>5, <4>6
    <3>2. PICK last \in BOOLEAN : last = FALSE
      OBVIOUS
    <3>3. /\ PacketOff(r, r2, taken) /\ Packet(r, taken, last)
          /\ Place(Asked(r)[1]) = 1 /\ Asked(r)[1].msg.no \notin C /\ Asked(r) # <<>>
      BY <2>2, <3>1, <3>2, <1>3 DEF ReadQuiet
    <3>4. PICK m \in Messages :
            /\ m = Asked(r)[1].msg
            /\ \A i \in 1..Len(rec) : rec[i].msg = m /\ Place(rec[i]) = i
            /\ rec[Len(rec)].half = 2 /\ Len(rec) = 2 * rec[Len(rec)].part
            /\ Len(rec) # 2 * m.frags
      <4>1. /\ r \in Connections /\ r2 \in Connections /\ taken \in Seq(Pieces) /\ last \in BOOLEAN
            /\ AsksWhole(r, C)
        OBVIOUS
      <4>2. /\ Asked(r)[1].msg \in Messages
            /\ \A i \in 1..Len(r.packetbuf \o taken) :
                 (r.packetbuf \o taken)[i].msg = Asked(r)[1].msg /\ Place((r.packetbuf \o taken)[i]) = i
            /\ (r.packetbuf \o taken)[Len(r.packetbuf \o taken)].half = 2
            /\ Len(r.packetbuf \o taken) = 2 * (r.packetbuf \o taken)[Len(r.packetbuf \o taken)].part
            /\ last <=> Len(r.packetbuf \o taken) = 2 * Asked(r)[1].msg.frags
        BY ONLY <3>3, <4>1, NextPacket
      <4> QED BY <4>2, <3>2, <1>2
    <3>5. PICK l \in Pieces, k \in Nat :
            l = rec[Len(rec)] /\ l.msg = m /\ l.part <= m.frags /\ k = Len(rec) /\ k = 2 * l.part
      <4>1. Len(rec) \in Nat /\ Len(rec) >= 1
        BY <1>3, FirstPiece
      <4>2. Len(rec) \in 1..Len(rec)
        BY <4>1
      <4>3. rec[Len(rec)] \in Pieces /\ rec[Len(rec)].msg = m /\ rec[Len(rec)] \in Range(Asked(r))
        BY <4>2, <3>1, <3>4, ElementOfSeq
      <4> QED BY <4>1, <4>3, <3>4 DEF Asks
    <3>6. \A i \in 1..Len(rec) : ~Ends(rec[i], rec[i].msg.frags)
      <4> SUFFICES ASSUME NEW i \in 1..k, Ends(rec[i], m.frags) PROVE FALSE
        BY <3>4, <3>5
      <4>1. rec[i] \in Pieces /\ Place(rec[i]) = i
        BY <3>4, <3>5, ElementOfSeq
      <4>2. m.frags \in Nat /\ l.part \in Nat
        BY MessageSizes, PlaceOfPiece
      <4>3. i = 2 * m.frags
        BY <4>1, <4>2, PlaceBounds DEF Ends
      <4>4. PICK a \in Nat, b \in Nat : a = m.frags /\ b = l.part
        BY <4>2
      <4>5. 2 * b = k /\ k # 2 * a /\ b <= a /\ i = 2 * a /\ i <= k
        BY <4>3, <4>4, <3>4, <3>5
      <4> QED BY ONLY <4>4, <4>5
    <3>7. rec[1].msg = m
      <4>1. 1 \in 1..Len(rec)
        BY <1>3, FirstPiece
      <4> QED BY <4>1, <3>4
    <3> QED BY <3>4, <3>6, <3>7 DEF Clean
  <2> QED BY <2>1, <2>2
<1>4. Chained(Asked(r2), "up", C) /\ (~r2.cut => Starts(Asked(r2)))
  BY <1>1, AsksWholeParts
<1> QED BY <1>2, <1>3, <1>4, AsksWholeParts

(* What a record leaves, whole or not.                                       *)
LEMMA RecordStream ==
  ASSUME NEW r \in Connections, NEW r2 \in Connections, NEW C, NEW taken \in Seq(Pieces),
         ReadKeeps(r, r2), ReadRecord(r, r2, taken), AsksWhole(r, C), ~r.cut => C = {}
  PROVE  /\ AsksWhole(r2, C)
         /\ \A T : /\ NextAsked(T, r, C)
                   /\ IsSending(T) => T.msg \in Messages /\ T.part \in 1..T.msg.frags
                  => NextAsked(T, r2, C)
<1>1. PICK rec \in Seq(Pieces), rest \in Seq(Pieces), s \in Seq(Pieces) :
        /\ rec = r.packetbuf \o taken /\ rest = Asked(r2) /\ s = Asked(r)
        /\ s = rec \o rest /\ r2.packetbuf = <<>>
  <2>1. r.packetbuf \o taken \in Seq(Pieces) /\ Asked(r) = (r.packetbuf \o taken) \o Asked(r2)
    BY ReadRecordAsked
  <2>2. Asked(r) \in Seq(Pieces) /\ Asked(r2) \in Seq(Pieces) /\ r2.packetbuf = <<>>
    BY AskedType DEF ReadRecord
  <2> QED BY <2>1, <2>2
<1>2. /\ Chained(s, "up", C) /\ (~r.cut => Starts(s)) /\ r2.cut = r.cut
  BY <1>1, AsksWholeParts DEF ReadKeeps
<1>3. /\ Chained(rest, "up", C)
      /\ rec # <<>> /\ rest # <<>> =>
           /\ rec[Len(rec)].msg.no \notin C => After(rec[Len(rec)], rest[1], Size(rec[Len(rec)].msg, "up"))
           /\ s[Len(s)] = rest[Len(rest)]
  <2>1. Chained(rec \o rest, "up", C)
    BY <1>1, <1>2
  <2>2. /\ Chained(rest, "up", C)
        /\ rec # <<>> /\ rest # <<>> =>
             /\ rec[Len(rec)].msg.no \notin C => After(rec[Len(rec)], rest[1], Size(rec[Len(rec)].msg, "up"))
             /\ (rec \o rest)[Len(rec \o rest)] = rest[Len(rest)]
    BY <2>1, ChainedRest
  <2> QED BY <2>2, <1>1
<1>4. rec = <<>> => s = rest
  BY <1>1, ConcatEmptySeq
<1>5. rec # <<>> => s # <<>> /\ s[1] = rec[1] /\ (rest = <<>> => s[Len(s)] = rec[Len(rec)])
  <2> SUFFICES ASSUME rec # <<>>
               PROVE  s # <<>> /\ s[1] = rec[1] /\ (rest = <<>> => s[Len(s)] = rec[Len(rec)])
    OBVIOUS
  <2>1. /\ Len(s) = Len(rec) + Len(rest) /\ Len(rest) \in Nat /\ Len(rec) \in Nat
        /\ \A i \in 1..Len(rec) : s[i] = rec[i]
    BY <1>1, Joined
  <2>2. 1 \in 1..Len(rec) /\ Len(rec) \in 1..Len(rec)
    BY <2>1, FirstPiece
  <2>3. s # <<>>
    <3>1. Len(s) # 0
      BY <2>1, <2>2
    <3> QED BY <3>1, EmptyRange
  <2>4. rest = <<>> => Len(s) = Len(rec)
    BY <2>1, EmptyRange
  <2> QED BY <2>1, <2>2, <2>3, <2>4
\* of a connection where no send was cut, it is a whole call
<1>6. ASSUME ~r.cut, rec # <<>>
      PROVE  /\ rec[Len(rec)].msg \in Messages /\ rec[Len(rec)].msg.no \notin C
             /\ rec[Len(rec)].part = rec[Len(rec)].msg.frags /\ rec[Len(rec)].half = 2
  <2>1. Place(rec[1]) = 1 /\ rec[1].msg.no \notin C /\ rec[1].msg \in Messages
    BY <1>2, <1>5, <1>6, FirstPiece DEF Starts
  <2>2. Whole(rec, rec[1].msg.frags)
    BY <2>1, <1>1, <1>6, RecordBegins
  <2>3. rec[Len(rec)].msg = rec[1].msg /\ rec[Len(rec)].part = rec[1].msg.frags /\ rec[Len(rec)].half = 2
    <3>1. PICK m \in Messages : m = rec[1].msg /\ Whole(rec, m.frags)
      BY <2>1, <2>2
    <3>2. PICK n \in Nat \ {0} : n = m.frags
      BY MessageSizes
    <3>3. Whole(rec, n) /\ rec \in Seq(Pieces) /\ n \in Nat \ {0}
      BY <3>1, <3>2
    <3>4. rec[Len(rec)].msg = rec[1].msg /\ rec[Len(rec)].part = n /\ rec[Len(rec)].half = 2
      BY ONLY <3>3, WholeRecord
    <3> QED BY <3>1, <3>2, <3>4
  <2> QED BY <2>1, <2>3
<1>7. ~r2.cut => Starts(rest)
  <2> SUFFICES ASSUME ~r.cut, rest # <<>> PROVE Place(rest[1]) = 1
    BY <1>2 DEF Starts
  <2>1. CASE rec = <<>>
    BY <2>1, <1>2, <1>4 DEF Starts
  <2>2. CASE rec # <<>>
    <3>1. Ends(rec[Len(rec)], Size(rec[Len(rec)].msg, "up"))
      BY <2>2, <1>6 DEF Ends, Size
    <3> QED BY <3>1, <2>2, <1>3, <1>6 DEF After
  <2> QED BY <2>1, <2>2
<1>8. AsksWhole(r2, C)
  BY <1>1, <1>3, <1>7, AsksWholeParts
<1>9. ASSUME NEW T, NextAsked(T, r, C), IsSending(T) => T.msg \in Messages /\ T.part \in 1..T.msg.frags
      PROVE  NextAsked(T, r2, C)
  <2>1. CASE rec = <<>>
    BY <2>1, <1>1, <1>2, <1>4, <1>9 DEF NextAsked
  <2>2. CASE rec # <<>> /\ rest # <<>>
    BY <2>2, <1>1, <1>2, <1>3, <1>5, <1>9 DEF NextAsked
  <2>3. CASE rec # <<>> /\ rest = <<>>
    <3>1. ASSUME ~r.cut, IsSending(T), T.part > 1 PROVE FALSE
      <4>1. s[Len(s)].msg = T.msg /\ s[Len(s)].part = T.part - 1
        BY <3>1, <2>3, <1>1, <1>5, <1>9 DEF NextAsked
      <4>2. rec[Len(rec)].part = rec[Len(rec)].msg.frags /\ s[Len(s)] = rec[Len(rec)]
        BY <2>3, <3>1, <1>5, <1>6
      <4>3. T.part - 1 = T.msg.frags /\ T.part \in 1..T.msg.frags /\ T.msg.frags \in Nat
        BY <4>1, <4>2, <3>1, <1>9, MessageSizes
      <4> QED BY <4>3
    <3> QED BY <3>1, <2>3, <1>1, <1>2 DEF NextAsked
  <2> QED BY <2>1, <2>2, <2>3
<1> QED BY <1>8, <1>9

(* What a thread's step leaves to the others.                                *)
LEMMA OtherSocket ==
  ASSUME SafeInv, NEW t \in Threads, NEW u \in Threads, u # t, th[u].sock # NoSocket
  PROVE  th[u].sock # th[t].sock /\ th[u].sock \in 1..Len(conn)
BY ThreadFacts

\* the calls of t that were cut
CutAt(as, t) == {n \in DOMAIN as : as[n].by = t /\ as[n].cut}
\* what StreamInv says of a connection, and of a thread
StreamOf(r, as) == ~r.broken => AsksWhole(r, Cuts(r, CutAt(as, r.by)))
NextOf(T, t, cs, as) ==
  T.sock # NoSocket /\ ~cs[T.sock].broken => NextAsked(T, cs[T.sock], Cuts(cs[T.sock], CutAt(as, t)))

(* The calls that were cut, before a step and after it.                      *)
LEMMA CutAtIs ==
  /\ \A u : CutAt(calls, u) = CutBy(u)
  /\ \A u : CutAt(calls', u) = CutBy(u)'
BY DEF CutAt, CutBy

(* StreamInv connection by connection and thread by thread.                  *)
LEMMA StreamParts ==
  ASSUME SafeInv
  PROVE  StreamInv <=> /\ \A c \in 1..Len(conn) : StreamOf(conn[c], calls)
                       /\ \A t \in Threads : NextOf(th[t], t, conn, calls)
<1>1. \A t \in Threads : th[t].sock # NoSocket => CutOn(conn[th[t].sock]) = Cuts(conn[th[t].sock], CutAt(calls, t))
  <2>1. \A t \in Threads : th[t].sock # NoSocket => conn[th[t].sock].by = t
    BY ThreadFacts
  <2> QED BY <2>1, CutAtIs DEF CutOn
<1>2. \A c \in 1..Len(conn) : CutOn(conn[c]) = Cuts(conn[c], CutAt(calls, conn[c].by))
  BY CutAtIs DEF CutOn
<1> QED BY <1>1, <1>2 DEF StreamInv, StreamOf, NextOf

(* And after a step.                                                         *)
LEMMA StreamPartsNext ==
  ASSUME SafeInv',
         \A c \in 1..Len(conn') : StreamOf(conn'[c], calls'),
         \A t \in Threads : NextOf(th'[t], t, conn', calls')
  PROVE  StreamInv'
<1>1. \A t \in Threads : th'[t].sock # NoSocket => conn'[th'[t].sock].by = t
  BY NextFacts
<1>2. \A c : CutOn(conn[c])' = Cuts(conn'[c], CutAt(calls', conn'[c].by))
  BY CutAtIs DEF CutOn, Cuts
<1>3. ASSUME NEW c \in 1..Len(conn'), ~conn'[c].broken
      PROVE  AsksWhole(conn'[c], CutOn(conn[c])')
  BY <1>2, <1>3 DEF StreamOf
<1>4. ASSUME NEW t \in Threads, th'[t].sock # NoSocket, ~conn'[th'[t].sock].broken
      PROVE  NextAsked(th'[t], conn'[th'[t].sock], CutOn(conn[th[t].sock])')
  <2>1. NextAsked(th'[t], conn'[th'[t].sock], Cuts(conn'[th'[t].sock], CutAt(calls', t)))
    BY <1>4 DEF NextOf
  <2>2. CutOn(conn[th[t].sock])' = Cuts(conn'[th'[t].sock], CutAt(calls', t))
    BY <1>1, <1>4, CutAtIs DEF CutOn, Cuts
  <2> QED BY <2>1, <2>2
<1> QED BY <1>3, <1>4 DEF StreamInv

(* Most steps cut none.                                                      *)
LEMMA CutsStay ==
  ASSUME SafeInv, NEW t \in Threads, UNCHANGED calls \/ Send(t) \/ SendFragment(t)
  PROVE  \A u \in Threads : CutAt(calls', u) = CutAt(calls, u)
<1>1. CASE UNCHANGED calls
  BY <1>1
<1>2. CASE Send(t)
  BY <1>2, SendCalls, CutAtIs
<1>3. CASE SendFragment(t)
  BY <1>3, FragmentCalls, CutAtIs
<1> QED BY <1>1, <1>2, <1>3

(* A thread that writes nothing disturbs no stream.                          *)
LEMMA StreamRest ==
  ASSUME SafeInv, SafeInv', StreamInv, NEW t \in Threads, ClientNext(t), ~Writes(t)
  PROVE  StreamInv'
<1>1. /\ ClientRest(t) /\ CarriesOn(t)
      /\ \/ Moved(t)
         \/ Quiet(t)
         \/ OnOwn(t) /\ ~IsSending(th[t]) /\ ~IsSending(th'[t])
  <2>1. \/ Moved(t) \/ Quiet(t)
        \/ OnOwn(t) /\ Reads(th[t], th'[t], xidlist[t], xidlist'[t], conn[th[t].sock], conn'[th[t].sock])
        \/ OnOwn(t) /\ Misreads(th[t], th'[t], xidlist[t], xidlist'[t], conn[th[t].sock])
    BY ClientCases
  <2> QED BY <2>1, ClientCases DEF ClientRest, Reads, Misreads, IsSending
<1>2. \A u \in Threads : CutAt(calls', u) = CutAt(calls, u)
  BY <1>1, CutsStay DEF ClientRest
<1>3. ASSUME NEW c \in 1..Len(conn')
      PROVE  StreamOf(conn'[c], calls')
  <2> SUFFICES ASSUME ~conn'[c].broken PROVE AsksWhole(conn'[c], Cuts(conn'[c], CutAt(calls', conn'[c].by)))
    BY DEF StreamOf
  <2>1. CASE c \in 1..Len(conn)
    <3>1. Kept(conn[c], conn'[c]) /\ conn[c].by \in Threads
      BY <2>1, <1>1, StateFacts, ConnectionFields DEF CarriesOn
    <3>2. AsksWhole(conn[c], Cuts(conn[c], CutAt(calls, conn[c].by)))
      BY <3>1, <2>1, StreamParts DEF Kept, StreamOf
    <3>3. /\ Cuts(conn'[c], CutAt(calls', conn'[c].by)) = Cuts(conn[c], CutAt(calls, conn[c].by))
          /\ Asked(conn'[c]) = Asked(conn[c]) /\ conn'[c].packetbuf = conn[c].packetbuf
          /\ conn'[c].cut = conn[c].cut
      BY <3>1, <1>2 DEF Kept, Cuts, Asked
    <3> QED BY <3>2, <3>3, KeptStream
  <2>2. CASE c \notin 1..Len(conn)
    <3>1. conn'[c] = Connection(t)
      BY <2>2, <1>1 DEF CarriesOn
    <3> QED BY <3>1, NewStream
  <2> QED BY <2>1, <2>2
<1>4. ASSUME NEW u \in Threads, u # t PROVE NextOf(th'[u], u, conn', calls')
  <2>1. th'[u] = th[u]
    BY <1>1, <1>4 DEF ClientRest
  <2>2. CASE th[u].sock # NoSocket
    <3>1. conn'[th[u].sock] = conn[th[u].sock]
      BY <2>2, <1>1, <1>4, OtherSocket DEF CarriesOn
    <3> QED BY <2>1, <3>1, <1>2, StreamParts DEF NextOf
  <2>3. CASE th[u].sock = NoSocket
    BY <2>1, <2>3 DEF NextOf
  <2> QED BY <2>2, <2>3
<1>5. NextOf(th'[t], t, conn', calls')
  <2> SUFFICES ASSUME th'[t].sock # NoSocket, ~conn'[th'[t].sock].broken
               PROVE  NextAsked(th'[t], conn'[th'[t].sock], Cuts(conn'[th'[t].sock], CutAt(calls', t)))
    BY DEF NextOf
  <2>1. CASE Moved(t)
    <3>1. th'[t].sock = Len(conn) + 1 /\ (IsSending(th'[t]) => th'[t].part = 1)
      BY <2>1 DEF Moved, IsSending
    <3>2. th'[t].sock \in 1..Len(conn') /\ th'[t].sock \notin 1..Len(conn)
      BY <3>1, NextFacts, StateFacts
    <3>3. conn'[th'[t].sock] = Connection(t)
      BY <3>2, <1>1 DEF CarriesOn
    <3> QED BY <3>1, <3>3, NewStream
  <2>2. CASE ~Moved(t)
    <3>1. th'[t].sock = th[t].sock /\ ~IsSending(th[t]) /\ (IsSending(th'[t]) => th'[t].part = 1)
      BY <2>2, <1>1 DEF Quiet, OnOwn, IsSending
    <3>2. th[t].sock # NoSocket /\ th[t].sock \in 1..Len(conn)
      BY <3>1, ThreadFacts
    <3>3. Kept(conn[th[t].sock], conn'[th[t].sock])
      BY <3>2, <1>1 DEF CarriesOn
    <3>4. NextAsked(th[t], conn[th[t].sock], Cuts(conn[th[t].sock], CutAt(calls, t)))
      BY <3>1, <3>2, <3>3, StreamParts DEF NextOf, Kept
    <3>5. /\ Cuts(conn'[th[t].sock], CutAt(calls', t)) = Cuts(conn[th[t].sock], CutAt(calls, t))
          /\ Asked(conn'[th[t].sock]) = Asked(conn[th[t].sock])
          /\ conn'[th[t].sock].cut = conn[th[t].sock].cut
      BY <3>3, <1>2 DEF Kept, Cuts, Asked
    <3> QED BY <3>1, <3>4, <3>5, KeptNext
  <2> QED BY <2>1, <2>2
<1> QED BY <1>3, <1>4, <1>5, StreamPartsNext

(* Nor does one that sends, or stops sending.                                *)
LEMMA StreamWrites ==
  ASSUME SafeInv, SafeInv', StreamInv, NEW t \in Threads, Writes(t)
  PROVE  StreamInv'
<1>1. /\ OnOwn(t) /\ Len(conn') = Len(conn)
      /\ \A c \in 1..Len(conn) : c # th[t].sock => conn'[c] = conn[c]
      /\ \A u \in Threads : u # t => th'[u] = th[u]
      /\ ~conn[th[t].sock].broken
  BY CasesSendFragment, CasesStop DEF Writes, Sends, Stops
<1>2. PICK s \in 1..Len(conn), r \in Connections, r2 \in Connections :
        /\ s = th[t].sock /\ s = th'[t].sock /\ r = conn[s] /\ r2 = conn'[s] /\ s # NoSocket
        /\ r.by = t /\ r2.by = t
  BY <1>1, ThreadFacts, StateFacts, NextFacts DEF OnOwn
<1>3. PICK C : C = Cuts(r, CutAt(calls, t)) /\ AsksWhole(r, C) /\ NextAsked(th[t], r, C)
  BY <1>1, <1>2, StreamParts DEF NextOf, StreamOf
<1>4. PICK C2 : /\ C2 = Cuts(r2, CutAt(calls', t)) /\ AsksWhole(r2, C2) /\ NextAsked(th'[t], r2, C2)
                /\ \A u \in Threads : CutAt(calls, u) \subseteq CutAt(calls', u)
                /\ \A u \in Threads : u # t => CutAt(calls', u) = CutAt(calls, u)
  <2>1. CASE SendFragment(t)
    <3>1. Sends(th[t], th'[t], xidlist[t], xidlist'[t], r, r2)
      BY <2>1, <1>2, CasesSendFragment
    <3>2. AsksWhole(r2, C) /\ NextAsked(th'[t], r2, C)
      BY <3>1, <1>3, SendsStream
    <3>3. \A u \in Threads : CutAt(calls', u) = CutAt(calls, u)
      BY <2>1, CutsStay
    <3>4. C = Cuts(r2, CutAt(calls', t))
      BY <3>1, <3>3, <1>3 DEF Sends, Cuts
    <3> QED BY <3>2, <3>3, <3>4
  <2>2. CASE SendTimeout(t) /\ th[t].pc = "send"
    <3>1. PICK f \in Seq(Pieces), begun \in BOOLEAN :
            /\ calls' = [calls EXCEPT ![th[t].msg.no].cut = begun]
            /\ Stops(th[t], th'[t], r, r2, f, begun)
      BY <2>2, <1>2, CasesStop
    <3>2. /\ CutAt(calls', t) = CutAt(calls, t) \union (IF begun THEN {th[t].msg.no} ELSE {})
          /\ \A u \in Threads : u # t => CutAt(calls', u) = CutAt(calls, u)
      <4>1. /\ CutBy(t)' = CutBy(t) \union (IF begun THEN {th[t].msg.no} ELSE {})
            /\ \A u \in Threads : u # t => CutBy(u)' = CutBy(u)
        BY <2>2, <3>1, StopCalls
      <4> QED BY <4>1, CutAtIs
    <3>3. PICK C2 : C2 = Cuts(r2, CutAt(calls', t))
      OBVIOUS
    <3>4. C \subseteq C2 /\ (begun => th[t].msg.no \in C2)
      <4>1. r2.cut <=> r.cut \/ begun
        BY <3>1 DEF Stops
      <4> QED BY <4>1, <3>2, <3>3, <1>3 DEF Cuts
    <3>5. AsksWhole(r2, C2) /\ NextAsked(th'[t], r2, C2)
      BY <3>1, <3>4, <1>3, StopsStream
    <3>6. \A u \in Threads : CutAt(calls, u) \subseteq CutAt(calls', u)
      BY <3>2
    <3> QED BY <3>2, <3>3, <3>5, <3>6
  <2> QED BY <2>1, <2>2 DEF Writes
<1>5. ASSUME NEW c \in 1..Len(conn') PROVE StreamOf(conn'[c], calls')
  <2>1. CASE c = s
    BY <2>1, <1>2, <1>4 DEF StreamOf
  <2>2. CASE c # s /\ ~conn[c].broken
    <3>1. conn'[c] = conn[c] /\ conn[c].by \in Threads /\ c \in 1..Len(conn)
      BY <2>2, <1>1, <1>2, StateFacts, ConnectionFields
    <3>2. AsksWhole(conn[c], Cuts(conn[c], CutAt(calls, conn[c].by)))
      BY <3>1, <2>2, StreamParts DEF StreamOf
    <3>3. Cuts(conn[c], CutAt(calls, conn[c].by)) \subseteq Cuts(conn[c], CutAt(calls', conn[c].by))
      BY <3>1, <1>4 DEF Cuts
    <3>4. AsksWhole(conn[c], Cuts(conn[c], CutAt(calls', conn[c].by)))
      BY <3>2, <3>3, KeptStream
    <3> QED BY <3>1, <3>4 DEF StreamOf
  <2>3. CASE c # s /\ conn[c].broken
    BY <2>3, <1>1, <1>2 DEF StreamOf
  <2> QED BY <2>1, <2>2, <2>3
<1>6. ASSUME NEW u \in Threads PROVE NextOf(th'[u], u, conn', calls')
  <2>1. CASE u = t
    BY <2>1, <1>2, <1>4 DEF NextOf
  <2>2. CASE u # t /\ th[u].sock # NoSocket
    <3>1. conn'[th[u].sock] = conn[th[u].sock] /\ th'[u] = th[u]
      BY <2>2, <1>1, OtherSocket
    <3> QED BY <3>1, <2>2, <1>4, StreamParts DEF NextOf
  <2>3. CASE u # t /\ th[u].sock = NoSocket
    BY <2>3, <1>1 DEF NextOf
  <2> QED BY <2>1, <2>2, <2>3
<1> QED BY <1>5, <1>6, StreamPartsNext

(* What a step of the server leaves of the stream it reads.                  *)
LEMMA ServedStream ==
  ASSUME SafeInv, SafeInv', NEW c \in 1..Len(conn), ServerNext(c) \/ Break(c), ~conn'[c].broken,
         NEW C, ~conn[c].cut => C = {}, AsksWhole(conn[c], C)
  PROVE  /\ AsksWhole(conn'[c], C) /\ conn'[c].cut = conn[c].cut
         /\ \A T : /\ NextAsked(T, conn[c], C)
                   /\ IsSending(T) => T.msg \in Messages /\ T.part \in 1..T.msg.frags
                  => NextAsked(T, conn'[c], C)
<1>1. PICK r \in Connections, r2 \in Connections : r = conn[c] /\ r2 = conn'[c]
  <2>1. conn[c] \in Connections /\ conn'[c] \in Connections
    BY ServerCases, StateFacts, NextFacts DEF ServerRest
  <2> QED BY <2>1
<1>2. CASE Refiled(r, r2) \/ \E f \in Seq(Pieces) : WriteKeeps(r, r2)
  <2>1. /\ Asked(r2) = Asked(r) /\ r2.packetbuf = r.packetbuf /\ r2.cut = r.cut
    BY <1>2, WriteAsked
  <2>2. AsksWhole(r2, C)
    BY <2>1, <1>1, KeptStream
  <2>3. \A T : NextAsked(T, r, C) => NextAsked(T, r2, C)
    BY <2>1 DEF NextAsked
  <2> QED BY <1>1, <2>1, <2>2, <2>3
<1>3. CASE \E taken \in Seq(Pieces) : ReadKeeps(r, r2) /\ ReadQuiet(r, r2, taken) /\ ~r.broken
  <2>1. PICK taken \in Seq(Pieces) : ReadKeeps(r, r2) /\ ReadQuiet(r, r2, taken) /\ ~r.broken
    BY <1>3
  <2>2. PICK n : n = Len(calls) /\ Asks(r, n)
    BY <2>1, <1>1, StateFacts
  <2>3. AsksWhole(r2, C)
    <3>1. AsksWhole(r, C)
      BY <1>1
    <3> QED BY ONLY <3>1, <2>1, <2>2, QuietStream
  <2>4. Asked(r2) = Asked(r) /\ r2.cut = r.cut
    BY <2>1, ReadQuietAsked DEF ReadKeeps
  <2>5. \A T : NextAsked(T, r, C) => NextAsked(T, r2, C)
    BY <2>4 DEF NextAsked
  <2> QED BY <1>1, <2>3, <2>4, <2>5
<1>4. CASE \E taken \in Seq(Pieces) : ReadKeeps(r, r2) /\ ReadRecord(r, r2, taken)
  <2>1. PICK taken \in Seq(Pieces) : ReadKeeps(r, r2) /\ ReadRecord(r, r2, taken)
    BY <1>4
  <2>2. AsksWhole(r, C) /\ (~r.cut => C = {}) /\ r2.cut = r.cut
    BY <1>1, <2>1 DEF ReadKeeps
  <2>3. /\ AsksWhole(r2, C)
        /\ \A T : /\ NextAsked(T, r, C)
                  /\ IsSending(T) => T.msg \in Messages /\ T.part \in 1..T.msg.frags
                 => NextAsked(T, r2, C)
    BY ONLY <2>1, <2>2, RecordStream
  <2> QED BY <1>1, <2>2, <2>3
<1>5. \/ Refiled(r, r2)
      \/ \E taken \in Seq(Pieces) : ReadKeeps(r, r2) /\ ReadQuiet(r, r2, taken) /\ ~r.broken
      \/ \E taken \in Seq(Pieces) : ReadKeeps(r, r2) /\ ReadRecord(r, r2, taken)
      \/ \E f \in Seq(Pieces) : WriteKeeps(r, r2)
  <2>1. CASE \E taken \in Seq(Pieces) : Passes(c, taken)
    BY <2>1, <1>1 DEF Passes, ReadDropped
  <2>2. CASE \E taken \in Seq(Pieces) : Runs(c, taken)
    BY <2>2, <1>1 DEF Runs, ReadCall
  <2> QED BY <2>1, <2>2, <1>1, ServerCases
<1> QED BY <1>2, <1>3, <1>4, <1>5

(* The server keeps the streams whole.                                       *)
LEMMA StreamServer ==
  ASSUME SafeInv, SafeInv', StreamInv, NEW c \in 1..Len(conn), ServerNext(c) \/ Break(c)
  PROVE  StreamInv'
<1>1. /\ ServerRest(c) /\ Len(conn') = Len(conn) /\ th' = th /\ calls' = calls
      /\ \A k \in 1..Len(conn) : k # c => conn'[k] = conn[k]
      /\ conn'[c].by = conn[c].by
  BY ServerCases DEF ServerRest
<1>2. PICK C : C = Cuts(conn[c], CutAt(calls, conn[c].by)) /\ (~conn[c].cut => C = {})
  BY DEF Cuts
<1>3. ~conn'[c].broken =>
        /\ AsksWhole(conn[c], C) /\ AsksWhole(conn'[c], C) /\ conn'[c].cut = conn[c].cut
        /\ \A T : /\ NextAsked(T, conn[c], C)
                  /\ IsSending(T) => T.msg \in Messages /\ T.part \in 1..T.msg.frags
                 => NextAsked(T, conn'[c], C)
  <2> SUFFICES ASSUME ~conn'[c].broken
               PROVE  /\ AsksWhole(conn[c], C) /\ AsksWhole(conn'[c], C) /\ conn'[c].cut = conn[c].cut
                      /\ \A T : /\ NextAsked(T, conn[c], C)
                                /\ IsSending(T) => T.msg \in Messages /\ T.part \in 1..T.msg.frags
                               => NextAsked(T, conn'[c], C)
    OBVIOUS
  <2>1. ~conn[c].broken
    <3>1. \/ Refiled(conn[c], conn'[c]) \/ ~conn[c].broken
          \/ WriteKeeps(conn[c], conn'[c])
      BY ServerCases DEF Passes, Runs
    <3> QED BY <3>1, WriteAsked
  <2>2. AsksWhole(conn[c], C)
    BY <2>1, <1>2, StreamParts DEF StreamOf
  <2> QED BY <2>2, <1>2, ServedStream
<1>4. ASSUME NEW k \in 1..Len(conn') PROVE StreamOf(conn'[k], calls')
  <2>1. CASE k = c
    <3>1. ~conn'[c].broken => C = Cuts(conn'[c], CutAt(calls', conn'[c].by))
      BY <1>1, <1>2, <1>3 DEF Cuts
    <3> QED BY <2>1, <3>1, <1>3 DEF StreamOf
  <2>2. CASE k # c
    <3>1. k \in 1..Len(conn) /\ conn'[k] = conn[k]
      BY <1>1, <2>2
    <3> QED BY <3>1, <1>1, StreamParts
  <2> QED BY <2>1, <2>2
<1>5. ASSUME NEW u \in Threads PROVE NextOf(th'[u], u, conn', calls')
  <2>1. CASE th[u].sock = c
    <3> SUFFICES ASSUME ~conn'[c].broken PROVE NextAsked(th[u], conn'[c], Cuts(conn'[c], CutAt(calls, u)))
      BY <2>1, <1>1 DEF NextOf
    <3>1. th[u].sock # NoSocket /\ conn[c].by = u
      BY <2>1, ThreadFacts, StateFacts DEF NoSocket, Owned
    <3>2. ~conn[c].broken
      <4>1. \/ Refiled(conn[c], conn'[c]) \/ ~conn[c].broken
            \/ WriteKeeps(conn[c], conn'[c])
        BY ServerCases DEF Passes, Runs
      <4> QED BY <4>1, WriteAsked
    <3>3. NextAsked(th[u], conn[c], C)
      BY <2>1, <3>1, <3>2, <1>2, StreamParts DEF NextOf
    <3>4. IsSending(th[u]) => th[u].msg \in Messages /\ th[u].part \in 1..th[u].msg.frags
      BY ThreadFacts DEF Client, IsSending
    <3>5. NextAsked(th[u], conn'[c], C)
      BY <3>3, <3>4, <1>3
    <3>6. C = Cuts(conn'[c], CutAt(calls, u))
      BY <3>1, <1>2, <1>3 DEF Cuts
    <3> QED BY <3>5, <3>6
  <2>2. CASE th[u].sock # c /\ th[u].sock # NoSocket
    <3>1. conn'[th[u].sock] = conn[th[u].sock]
      BY <2>2, <1>1, ThreadFacts
    <3> QED BY <2>2, <3>1, <1>1, StreamParts DEF NextOf
  <2>3. CASE th[u].sock = NoSocket
    BY <2>3, <1>1 DEF NextOf
  <2> QED BY <2>1, <2>2, <2>3
<1> QED BY <1>4, <1>5, StreamPartsNext

(* Every step keeps the streams of requests whole.                           *)
LEMMA StreamNext == SafeInv /\ SafeInv' /\ StreamInv /\ [Next]_vars => StreamInv'
<1> SUFFICES ASSUME SafeInv, SafeInv', StreamInv, [Next]_vars PROVE StreamInv'
  OBVIOUS
<1>1. ASSUME NEW t \in Threads, ClientNext(t) PROVE StreamInv'
  BY <1>1, StreamRest, StreamWrites
<1>2. ASSUME NEW c \in 1..Len(conn), ServerNext(c) \/ Break(c) PROVE StreamInv'
  BY <1>2, StreamServer
<1>3. CASE UNCHANGED vars
  BY <1>3 DEF vars, StreamInv, CutOn, CutBy
<1>4. CASE Next
  <2>1. DOMAIN conn = 1..Len(conn)
    BY StateFacts
  <2> QED BY <1>1, <1>2, <1>4, <2>1 DEF Next
<1> QED BY <1>3, <1>4

(* They are so at the start.                                                 *)
LEMMA StreamInit == Init => StreamInv
<1> SUFFICES ASSUME Init PROVE StreamInv
  OBVIOUS
<1>1. conn = << Connection(Creator) >> /\ Len(conn) = 1 /\ conn[1] = Connection(Creator) /\ Creator \in Threads
  BY ConstantTypes, RpcAssumption DEF Init
<1>2. ASSUME NEW c \in 1..Len(conn) PROVE AsksWhole(conn[c], CutOn(conn[c]))
  <2>1. conn[c] = Connection(Creator)
    BY <1>1
  <2> QED BY <1>1, <2>1, NewStream
<1>3. ASSUME NEW t \in Threads, th[t].sock # NoSocket
      PROVE  NextAsked(th[t], conn[th[t].sock], CutOn(conn[th[t].sock]))
  <2>1. th[t].sock = 1 /\ th[t].part = 0 /\ th[t].pc = "idle"
    BY <1>3 DEF Init, Thread, NoSocket
  <2>2. ~IsSending(th[t])
    BY <2>1 DEF IsSending
  <2> QED BY <2>1, <2>2, <1>1, NewStream
<1> QED BY <1>2, <1>3 DEF StreamInv

(* The invariant holds of every state.                                       *)
THEOREM RpcSafe == Spec => [](SafeInv /\ StreamInv)
BY SafeInit, SafeNext, StreamInit, StreamNext, PTL DEF Spec

(* Every variable keeps its type.                                            *)
THEOREM RpcTypes == Spec => []TypeInv
<1>1. SafeInv => TypeInv
  BY DEF SafeInv
<1> QED BY <1>1, RpcSafe, PTL

(* listen returns the answer to the call it was asked about, unless one that *)
(* had its xid before was cut.                                               *)
THEOREM RpcAnswersMatch == Spec => []AnswersMatch
<1>1. SafeInv => AnswersMatch
  <2> SUFFICES ASSUME SafeInv, NEW t \in Threads, th[t].answer # None
               PROVE  \/ th[t].answer.call = th[t].answer.reply
                      \/ /\ th[t].answer.call.xid = th[t].answer.reply.xid
                         /\ Spoilt(t, th[t].answer.call.xid)
    BY DEF AnswersMatch
  <2>1. Fits(th[t].answer, CutBy(t))
    BY DEF SafeInv, Outcome
  <2>2. th[t].answer.call.xid \in Xids(CutBy(t)) => Spoilt(t, th[t].answer.call.xid)
    BY DEF Xids, CutBy, Spoilt
  <2> QED BY <2>1, <2>2 DEF Fits
<1> QED BY <1>1, RpcSafe, PTL

(* A whole reply is always to a call on the list, where no call was cut.     *)
THEOREM RpcNoStrayReply == Spec => []NoStrayReply
<1>1. SafeInv => NoStrayReply
  BY DEF SafeInv, Outcome, NoStrayReply, Sock
<1> QED BY <1>1, RpcSafe, PTL

(* The server runs a call at most once for each time it was sent whole, and  *)
(* once more if it was cut.                                                  *)
THEOREM RpcRunAsSent == Spec => []RunAsSent
<1>1. Init => RunInv
  <2> SUFFICES ASSUME Init PROVE RanInv /\ HeldInv /\ AloneInv
    BY DEF RunInv
  <2>1. Len(calls) = 0
    BY DEF Init
  <2>2. RanInv
    BY <2>1 DEF RanInv
  <2>3. \A t \in Threads : th[t].pc = "idle" /\ DOMAIN xidlist[t] = {}
    BY DEF Init, Thread
  <2> QED BY <2>2, <2>3 DEF HeldInv, Held, AloneInv
<1>2. SafeInv /\ RunInv => RunAsSent
  <2> SUFFICES ASSUME SafeInv, RunInv, NEW n \in DOMAIN calls PROVE ran[n] <= Due(calls[n])
    BY DEF RunAsSent, Due
  <2>1. /\ ran \in Seq(Nat) /\ calls \in Seq(Asking) /\ Len(ran) = Len(calls)
        /\ conn \in Seq(Connections)
    BY StateFacts
  <2>2. n \in 1..Len(calls)
    BY <2>1
  <2>3. ran[n] \in Nat /\ calls[n] \in Asking
    BY <2>1, <2>2, ElementOfSeq
  <2>4. Cardinality(CarriedOn(conn, calls[n], n)) \in Nat
    BY <2>1, CarriedFinite
  <2>5. ran[n] + Cardinality(CarriedOn(conn, calls[n], n)) <= Due(calls[n])
    BY <2>2 DEF RunInv, RanInv
  <2>6. Due(calls[n]) \in Nat
    BY <2>3 DEF Due, Asking
  <2> QED BY ONLY <2>3, <2>4, <2>5, <2>6
<1> QED BY <1>1, <1>2, RunNext, RpcSafe, PTL DEF Spec

(* A record that is no call is read only where a send was cut.               *)
LEMMA DiesReading ==
  ASSUME SafeInv, StreamInv, NEW c \in 1..Len(conn), ReadData(c), alive, ~alive'
  PROVE  conn[c].fd = "open" /\ conn[c].cut
<1>1. Serving(c) /\ conn[c].fd = "open" /\ ~conn[c].broken /\ conn[c].up # <<>>
  <2>1. conn[c] \in Connections /\ \E k \in 1..Len(conn[c].up) : TRUE
    BY StateFacts DEF ReadData
  <2>2. Len(conn[c].up) # 0
    BY <2>1, ConnectionFields
  <2>3. conn[c].up # <<>>
    BY <2>1, <2>2, ConnectionFields, EmptySeq
  <2> QED BY <2>3 DEF ReadData, Serving
<1>2. PICK r \in Connections : r = conn[c] /\ AsksWhole(r, CutOn(r)) /\ r.up # <<>>
  BY <1>1, StateFacts DEF StreamInv
<1>3. PICK r2 \in Connections, taken \in Seq(Pieces) :
        ReadRecord(r, r2, taken) /\ Wrong(r.packetbuf \o taken)
  BY <1>2, ReadCases DEF ReadDropped
<1>4. ASSUME ~r.cut PROVE FALSE
  <2>1. PICK C : C = {} /\ AsksWhole(r, C) /\ Starts(Asked(r))
    <3>1. CutOn(r) = {}
      BY <1>4 DEF CutOn, Cuts
    <3> QED BY <3>1, <1>2, <1>4, AsksWholeParts
  <2>2. Asked(r) # <<>>
    <3>1. PICK s \in Seq(Pieces), u \in Seq(Pieces) : s = r.packetbuf \o r.readbuf /\ u = r.up
      BY ConnectionFields, Concatenated
    <3>2. (s \o u) # <<>>
      BY <3>1, <1>2, Lengthened
    <3> QED BY <3>1, <3>2 DEF Asked
  <2>3. PICK last \in BOOLEAN : last = TRUE
    OBVIOUS
  <2>4. /\ PacketOff(r, r2, taken) /\ Packet(r, taken, last) /\ Asked(r) # <<>>
        /\ Place(Asked(r)[1]) = 1 /\ Asked(r)[1].msg.no \notin C
    BY <1>3, <2>1, <2>2, <2>3 DEF ReadRecord, Starts
  <2>5. PICK rec : /\ rec = r.packetbuf \o taken /\ rec \in Seq(Pieces) /\ rec # <<>>
                   /\ rec[1] = Asked(r)[1]
    <3>1. r \in Connections /\ r2 \in Connections /\ taken \in Seq(Pieces) /\ AsksWhole(r, C)
      BY <2>1
    <3>2. LET q == r.packetbuf \o taken IN q \in Seq(Pieces) /\ q # <<>> /\ q[1] = Asked(r)[1]
      BY ONLY <3>1, <2>3, <2>4, NextPacket
    <3> QED BY <3>2
  <2>6. Place(rec[1]) = 1 /\ rec[1].msg.no \notin C
    BY <2>4, <2>5
  <2>7. Whole(rec, rec[1].msg.frags)
    BY <1>3, <2>1, <2>5, <2>6, RecordBegins
  <2> QED BY <1>3, <2>5, <2>7 DEF Wrong
<1> QED BY <1>1, <1>2, <1>4

(* And the loop ends over nothing else.                                      *)
LEMMA DiesOnly ==
  SafeInv /\ SafeInv' /\ StreamInv /\ [Next]_vars =>
    [(alive /\ ~alive') => \E c \in DOMAIN conn :
       /\ conn[c].fd = "open"
       /\ \/ conn[c].broken
          \/ ~conn[c].open /\ conn[c].mask = "both"
          \/ conn[c].cut]_vars
<1> SUFFICES ASSUME SafeInv, SafeInv', StreamInv, Next, alive, ~alive'
             PROVE  \E c \in 1..Len(conn) :
                      /\ conn[c].fd = "open"
                      /\ \/ conn[c].broken
                         \/ ~conn[c].open /\ conn[c].mask = "both"
                         \/ conn[c].cut
  BY StateFacts
<1>1. ASSUME NEW t \in Threads, ClientNext(t) PROVE FALSE
  <2>1. CASE SendFragment(t)
    BY <2>1 DEF SendFragment
  <2>2. CASE SendTimeout(t)
    BY <2>2 DEF SendTimeout
  <2>3. CASE ~Writes(t)
    BY <1>1, <2>3, ClientCases DEF ClientRest
  <2> QED BY <2>1, <2>2, <2>3 DEF Writes
<1>2. ASSUME NEW c \in 1..Len(conn), ServerNext(c) \/ Break(c)
      PROVE  /\ conn[c].fd = "open"
             /\ \/ conn[c].broken
                \/ ~conn[c].open /\ conn[c].mask = "both"
                \/ conn[c].cut
  <2>1. CASE ReadData(c)
    BY <2>1, DiesReading
  <2>2. CASE ReadEnd(c)
    BY <2>2 DEF ReadEnd, Serving
  <2>3. CASE EventHup(c)
    BY <2>3 DEF EventHup
  <2>4. CASE EventNewClient(c) \/ EventWrite(c) \/ Break(c)
    BY <2>4 DEF EventNewClient, EventWrite, Break
  <2> QED BY <1>2, <2>1, <2>2, <2>3, <2>4 DEF ServerNext
<1>3. DOMAIN conn = 1..Len(conn)
  BY StateFacts
<1> QED BY <1>1, <1>2, <1>3 DEF Next

(* The loop ends only over a connection that was reset, that was closed with *)
(* a reply still to be written, or where a send was cut.                     *)
THEOREM RpcServerDiesOnlyOf == Spec => ServerDiesOnlyOf
BY DiesOnly, RpcSafe, PTL DEF Spec, ServerDiesOnlyOf

-----------------------------------------------------------------------------
(* The streams of replies.                                                   *)

\* p is the beginning of a record
Begun(p, w) == \A i \in 1..Len(p) : p[i].msg = p[1].msg /\ Place(p[i]) = i /\ ~Ends(p[i], Size(p[i].msg, w))
\* the stream s is one of whole records
Unbroken(s, w) == Starts(s) /\ Chained(s, w, {})

\* what the queue q has next comes after the stream s
QueueNext(s, q) ==
  /\ \A i \in 2..Len(q) : q[i].part = 1
  /\ IF q # <<>> /\ q[1].part > 1
     THEN s # <<>> /\ s[Len(s)].msg = q[1].msg /\ s[Len(s)].part = q[1].part - 1 /\ s[Len(s)].half = 2
     ELSE s # <<>> => Ends(s[Len(s)], Size(s[Len(s)].msg, "down"))

(* What TellsWhole says in terms of chains.                                  *)
LEMMA TellsWholeParts ==
  ASSUME NEW T, NEW r
  PROVE  TellsWhole(T, r) <=> /\ Begun(T.got, "down") /\ Unbroken(Told(T, r), "down")
                              /\ QueueNext(Told(T, r), r.recordbuf)
BY DEF TellsWhole, Begun, Unbroken, Starts, Chained, Size, QueueNext

(* What is told depends on the buffers alone.                                *)
LEMMA SameTells ==
  ASSUME NEW T, NEW T2, NEW r, NEW r2, T2.got = T.got, r2.down = r.down, r2.writebuf = r.writebuf,
         r2.recordbuf = r.recordbuf, TellsWhole(T, r)
  PROVE  TellsWhole(T2, r2)
<1>1. Told(T2, r2) = Told(T, r)
  BY DEF Told
<1> QED BY <1>1, TellsWholeParts

(* What is left once a whole record is taken.                                *)
LEMMA UnbrokenRest ==
  ASSUME NEW w, NEW rec \in Seq(Pieces), NEW rest \in Seq(Pieces), Unbroken(rec \o rest, w), rec # <<>>,
         Ends(rec[Len(rec)], Size(rec[Len(rec)].msg, w))
  PROVE  Unbroken(rest, w)
<1>1. PICK C : C = {} /\ Chained(rec \o rest, w, C)
  BY DEF Unbroken
<1>2. /\ Chained(rest, w, C)
      /\ rest # <<>> => After(rec[Len(rec)], rest[1], Size(rec[Len(rec)].msg, w))
  BY <1>1, ChainedRest
<1> QED BY <1>1, <1>2 DEF Unbroken, Starts, After

(* The beginning of a record and the piece that comes next.                  *)
LEMMA GotGrows ==
  ASSUME NEW w, NEW g \in Seq(Pieces), NEW x \in Pieces, NEW rest \in Seq(Pieces),
         Begun(g, w), Unbroken(Append(g, x) \o rest, w)
  PROVE  /\ x.msg = Append(g, x)[1].msg /\ Place(x) = Len(g) + 1
         /\ ~Ends(x, Size(x.msg, w)) => Begun(Append(g, x), w)
         /\ Ends(x, Size(x.msg, w)) => Whole(Append(g, x), Size(Append(g, x)[1].msg, w))
<1>1. PICK rec \in Seq(Pieces), k \in Nat : rec = Append(g, x) /\ k = Len(g)
  BY AppendProperties, LenProperties
<1>2. /\ Len(rec) = k + 1 /\ rec[k + 1] = x /\ \A i \in 1..k : rec[i] = g[i]
  BY <1>1, AppendProperties
<1>3. PICK s \in Seq(Pieces) : s = rec \o rest
  BY Concatenated
<1>4. /\ Len(s) = (k + 1) + Len(rest) /\ Len(rest) \in Nat
      /\ \A i \in 1..(k + 1) : s[i] = rec[i]
  <2>1. Len(s) = Len(rec) + Len(rest) /\ Len(rest) \in Nat
        /\ \A i \in 1..Len(rec) : s[i] = rec[i]
    BY <1>3, Joined
  <2> QED BY <2>1, <1>2
<1>5. Unbroken(s, w)
  BY <1>1, <1>3
<1>6. x.msg = rec[1].msg /\ Place(x) = k + 1
  <2>1. CASE k = 0
    <3>1. 1 \in 1..Len(s) /\ s[1] = rec[1] /\ rec[1] = x
      BY <2>1, <1>2, <1>4
    <3>2. s # <<>>
      BY <3>1, EmptySeq
    <3> QED BY <3>1, <3>2, <1>5, <2>1 DEF Unbroken, Starts
  <2>2. CASE k # 0
    <3>1. k \in 1..k /\ k \in 1..(Len(s) - 1) /\ k \in 1..(k + 1) /\ k + 1 \in 1..(k + 1) /\ 1 \in 1..k
      BY <2>2, <1>1, <1>4
    <3>2. g[k].msg = g[1].msg /\ Place(g[k]) = k /\ ~Ends(g[k], Size(g[k].msg, w))
      BY <3>1, <1>1 DEF Begun
    <3>3. After(s[k], s[k + 1], Size(s[k].msg, w))
      BY <3>1, <1>5 DEF Unbroken, Chained
    <3>4. s[k] = g[k] /\ s[k + 1] = x /\ rec[1] = g[1]
      BY <3>1, <1>2, <1>4
    <3> QED BY <3>2, <3>3, <3>4 DEF After
  <2> QED BY <2>1, <2>2
<1>7. \A i \in 1..Len(rec) : rec[i].msg = rec[1].msg /\ Place(rec[i]) = i
  <2> TAKE i \in 1..Len(rec)
  <2>1. CASE i \in 1..k
    <3>1. 1 \in 1..k
      BY <2>1, <1>1
    <3> QED BY <2>1, <3>1, <1>1, <1>2 DEF Begun
  <2>2. i \in 1..k \/ i = k + 1
    BY <1>1, <1>2
  <2> QED BY <2>1, <2>2, <1>2, <1>6
<1>8. ASSUME ~Ends(x, Size(x.msg, w)) PROVE Begun(rec, w)
  <2> SUFFICES ASSUME NEW i \in 1..Len(rec) PROVE ~Ends(rec[i], Size(rec[i].msg, w))
    BY <1>7 DEF Begun
  <2>1. CASE i \in 1..k
    BY <2>1, <1>1, <1>2 DEF Begun
  <2>2. i \in 1..k \/ i = k + 1
    BY <1>1, <1>2
  <2> QED BY <2>1, <2>2, <1>2, <1>8
<1>9. ASSUME Ends(x, Size(x.msg, w)) PROVE Whole(rec, Size(rec[1].msg, w))
  <2>1. Len(rec) = 2 * Size(rec[1].msg, w)
    <3>1. PICK q \in Nat : q = x.part /\ q = Size(x.msg, w) /\ x.half = 2
      BY <1>9, SizeType, PlaceOfPiece DEF Ends
    <3>2. Place(x) = 2 * (q - 1) + 2
      BY <3>1 DEF Place
    <3>3. \A a, b \in Nat : 2 * (a - 1) + 2 = b + 1 => b + 1 = 2 * a
      OBVIOUS
    <3>4. k + 1 = 2 * q
      BY <3>2, <3>3, <3>1, <1>1, <1>6
    <3> QED BY <3>1, <3>4, <1>2, <1>6
  <2> QED BY <2>1, <1>7 DEF Whole
<1> QED BY <1>1, <1>6, <1>8, <1>9

(* What the client reads next is at the head of what it is told.             *)
LEMMA HeadTold ==
  ASSUME NEW T \in ThreadStates, NEW r \in Connections, r.down # <<>>
  PROVE  /\ Head(r.down) \in Pieces /\ Tail(r.down) \o r.writebuf \in Seq(Pieces)
         /\ Told(T, r) = Append(T.got, Head(r.down)) \o (Tail(r.down) \o r.writebuf)
<1>1. PICK d \in Seq(Pieces), x \in Pieces, e \in Seq(Pieces), v \in Seq(Pieces), g \in Seq(Pieces) :
        d = r.down /\ x = Head(d) /\ e = Tail(d) /\ v = r.writebuf /\ g = T.got
  <2>1. r.down \in Seq(Pieces) /\ r.writebuf \in Seq(Pieces) /\ T.got \in Seq(Pieces)
    BY ConnectionFields, ThreadFields
  <2>2. Head(r.down) \in Pieces /\ Tail(r.down) \in Seq(Pieces)
    BY <2>1, HeadTailProperties
  <2> QED BY <2>1, <2>2
<1>2. Append(g, x) \o e = g \o d
  <2>1. d # <<>>
    BY <1>1
  <2>2. PICK o \in Seq(Pieces) : o = <<x>>
    <3>1. x \in Pieces
      BY <1>1
    <3>2. <<x>> \in Seq(Pieces)
      BY <3>1
    <3> QED BY <3>2
  <2>3. o \o e = d
    BY <1>1, <2>1, <2>2
  <2>4. g \o o = Append(g, x)
    BY <2>2, AppendIsConcat
  <2>5. (g \o o) \o e = g \o (o \o e)
    <3>1. g \in Seq(Pieces) /\ o \in Seq(Pieces) /\ e \in Seq(Pieces)
      BY <1>1, <2>2
    <3> QED BY ONLY <3>1, Associative
  <2> QED BY <2>3, <2>4, <2>5
<1>3. PICK s \in Seq(Pieces) : s = Append(g, x)
  BY AppendProperties
<1>4. (s \o e) \o v = s \o (e \o v)
  BY Associative, Zenon
<1>5. e \o v \in Seq(Pieces)
  BY Concatenated
<1> QED BY <1>1, <1>2, <1>3, <1>4, <1>5 DEF Told

(* A reading thread's stream goes on where it stood.                         *)
LEMMA ReadsTells ==
  ASSUME NEW T \in ThreadStates, NEW T2 \in ThreadStates, NEW X, NEW X2, NEW r \in Connections,
         NEW r2 \in Connections, Reads(T, T2, X, X2, r, r2), r2.writebuf = r.writebuf,
         r2.recordbuf = r.recordbuf, TellsWhole(T, r), Tells(T, r)
  PROVE  TellsWhole(T2, r2)
<1> DEFINE x == Head(r.down)
           s == Append(T.got, x)
           rest == Tail(r.down) \o r.writebuf
<1>1. /\ r.down # <<>> /\ r2.down = Tail(r.down)
      /\ \/ ~Ends(x, x.msg.back) /\ T2.got = s
         \/ Ends(x, x.msg.back) /\ T2.got = <<>>
  BY DEF Reads
<1>2. x \in Pieces /\ rest \in Seq(Pieces) /\ Told(T, r) = s \o rest /\ T.got \in Seq(Pieces)
      /\ s \in Seq(Pieces) /\ Len(s) \in Nat \ {0} /\ s # <<>> /\ s[Len(s)] = x
  <2>1. x \in Pieces /\ rest \in Seq(Pieces) /\ Told(T, r) = s \o rest /\ T.got \in Seq(Pieces)
    BY <1>1, HeadTold, ThreadFields
  <2> HIDE DEF x, rest
  <2>2. s \in Seq(Pieces) /\ Len(s) = Len(T.got) + 1 /\ s # <<>> /\ s[Len(T.got) + 1] = x
    <3>1. T.got \in Seq(Pieces) /\ x \in Pieces
      BY <2>1
    <3> QED BY ONLY <3>1, AppendProperties
  <2>3. Len(T.got) \in Nat
    BY ThreadFields
  <2> HIDE DEF s
  <2> QED BY <2>1, <2>2, <2>3
<1>3. Begun(T.got, "down") /\ Unbroken(s \o rest, "down") /\ QueueNext(s \o rest, r.recordbuf)
  BY <1>2, TellsWholeParts
<1> HIDE DEF rest
<1>4. CASE ~Ends(x, x.msg.back)
  <2>1. T2.got = s /\ Told(T2, r2) = s \o rest
    <3>1. T2.got = s
      BY <1>1, <1>4
    <3>2. PICK a \in Seq(Pieces), e \in Seq(Pieces), v \in Seq(Pieces) :
            a = s /\ e = r2.down /\ v = r2.writebuf
      BY <1>2, ConnectionFields
    <3>3. (a \o e) \o v = a \o (e \o v)
      BY Associative, Zenon
    <3> QED BY <3>1, <3>2, <3>3, <1>1 DEF Told, rest
  <2>2. ~Ends(x, Size(x.msg, "down"))
    BY <1>4 DEF Size
  <2> HIDE DEF x
  <2>3. Begun(s, "down")
    BY <2>2, <1>2, <1>3, GotGrows
  <2> HIDE DEF s
  <2> QED BY <2>1, <2>3, <1>3, TellsWholeParts
<1>5. CASE Ends(x, x.msg.back)
  <2>1. T2.got = <<>> /\ Told(T2, r2) = rest
    <3>1. T2.got = <<>>
      BY <1>1, <1>5
    <3>2. PICK e \in Seq(Pieces) : e = r2.down
      BY ConnectionFields
    <3>3. <<>> \o e = e
      BY ConcatEmptySeq
    <3> QED BY <3>1, <3>2, <3>3, <1>1 DEF Told, rest
  <2>2. Ends(s[Len(s)], Size(s[Len(s)].msg, "down"))
    BY <1>2, <1>5 DEF Size
  <2>3. Begun(T2.got, "down")
    <3>1. Len(T2.got) = 0
      BY <2>1, EmptySeq
    <3>2. 1..Len(T2.got) = {}
      BY <3>1
    <3> QED BY <3>2 DEF Begun
  <2>4. x.part = x.msg.back /\ x.msg \in Messages /\ x.msg.back \in Nat
    BY <1>2, <1>5, PlaceOfPiece, MessageSizes DEF Ends
  <2> HIDE DEF s, x
  <2>5. Unbroken(rest, "down")
    BY <2>2, <1>2, <1>3, UnbrokenRest
  <2>6. QueueNext(rest, r.recordbuf)
    <3> DEFINE q == r.recordbuf
    <3>1. PICK u \in Seq(Pieces) : u = s \o rest
      BY <1>2, Concatenated
    <3>2. /\ Len(u) = Len(s) + Len(rest) /\ Len(rest) \in Nat /\ Len(s) \in Nat
          /\ \A i \in 1..Len(s) : u[i] = s[i]
          /\ \A i \in 1..Len(rest) : u[Len(s) + i] = rest[i]
      <4>1. s \in Seq(Pieces) /\ rest \in Seq(Pieces)
        BY <1>2
      <4> QED BY ONLY <4>1, <3>1, Joined
    <3>3. QueueNext(u, q) /\ u # <<>>
      <4>1. Len(u) # 0
        BY <3>2, <1>2
      <4> QED BY <4>1, <3>1, <1>3, EmptySeq
    <3>4. CASE rest = <<>>
      <4>1. Len(rest) = 0
        BY <3>4, EmptySeq
      <4>2. Len(u) = Len(s) /\ Len(s) \in 1..Len(s)
        BY <4>1, <3>2, <1>2
      <4>3. u[Len(u)] = x
        BY <4>2, <3>2, <1>2
      <4>4. ASSUME q # <<>>, q[1].part > 1 PROVE FALSE
        <5>1. x.msg = q[1].msg /\ x.part = q[1].part - 1
          BY <4>3, <4>4, <3>3 DEF QueueNext
        <5>2. 1 \in 1..Len(q) /\ q[1].part \in Nat
          <6>1. q \in Seq(Queued) /\ Len(q) \in Nat
            BY ConnectionFields
          <6>2. Len(q) # 0
            BY <6>1, <4>4, EmptySeq
          <6>3. 1 \in 1..Len(q)
            BY <6>1, <6>2
          <6>4. q[1] \in Queued
            BY <6>1, <6>3, ElementOfSeq
          <6> QED BY <6>3, <6>4 DEF Queued
        <5>3. q[1].part <= q[1].msg.back
          BY <5>2 DEF Tells
        <5> QED BY <5>1, <5>2, <5>3, <2>4
      <4> QED BY <4>4, <3>3, <3>4 DEF QueueNext
    <3>5. CASE rest # <<>>
      <4>1. Len(rest) # 0
        BY <3>5, <1>2, EmptySeq
      <4>2. Len(rest) \in 1..Len(rest) /\ u[Len(u)] = rest[Len(rest)]
        BY <4>1, <3>2
      <4> QED BY <4>2, <3>3, <3>5 DEF QueueNext
    <3> QED BY <3>4, <3>5
  <2> QED BY <2>1, <2>3, <2>5, <2>6, TellsWholeParts
<1> QED BY <1>4, <1>5

(* A thread never takes a body for a mark on such a connection.              *)
LEMMA MisreadsNever ==
  ASSUME NEW T \in ThreadStates, NEW T2, NEW X, NEW X2, NEW r \in Connections,
         Misreads(T, T2, X, X2, r), TellsWhole(T, r)
  PROVE  FALSE
<1> DEFINE x == Head(r.down)
           rest == Tail(r.down) \o r.writebuf
<1>1. r.down # <<>> /\ x.half # (Len(T.got) % 2) + 1
  BY DEF Misreads
<1>2. x \in Pieces /\ rest \in Seq(Pieces) /\ Told(T, r) = Append(T.got, x) \o rest
      /\ T.got \in Seq(Pieces) /\ Len(T.got) \in Nat
  BY <1>1, HeadTold, ThreadFields
<1>3. Begun(T.got, "down") /\ Unbroken(Append(T.got, x) \o rest, "down")
  BY <1>2, TellsWholeParts
<1> HIDE DEF x, rest
<1>4. Place(x) = Len(T.got) + 1
  BY <1>2, <1>3, GotGrows
<1>5. PICK q \in Nat \ {0}, h \in {1, 2}, k \in Nat : q = x.part /\ h = x.half /\ k = Len(T.got)
  BY <1>2 DEF Pieces
<1>6. 2 * (q - 1) + h = k + 1
  BY <1>4, <1>5 DEF Place
<1>7. h = (k % 2) + 1
  <2>1. PICK a \in Nat : a = q - 1
    BY <1>5
  <2>2. (2 * a) % 2 = 0 /\ (2 * a + 1) % 2 = 1
    BY <2>1
  <2>3. CASE h = 1
    <3>1. k = 2 * a
      BY <2>1, <2>3, <1>6
    <3> QED BY <3>1, <2>2, <2>3
  <2>4. CASE h = 2
    <3>1. k = 2 * a + 1
      BY <2>1, <2>4, <1>6
    <3> QED BY <3>1, <2>2, <2>4
  <2> QED BY <2>3, <2>4, <1>5
<1> QED BY <1>1, <1>5, <1>7

(* A chunk that is taken comes next.                                         *)
LEMMA WriteTells ==
  ASSUME NEW T \in ThreadStates, NEW r \in Connections, NEW r2 \in Connections, NEW f \in Seq(Pieces),
         WriteStep(r, r2, f), TellsWhole(T, r), Tells(T, r)
  PROVE  TellsWhole(T, r2)
<1>0. /\ Told(T, r) \in Seq(Pieces) /\ Told(T, r2) = Told(T, r) \o f
      /\ r.recordbuf \in Seq(Queued) /\ r2.recordbuf \in Seq(Queued)
  <2>1. Told(T, r) \in Seq(Pieces)
    BY Streams
  <2>2. Told(T, r2) = Told(T, r) \o f
    BY WriteTold
  <2>3. r.recordbuf \in Seq(Queued) /\ r2.recordbuf \in Seq(Queued)
    BY ConnectionFields
  <2> QED BY <2>1, <2>2, <2>3
<1>1. PICK s \in Seq(Pieces), q \in Seq(Queued), q2 \in Seq(Queued) :
        s = Told(T, r) /\ Told(T, r2) = s \o f /\ q = r.recordbuf /\ q2 = r2.recordbuf
  BY <1>0
<1>2. Begun(T.got, "down") /\ Unbroken(s, "down") /\ QueueNext(s, q)
  BY <1>1, TellsWholeParts
<1>3. CASE f = <<>> /\ q2 = q
  <2>1. s \o f = s
    BY <1>3, ConcatEmptySeq
  <2> QED BY <2>1, <1>1, <1>2, <1>3, TellsWholeParts
<1>4. CASE q # <<>> /\ f = Fragment(q[1].msg, q[1].part) /\ q2 = AfterChunk(q)
  <2>1. PICK m \in Messages, p \in Nat \ {0} :
          /\ m = q[1].msg /\ p = q[1].part /\ p <= m.back /\ Len(q) \in Nat \ {0} /\ m.back \in Nat
          /\ p = m.back => Len(q2) = Len(q) - 1 /\ \A i \in 1..Len(q2) : q2[i] = q[i + 1]
          /\ p # m.back => /\ Len(q2) = Len(q) /\ q2[1].msg = m /\ q2[1].part = p + 1
                           /\ \A i \in 1..Len(q2) : i # 1 => q2[i] = q[i]
    <3>1. /\ Len(q) \in Nat \ {0} /\ q[1].msg \in Messages /\ q[1].part \in Nat \ {0}
          /\ q[1].part = q[1].msg.back => Len(q2) = Len(q) - 1 /\ \A i \in 1..Len(q2) : q2[i] = q[i + 1]
          /\ q[1].part # q[1].msg.back =>
               /\ Len(q2) = Len(q) /\ q2[1].msg = q[1].msg /\ q2[1].part = q[1].part + 1
               /\ \A i \in 1..Len(q2) : i # 1 => q2[i] = q[i]
      BY <1>4, ChunkQueue
    <3>2. 1 \in 1..Len(q)
      BY <3>1
    <3>3. q[1].part <= q[1].msg.back
      BY <3>2, <1>1 DEF Tells
    <3> QED BY <3>1, <3>3, MessageSizes
  <2>2. PICK g \in Seq(Pieces) :
          /\ g = f /\ g = Fragment(m, p) /\ Len(g) = 2 /\ g # <<>>
          /\ g[1].msg = m /\ g[1].part = p /\ g[1].half = 1
          /\ g[2].msg = m /\ g[2].part = p /\ g[2].half = 2
    <3>1. PICK g \in Seq(Pieces) :
            /\ g = Fragment(m, p) /\ Len(g) = 2
            /\ g[1].msg = m /\ g[1].part = p /\ g[1].half = 1
            /\ g[2].msg = m /\ g[2].part = p /\ g[2].half = 2
      BY <2>1, FragmentPieces
    <3>2. g # <<>>
      <4>1. Len(g) # 0
        BY <3>1
      <4> QED BY <4>1, EmptyRange
    <3> QED BY <3>1, <3>2, <2>1, <1>4
  <2>3. Unbroken(s \o f, "down")
    <3>1. PICK C : C = {} /\ Chained(s, "down", C) /\ Goes(s, "down", C, m, p)
      BY <2>1, <1>2, <1>4 DEF QueueNext, Unbroken, Goes
    <3>2. p \in 1..Size(m, "down") /\ (s = <<>> => p = 1)
      BY <2>1, <1>2, <1>4 DEF Size, QueueNext
    <3>3. PICK l \in {1, 2} : l = 2
      OBVIOUS
    <3>4. Chained(s \o f, "down", C)
      BY <3>1, <3>2, <2>2, ChainedFragment
    <3>5. Starts(s \o f)
      <4>1. (s \o f)[1] = IF s = <<>> THEN f[1] ELSE s[1]
        BY <2>2, Lengthened
      <4>2. f[1].part = p /\ f[1].half = 1
        BY <2>2
      <4> QED BY <4>1, <4>2, <3>2, <1>2 DEF Unbroken, Starts, Place
    <3> QED BY <3>1, <3>4, <3>5 DEF Unbroken
  <2>4. PICK u \in Seq(Pieces) : u = s \o f
    BY Concatenated
  <2>5. u # <<>> /\ u[Len(u)] = g[2]
    <3>1. Len(f) = 2 /\ f[2] = g[2]
      BY <2>2
    <3>2. f \in Seq(Pieces) /\ f # <<>> /\ s \in Seq(Pieces)
      BY <2>2
    <3>3. u # <<>> /\ u[Len(u)] = f[Len(f)]
      BY ONLY <3>2, <2>4, Lengthened
    <3> QED BY <3>1, <3>3
  <2>6. QueueNext(u, q2)
    <3>1. \A i \in 2..Len(q) : q[i].part = 1
      BY <1>2 DEF QueueNext
    <3>2. CASE p = m.back
      <4>1. Len(q2) = Len(q) - 1 /\ \A i \in 1..Len(q2) : q2[i] = q[i + 1]
        BY <2>1, <3>2
      <4>2. \A i \in 1..Len(q2) : q2[i].part = 1
        <5> TAKE i \in 1..Len(q2)
        <5>1. i + 1 \in 2..Len(q)
          BY <4>1, <2>1
        <5>2. q2[i] = q[i + 1]
          BY <4>1
        <5>3. q[i + 1].part = 1
          BY <5>1, <3>1
        <5> QED BY <5>2, <5>3
      <4>3. ~(q2 # <<>> /\ q2[1].part > 1)
        <5> SUFFICES ASSUME q2 # <<>> PROVE ~(q2[1].part > 1)
          OBVIOUS
        <5>1. Len(q2) # 0 /\ Len(q2) \in Nat
          BY EmptySeq, LenProperties
        <5>2. 1 \in 1..Len(q2)
          BY <5>1
        <5>3. q2[1].part = 1
          BY <5>2, <4>2
        <5> QED BY <5>3
      <4>4. Ends(u[Len(u)], Size(u[Len(u)].msg, "down"))
        BY <2>2, <2>5, <3>2 DEF Ends, Size
      <4>5. \A i \in 2..Len(q2) : q2[i].part = 1
        BY <4>2
      <4> QED BY <4>3, <4>4, <4>5 DEF QueueNext
    <3>3. CASE p # m.back
      <4>1. /\ Len(q2) = Len(q) /\ q2[1].msg = m /\ q2[1].part = p + 1
            /\ \A i \in 1..Len(q2) : i # 1 => q2[i] = q[i]
        BY <2>1, <3>3
      <4>2. \A i \in 2..Len(q2) : q2[i].part = 1
        BY <4>1, <3>1
      <4>3. q2 # <<>> /\ q2[1].part > 1 /\ q2[1].part - 1 = p
        <5>1. Len(q2) # 0
          BY <4>1, <2>1
        <5>2. q2 # <<>>
          BY <5>1, EmptySeq
        <5> QED BY <5>2, <4>1, <2>1
      <4> QED BY <4>1, <4>2, <4>3, <2>2, <2>5 DEF QueueNext
    <3> QED BY <3>2, <3>3
  <2> QED BY <2>3, <2>4, <2>6, <1>1, <1>2, TellsWholeParts
<1>5. (f = <<>> /\ q2 = q) \/ (q # <<>> /\ f = Fragment(q[1].msg, q[1].part) /\ q2 = AfterChunk(q))
  BY <1>1 DEF WriteStep
<1> QED BY <1>3, <1>4, <1>5

(* A reply that is queued comes last.                                        *)
LEMMA CallTells ==
  ASSUME NEW T, NEW r \in Connections, NEW r2 \in Connections, NEW m,
         [msg |-> m, part |-> 1] \in Queued,
         r2.down = r.down, r2.writebuf = r.writebuf,
         r2.recordbuf = Append(r.recordbuf, [msg |-> m, part |-> 1]), TellsWhole(T, r)
  PROVE  TellsWhole(T, r2)
<1>1. PICK q \in Seq(Queued), k \in Nat, e \in Queued :
        q = r.recordbuf /\ k = Len(q) /\ e = [msg |-> m, part |-> 1] /\ e.part = 1
  BY ConnectionFields
<1>2. PICK q2 \in Seq(Queued) : q2 = Append(q, e)
  BY AppendProperties
<1>3. q2 # <<>> /\ Len(q2) = k + 1 /\ q2[k + 1] = e /\ \A i \in 1..k : q2[i] = q[i]
  BY <1>1, <1>2, AppendProperties
<1>4. Told(T, r2) = Told(T, r)
  BY DEF Told
<1>5. QueueNext(Told(T, r), q)
  BY <1>1, TellsWholeParts
<1>6. \A i \in 2..Len(q2) : q2[i].part = 1
  <2> TAKE i \in 2..Len(q2)
  <2>1. CASE i = k + 1
    BY <2>1, <1>1, <1>3
  <2>2. CASE i # k + 1
    <3>1. i \in 2..k /\ i \in 1..k
      BY <2>2, <1>1, <1>3
    <3> QED BY <3>1, <1>1, <1>3, <1>5 DEF QueueNext
  <2> QED BY <2>1, <2>2
<1>7. QueueNext(Told(T, r), q2)
  <2>1. CASE k = 0
    <3>1. q = <<>> /\ q2[1].part = 1
      BY <2>1, <1>1, <1>3, EmptySeq
    <3> QED BY <3>1, <1>5, <1>6 DEF QueueNext
  <2>2. CASE k # 0
    <3>1. q # <<>> /\ q2[1] = q[1]
      <4>1. 1 \in 1..k
        BY <2>2, <1>1
      <4> QED BY <4>1, <2>2, <1>1, <1>3, EmptySeq
    <3> QED BY <3>1, <1>3, <1>5, <1>6 DEF QueueNext
  <2> QED BY <2>1, <2>2
<1> QED BY <1>1, <1>2, <1>4, <1>7, TellsWholeParts

(* Nothing is told on a new connection.                                      *)
LEMMA NewTells ==
  ASSUME NEW t \in Threads, NEW T, T.got = <<>>
  PROVE  TellsWhole(T, Connection(t))
<1>0. PICK e \in Seq(Pieces) : e = <<>> /\ Len(e) = 0
  BY EmptySeq
<1>1. e = <<>> /\ e \o e = e /\ 1..Len(e) = {} /\ 1..(Len(e) - 1) = {}
  <2>1. \A k \in Nat : k = 0 => 1..k = {} /\ 1..(k - 1) = {}
    OBVIOUS
  <2>2. e \o e = e
    BY <1>0, ConcatEmptySeq
  <2> QED BY <2>1, <2>2, <1>0
<1>2. Told(T, Connection(t)) = e /\ T.got = e /\ Connection(t).recordbuf = <<>>
  BY <1>1, NewConnection DEF Told
<1>3. Begun(e, "down") /\ Unbroken(e, "down")
  BY <1>1 DEF Begun, Unbroken, Starts, Chained
<1>4. QueueNext(e, <<>>)
  <2>1. \A i \in 2..Len(<<>>) : FALSE
    OBVIOUS
  <2> QED BY <2>1, <1>1 DEF QueueNext
<1> QED BY <1>2, <1>3, <1>4, TellsWholeParts

\* what ReplyInv says of a thread
RepliesOf(T, cs) ==
  LET r == cs[T.sock]
  IN  T.sock # NoSocket /\ r.open /\ ~r.broken /\ ~r.torn => TellsWhole(T, r)

(* ReplyInv thread by thread.                                                *)
LEMMA ReplyParts == ReplyInv <=> \A t \in Threads : RepliesOf(th[t], conn)
BY DEF ReplyInv, RepliesOf, Usable, Sock

(* And after a step.                                                         *)
LEMMA ReplyPartsNext == ReplyInv' <=> \A t \in Threads : RepliesOf(th'[t], conn')
BY DEF ReplyInv, RepliesOf, Usable, Sock

(* What the others read is none of the thread's business.                    *)
LEMMA ReplyOthers ==
  ASSUME SafeInv, ReplyInv, NEW t \in Threads, NEW u \in Threads, u # t, th'[u] = th[u],
         \A c \in 1..Len(conn) : c # th[t].sock => conn'[c] = conn[c]
  PROVE  RepliesOf(th'[u], conn')
<1>1. CASE th[u].sock # NoSocket
  <2>1. conn'[th[u].sock] = conn[th[u].sock]
    BY <1>1, OtherSocket
  <2> QED BY <2>1, ReplyParts DEF RepliesOf
<1>2. CASE th[u].sock = NoSocket
  BY <1>2 DEF RepliesOf
<1> QED BY <1>1, <1>2

(* A thread that sends nothing, on a connection it keeps, reads on or leaves *)
(* what it has read torn.                                                    *)
LEMMA ReplyRest ==
  ASSUME SafeInv, SafeInv', ReplyInv, NEW t \in Threads, ClientNext(t), ~Writes(t)
  PROVE  RepliesOf(th'[t], conn')
<1> DEFINE T  == th[t]
           T2 == th'[t]
           s  == th[t].sock
<1>1. /\ ClientRest(t) /\ CarriesOn(t)
      /\ \/ Moved(t) \/ Quiet(t)
         \/ OnOwn(t) /\ Reads(T, T2, xidlist[t], xidlist'[t], conn[s], conn'[s])
         \/ OnOwn(t) /\ Misreads(T, T2, xidlist[t], xidlist'[t], conn[s])
  BY ClientCases DEF ClientRest
<1>2. T \in ThreadStates /\ T2 \in ThreadStates
  BY ThreadFacts, NextFacts
<1> SUFFICES ASSUME T2.sock # NoSocket, conn'[T2.sock].open, ~conn'[T2.sock].broken, ~conn'[T2.sock].torn
             PROVE  TellsWhole(T2, conn'[T2.sock])
  BY DEF RepliesOf
<1>3. CASE Moved(t)
  <2>1. T2.sock = Len(conn) + 1 /\ T2.got = <<>>
    BY <1>3 DEF Moved
  <2>2. T2.sock \in 1..Len(conn') /\ T2.sock \notin 1..Len(conn)
    BY <2>1, NextFacts, StateFacts
  <2>3. conn'[T2.sock] = Connection(t)
    BY <2>2, <1>1 DEF CarriesOn
  <2> QED BY <2>1, <2>3, NewTells
<1>4. CASE ~Moved(t)
  <2>1. T2.sock = s /\ s # NoSocket
    BY <1>1, <1>4 DEF Quiet, OnOwn
  <2>2. PICK r \in Connections, r2 \in Connections : r = conn[s] /\ r2 = conn'[s]
    BY <2>1, ThreadFacts, StateFacts, NextFacts
  <2>3. Kept(r, r2)
    BY <2>1, <2>2, <1>1, ThreadFacts DEF CarriesOn
  <2>4. r.open /\ ~r.broken /\ ~r.torn
    BY <2>1, <2>2, <2>3 DEF Kept
  <2>5. TellsWhole(T, r)
    BY <2>1, <2>2, <2>4, ReplyParts DEF RepliesOf
  <2>6. Tells(T, r)
    BY <2>1, <2>2, <2>4, ThreadFacts DEF Linked, Link
  <2>7. CASE Quiet(t)
    <3>1. T2.got = <<>> /\ r2.down = r.down /\ (T.got # <<>> => r2.torn)
      BY <2>1, <2>2, <2>7 DEF Quiet
    <3>2. T2.got = T.got
      BY <3>1, <2>1, <2>2
    <3> QED BY <3>1, <3>2, <2>1, <2>2, <2>3, <2>5, SameTells DEF Kept
  <2>8. CASE Reads(T, T2, xidlist[t], xidlist'[t], r, r2)
    <3>1. r2.writebuf = r.writebuf /\ r2.recordbuf = r.recordbuf
      BY <2>3 DEF Kept
    <3> HIDE DEF T, T2, s
    <3>2. TellsWhole(T2, r2)
      BY <3>1, <2>5, <2>6, <2>8, <1>2, ReadsTells
    <3> QED BY <3>2, <2>1, <2>2
  <2>9. CASE Misreads(T, T2, xidlist[t], xidlist'[t], r)
    <3> HIDE DEF T, T2, s
    <3> QED BY <2>5, <2>9, <1>2, MisreadsNever
  <2> QED BY <1>1, <1>4, <2>2, <2>7, <2>8, <2>9
<1> QED BY <1>3, <1>4

(* No thread's step breaks a stream of replies.                              *)
LEMMA ReplyClient ==
  ASSUME SafeInv, SafeInv', ReplyInv, NEW t \in Threads, ClientNext(t)
  PROVE  ReplyInv'
<1>1. CASE SendFragment(t)
  <2>1. /\ OnOwn(t) /\ Len(conn') = Len(conn)
        /\ \A c \in 1..Len(conn) : c # th[t].sock => conn'[c] = conn[c]
        /\ \A u \in Threads : u # t => th'[u] = th[u]
        /\ Sends(th[t], th'[t], xidlist[t], xidlist'[t], conn[th[t].sock], conn'[th[t].sock])
    BY <1>1, CasesSendFragment
  <2>2. PICK s \in 1..Len(conn), r \in Connections, r2 \in Connections :
          s = th[t].sock /\ s = th'[t].sock /\ r = conn[s] /\ r2 = conn'[s] /\ s # NoSocket
    BY <2>1, ThreadFacts, StateFacts, NextFacts DEF OnOwn
  <2>3. /\ r2.open = r.open /\ r2.broken = r.broken /\ r2.torn = r.torn
        /\ r2.down = r.down /\ r2.writebuf = r.writebuf /\ r2.recordbuf = r.recordbuf
        /\ th'[t].got = th[t].got
    BY <2>1, <2>2 DEF Sends
  <2>4. r2.open /\ ~r2.broken /\ ~r2.torn => TellsWhole(th'[t], r2)
    <3>1. r.open /\ ~r.broken /\ ~r.torn => TellsWhole(th[t], r)
      BY <2>2, ReplyParts DEF RepliesOf
    <3> QED BY <3>1, <2>3, SameTells
  <2>5. RepliesOf(th'[t], conn')
    BY <2>2, <2>4 DEF RepliesOf
  <2> QED BY <2>1, <2>5, ReplyOthers, ReplyPartsNext
<1>2. CASE SendTimeout(t) /\ th[t].pc = "send"
  <2>1. /\ OnOwn(t) /\ Len(conn') = Len(conn)
        /\ \A c \in 1..Len(conn) : c # th[t].sock => conn'[c] = conn[c]
        /\ \A u \in Threads : u # t => th'[u] = th[u]
    BY <1>2, CasesStop
  <2>2. PICK s \in 1..Len(conn), r \in Connections, r2 \in Connections :
          s = th[t].sock /\ s = th'[t].sock /\ r = conn[s] /\ r2 = conn'[s] /\ s # NoSocket
    BY <2>1, ThreadFacts, StateFacts, NextFacts DEF OnOwn
  <2>3. /\ r2.open = r.open /\ r2.broken = r.broken /\ r2.torn = r.torn
        /\ r2.down = r.down /\ r2.writebuf = r.writebuf /\ r2.recordbuf = r.recordbuf
        /\ th'[t].got = th[t].got
    BY <1>2, <2>2, CasesStop DEF Stops
  <2>4. r2.open /\ ~r2.broken /\ ~r2.torn => TellsWhole(th'[t], r2)
    <3>1. r.open /\ ~r.broken /\ ~r.torn => TellsWhole(th[t], r)
      BY <2>2, ReplyParts DEF RepliesOf
    <3> QED BY <3>1, <2>3, SameTells
  <2>5. RepliesOf(th'[t], conn')
    BY <2>2, <2>4 DEF RepliesOf
  <2> QED BY <2>1, <2>5, ReplyOthers, ReplyPartsNext
<1>3. CASE ~Writes(t)
  <2>1. /\ \A u \in Threads : u # t => th'[u] = th[u]
        /\ \A c \in 1..Len(conn) : c # th[t].sock => conn'[c] = conn[c]
    BY <1>3, ClientCases DEF ClientRest, CarriesOn
  <2>2. RepliesOf(th'[t], conn')
    BY <1>3, ReplyRest
  <2> QED BY <2>1, <2>2, ReplyOthers, ReplyPartsNext
<1> QED BY <1>1, <1>2, <1>3 DEF Writes

(* The server queues whole replies, and writes them in turn.                 *)
LEMMA ReplyServer ==
  ASSUME SafeInv, SafeInv', ReplyInv, NEW c \in 1..Len(conn), ServerNext(c) \/ Break(c)
  PROVE  ReplyInv'
<1>1. /\ ServerRest(c)
      /\ \/ conn'[c].broken
         \/ Refiled(conn[c], conn'[c])
         \/ \E taken \in Seq(Pieces) : Passes(c, taken)
         \/ \E taken \in Seq(Pieces) : Runs(c, taken)
         \/ \E f \in Seq(Pieces) : WriteKeeps(conn[c], conn'[c]) /\ WriteStep(conn[c], conn'[c], f)
  BY ServerCases
<1>2. PICK r \in Connections, r2 \in Connections : r = conn[c] /\ r2 = conn'[c]
  BY <1>1, StateFacts, NextFacts DEF ServerRest
<1>3. ASSUME NEW t \in Threads, th[t].sock = c, r2.open, ~r2.broken, ~r2.torn
      PROVE  TellsWhole(th[t], r2)
  <2>1. r.open /\ ~r.broken /\ ~r.torn
    BY <1>1, <1>2, <1>3 DEF Refiled, ReadKeeps, Passes, Runs, WriteKeeps
  <2>2. PICK T \in ThreadStates : T = th[t]
    BY ThreadFacts
  <2>3. c # NoSocket
    BY DEF NoSocket
  <2>4. TellsWhole(T, r)
    BY <1>2, <1>3, <2>1, <2>2, <2>3, ReplyParts DEF RepliesOf
  <2>5. Tells(T, r)
    BY <1>2, <1>3, <2>1, <2>2, <2>3, ThreadFacts DEF Linked, Link
  <2>6. CASE Refiled(r, r2)
    BY <2>2, <2>4, <2>6, SameTells DEF Refiled
  <2>7. ASSUME NEW taken \in Seq(Pieces), Passes(c, taken)
        PROVE  TellsWhole(T, r2)
    <3>1. /\ r2.down = r.down /\ r2.writebuf = r.writebuf /\ r2.recordbuf = r.recordbuf
      BY <2>7, <1>2 DEF Passes, ReadKeeps, ReadQuiet, ReadDropped
    <3> QED BY <3>1, <2>4, SameTells
  <2>8. ASSUME NEW taken \in Seq(Pieces), Runs(c, taken)
        PROVE  TellsWhole(T, r2)
    <3>1. ReadKeeps(r, r2) /\ ReadCall(r, r2, taken)
      BY <2>8, <1>2 DEF Runs
    <3>2. PICK rec \in Seq(Pieces) :
            rec # <<>> /\ r2.recordbuf = Append(r.recordbuf, [msg |-> rec[1].msg, part |-> 1])
      BY <3>1, ReadRecordAsked DEF ReadCall
    <3>3. PICK m \in Messages : r2.recordbuf = Append(r.recordbuf, [msg |-> m, part |-> 1])
      BY <3>2, FirstPiece
    <3>4. [msg |-> m, part |-> 1] \in Queued
      BY DEF Queued
    <3> QED BY <3>1, <3>3, <3>4, <2>4, CallTells DEF ReadKeeps
  <2>9. ASSUME NEW f \in Seq(Pieces), WriteKeeps(r, r2), WriteStep(r, r2, f)
        PROVE  TellsWhole(T, r2)
    BY <2>4, <2>5, <2>9, WriteTells
  <2> QED BY <1>1, <1>2, <1>3, <2>2, <2>6, <2>7, <2>8, <2>9
<1>4. ASSUME NEW t \in Threads PROVE RepliesOf(th'[t], conn')
  <2>1. th'[t] = th[t] /\ (th[t].sock # NoSocket => th[t].sock \in 1..Len(conn))
    BY <1>1, ThreadFacts DEF ServerRest
  <2>2. CASE th[t].sock = c
    BY <2>1, <2>2, <1>2, <1>3 DEF RepliesOf
  <2>3. CASE th[t].sock # c /\ th[t].sock # NoSocket
    <3>1. conn'[th[t].sock] = conn[th[t].sock]
      BY <2>1, <2>3, <1>1 DEF ServerRest
    <3> QED BY <3>1, <2>1, ReplyParts DEF RepliesOf
  <2>4. CASE th[t].sock = NoSocket
    BY <2>1, <2>4 DEF RepliesOf
  <2> QED BY <2>2, <2>3, <2>4
<1> QED BY <1>4, ReplyPartsNext

(* Every step keeps the replies whole.                                       *)
LEMMA ReplyNext == SafeInv /\ SafeInv' /\ ReplyInv /\ [Next]_vars => ReplyInv'
<1> SUFFICES ASSUME SafeInv, SafeInv', ReplyInv, [Next]_vars PROVE ReplyInv'
  OBVIOUS
<1>1. ASSUME NEW t \in Threads, ClientNext(t) PROVE ReplyInv'
  BY <1>1, ReplyClient
<1>2. ASSUME NEW c \in 1..Len(conn), ServerNext(c) \/ Break(c) PROVE ReplyInv'
  BY <1>2, ReplyServer
<1>3. CASE UNCHANGED vars
  BY <1>3 DEF vars, ReplyInv, Usable, Sock
<1>4. CASE Next
  <2>1. DOMAIN conn = 1..Len(conn)
    BY StateFacts
  <2> QED BY <1>1, <1>2, <1>4, <2>1 DEF Next
<1> QED BY <1>3, <1>4

(* No reply is under way.                                                    *)
LEMMA ReplyInit == Init => ReplyInv
<1> SUFFICES ASSUME Init, NEW t \in Threads PROVE RepliesOf(th[t], conn)
  BY ReplyParts
<1>1. /\ conn = << Connection(Creator) >>
      /\ th = [u \in Threads |-> Thread(IF u = Creator THEN 1 ELSE NoSocket)]
  BY DEF Init
<1>2. th[t].got = <<>> /\ th[t].sock \in {1, NoSocket}
  <2>1. th[t] = Thread(IF t = Creator THEN 1 ELSE NoSocket)
    BY <1>1
  <2> QED BY <2>1 DEF Thread
<1>3. conn[1] = Connection(Creator)
  BY <1>1
<1>4. TellsWhole(th[t], conn[1])
  BY <1>2, <1>3, NewTells, ConstantTypes
<1> QED BY <1>2, <1>4 DEF RepliesOf

(* The stream of replies is what RepliesWhole says it is.                    *)
LEMMA ReplyMeans == ReplyInv => RepliesWhole
<1> SUFFICES ASSUME ReplyInv, NEW t \in Threads, Usable(t), ~Sock(t).torn
             PROVE  LET s == Told(th[t], Sock(t))
                    IN  /\ s # <<>> => Place(s[1]) = 1
                        /\ \A i \in 1..(Len(s) - 1) : After(s[i], s[i + 1], s[i].msg.back)
  BY DEF RepliesWhole, Told, After
<1>1. TellsWhole(th[t], Sock(t))
  BY DEF ReplyInv
<1> QED BY <1>1 DEF TellsWhole

(* What the client reads on a connection where no receive timed out is a     *)
(* sequence of whole replies: no fragment of one comes between those of      *)
(* another.                                                                  *)
THEOREM RpcRepliesWhole == Spec => []RepliesWhole
BY ReplyInit, ReplyNext, ReplyMeans, RpcSafe, PTL DEF Spec

-----------------------------------------------------------------------------
(* Where an outstanding call is.                                             *)

\* what PlaceInv says of a thread
Located(T, X, r) ==
  /\ T.pc = "add" => Somewhere(T, r, T.msg)
  /\ \A x \in DOMAIN X : X[x].on = T.sock /\ X[x].rdata = None => Somewhere(T, r, X[x].msg)
PlaceOf(T, X, cs, a) == T.sock # NoSocket /\ Undisturbed(cs[T.sock]) /\ a => Located(T, X, cs[T.sock])

(* A packet of a connection on which no send was cut is a fragment, and the  *)
(* last of a call completes it.                                              *)
LEMMA UncutPacket ==
  ASSUME NEW r \in Connections, NEW r2 \in Connections, NEW taken \in Seq(Pieces), NEW last \in BOOLEAN,
         PacketOff(r, r2, taken), Packet(r, taken, last), AsksWhole(r, {}), ~r.cut
  PROVE  LET rec == r.packetbuf \o taken
             m == rec[1].msg
         IN  /\ rec \in Seq(Pieces) /\ rec # <<>> /\ m \in Messages /\ Pair(taken)
             /\ last <=> taken[1].part = taken[1].msg.frags
             /\ last => Whole(rec, m.frags)
<1>0. PICK T \in ThreadStates : TRUE
  BY SomeThread
<1>1. PICK C : C = {} /\ AsksWhole(r, C) /\ Starts(Asked(r))
  <2>1. PICK C : C = {} /\ AsksWhole(r, C)
    OBVIOUS
  <2>2. Starts(Asked(r))
    BY <2>1, AsksWholeParts
  <2> QED BY <2>1, <2>2
<1>2. Asked(r) # <<>>
  <2>1. PICK p \in Seq(Pieces), d \in Seq(Pieces) : p = r.packetbuf /\ d = r.readbuf \o r.up /\ Asked(r) = p \o d
    BY StreamsAgain, ConnectionFields
  <2>2. d # <<>>
    <3>1. CASE Pair(taken)
      <4>1. PICK rest \in Seq(Pieces) : rest = r2.readbuf \o r2.up /\ d = taken \o rest
        BY <2>1, PacketMoved DEF PacketOff
      <4>2. Len(taken) = 2 /\ Len(d) = Len(taken) + Len(rest) /\ Len(rest) \in Nat
        <5>1. taken \in Seq(Pieces) /\ rest \in Seq(Pieces) /\ d = taken \o rest
          BY <4>1
        <5>2. Len(d) = Len(taken) + Len(rest) /\ Len(rest) \in Nat
          BY ONLY <5>1, Joined
        <5> QED BY <5>2, <3>1 DEF Pair
      <4>3. Len(d) # 0
        BY <4>2
      <4> QED BY <4>3, EmptyRange
    <3>2. CASE OutOfStep(r.readbuf \o r.up)
      BY <2>1, <3>2 DEF OutOfStep
    <3> QED BY <3>1, <3>2 DEF Packet
  <2> QED BY <2>1, <2>2, Lengthened
<1>3. /\ r \in Connections /\ r2 \in Connections /\ taken \in Seq(Pieces) /\ last \in BOOLEAN
      /\ PacketOff(r, r2, taken) /\ Packet(r, taken, last) /\ AsksWhole(r, C) /\ Asked(r) # <<>>
      /\ Place(Asked(r)[1]) = 1 /\ Asked(r)[1].msg.no \notin C
  BY <1>1, <1>2 DEF Starts
<1>4. LET rec == r.packetbuf \o taken
          m == Asked(r)[1].msg
      IN  /\ rec \in Seq(Pieces) /\ rec # <<>> /\ rec[1] = Asked(r)[1] /\ m \in Messages
          /\ \A i \in 1..Len(rec) : rec[i].msg = m /\ Place(rec[i]) = i
          /\ rec[Len(rec)].half = 2 /\ Len(rec) = 2 * rec[Len(rec)].part
          /\ last <=> Len(rec) = 2 * m.frags
          /\ Pair(taken)
  BY ONLY <1>3, NextPacket
<1>5. PICK rec \in Seq(Pieces), m \in Messages :
        /\ rec = r.packetbuf \o taken /\ rec # <<>> /\ m = rec[1].msg
        /\ \A i \in 1..Len(rec) : rec[i].msg = m /\ Place(rec[i]) = i
        /\ Len(rec) = 2 * rec[Len(rec)].part
        /\ last <=> Len(rec) = 2 * m.frags
        /\ Pair(taken)
  BY <1>4
<1>6. Len(taken) = 2 /\ taken[1] \in Pieces /\ taken[2] = [taken[1] EXCEPT !.half = 2]
  <2>1. Len(taken) = 2 /\ taken[2] = [taken[1] EXCEPT !.half = 2]
    BY <1>5 DEF Pair, InStep
  <2>2. 1 \in 1..Len(taken)
    BY <2>1
  <2> QED BY <2>1, <2>2, ElementOfSeq
<1>7. taken[2].part = taken[1].part /\ taken[2].msg = taken[1].msg
  BY <1>6 DEF Pieces
<1>8. rec[Len(rec)] = taken[2] /\ taken[2].msg = m
  <2>1. taken # <<>>
    <3>1. Len(taken) # 0
      BY <1>6
    <3> QED BY <3>1, EmptyRange
  <2>2. rec[Len(rec)] = taken[Len(taken)]
    BY <2>1, <1>5, ConnectionFields, Lengthened
  <2>3. Len(rec) \in 1..Len(rec)
    BY <1>5, FirstPiece
  <2> QED BY <2>2, <2>3, <1>5, <1>6
<1>9. last <=> taken[1].part = taken[1].msg.frags
  <2>1. PICK a \in Nat, b \in Nat, k \in Nat : a = taken[1].part /\ b = m.frags /\ k = Len(rec)
    <3>1. taken[1].part \in Nat
      BY <1>6 DEF Pieces
    <3>2. m.frags \in Nat /\ Len(rec) \in Nat
      BY <1>5, MessageSizes, LenProperties
    <3> QED BY <3>1, <3>2
  <2>2. k = 2 * a /\ (last <=> k = 2 * b)
    BY <2>1, <1>5, <1>7, <1>8
  <2>3. last <=> a = b
    BY ONLY <2>1, <2>2
  <2> QED BY <2>1, <2>3, <1>7, <1>8
<1>10. last => Whole(rec, m.frags)
  BY <1>5 DEF Whole
<1> QED BY <1>5, <1>9, <1>10

(* PlaceInv thread by thread.                                                *)
LEMMA PlaceParts == PlaceInv <=> \A t \in Threads : PlaceOf(th[t], xidlist[t], conn, alive)
BY DEF PlaceInv, PlaceOf, Located, Sock

(* And after a step.                                                         *)
LEMMA PlacePartsNext == PlaceInv' <=> \A t \in Threads : PlaceOf(th'[t], xidlist'[t], conn', alive')
BY DEF PlaceInv, PlaceOf, Located, Sock

(* A connection that is undisturbed was so.                                  *)
LEMMA UndisturbedBefore ==
  ASSUME NEW r, NEW r2, Kept(r, r2) \/ Refiled(r, r2) \/ ReadKeeps(r, r2) \/ WriteKeeps(r, r2),
         Undisturbed(r2)
  PROVE  Undisturbed(r)
BY DEF Kept, Refiled, ReadKeeps, WriteKeeps, Undisturbed

(* What is on a connection stays where it is, or is found further on.        *)
LEMMA StaysSomewhere ==
  ASSUME NEW T, NEW T2, NEW r, NEW r2, NEW m, Somewhere(T, r, m),
         r2.readbuf \o r2.up = r.readbuf \o r.up, r2.recordbuf = r.recordbuf,
         r2.down \o r2.writebuf = r.down \o r.writebuf
  PROVE  Somewhere(T2, r2, m)
BY DEF Somewhere

(* What is sent last of a call is on its way.                                *)
LEMMA SendsSomewhere ==
  ASSUME NEW T, NEW T2, NEW X, NEW X2, NEW r \in Connections, NEW r2 \in Connections,
         Sends(T, T2, X, X2, r, r2)
  PROVE  /\ \A m : Somewhere(T, r, m) => Somewhere(T2, r2, m)
         /\ T.part = T.msg.frags => Somewhere(T2, r2, T.msg)
<1>1. PICK m \in Messages, p \in Nat \ {0} : m = T.msg /\ p = T.part
  <2>1. T.msg \in Messages /\ T.part \in 1..T.msg.frags
    BY DEF Sends
  <2>2. T.part \in Nat \ {0}
    BY <2>1, MessageSizes
  <2> QED BY <2>1, <2>2
<1>2. /\ r2.readbuf = r.readbuf /\ r2.packetbuf = r.packetbuf /\ r2.recordbuf = r.recordbuf
      /\ r2.down = r.down /\ r2.writebuf = r.writebuf /\ r2.up = r.up \o Fragment(m, p)
  BY <1>1 DEF Sends
<1>3. /\ r.readbuf \o r.up \in Seq(Pieces)
      /\ r2.readbuf \o r2.up = (r.readbuf \o r.up) \o Fragment(m, p)
  <2>1. PICK a \in Seq(Pieces), b \in Seq(Pieces), g \in Seq(Pieces) :
          a = r.readbuf /\ b = r.up /\ g = Fragment(m, p)
    <3>1. Fragment(m, p) \in Seq(Pieces)
      BY FragmentPieces
    <3> QED BY <3>1, ConnectionFields
  <2>2. (a \o b) \o g = a \o (b \o g)
    BY Associative, Zenon
  <2>3. a \o b \in Seq(Pieces)
    BY Concatenated
  <2> QED BY <2>1, <2>2, <2>3, <1>2
<1>4. PICK f \in Seq(Pieces) :
        /\ f = Fragment(m, p) /\ f[2] \in Range(f)
        /\ f[2].msg = m /\ f[2].part = p /\ f[2].half = 2
  <2>1. LET f == Fragment(m, p)
        IN  /\ f \in Seq(Pieces) /\ f[2].msg = m /\ f[2].part = p /\ f[2].half = 2
            /\ Range(f) = {f[1], f[2]}
    BY FragmentPieces
  <2> QED BY <2>1
<1>5. \A y : y \in Range(r2.readbuf \o r2.up) <=> y \in Range(r.readbuf \o r.up) \/ y \in Range(f)
  <2>1. PICK a \in Seq(Pieces) : a = r.readbuf \o r.up
    BY <1>3
  <2>2. \A y : y \in Range(a \o f) <=> y \in Range(a) \/ y \in Range(f)
    BY RangeOfConcat
  <2> QED BY <2>1, <2>2, <1>3, <1>4
<1>6. \A n : Somewhere(T, r, n) => Somewhere(T2, r2, n)
  BY <1>2, <1>5 DEF Somewhere
<1>7. p = m.frags => Somewhere(T2, r2, m)
  BY <1>4, <1>5 DEF Somewhere, Ends
<1> QED BY <1>1, <1>6, <1>7

(* A packet that does not end its record is the end of no call.              *)
LEMMA QuietSomewhere ==
  ASSUME NEW T, NEW r \in Connections, NEW r2 \in Connections, NEW taken \in Seq(Pieces), NEW m,
         ReadKeeps(r, r2), ReadQuiet(r, r2, taken), AsksWhole(r, {}), ~r.cut, Somewhere(T, r, m)
  PROVE  Somewhere(T, r2, m)
<1>1. /\ r2.recordbuf = r.recordbuf /\ r2.down = r.down /\ r2.writebuf = r.writebuf
      /\ PacketOff(r, r2, taken) /\ (taken = <<>> \/ Packet(r, taken, FALSE))
  BY DEF ReadKeeps, ReadQuiet
<1>2. PICK rest \in Seq(Pieces) : rest = r2.readbuf \o r2.up /\ r.readbuf \o r.up = taken \o rest
  BY <1>1, PacketMoved DEF PacketOff
<1>3. CASE taken = <<>>
  <2>1. taken \o rest = rest
    BY <1>3, ConcatEmptySeq
  <2> QED BY <2>1, <1>1, <1>2, StaysSomewhere
<1>4. CASE taken # <<>>
  <2>1. PICK last \in BOOLEAN : last = FALSE
    OBVIOUS
  <2>2. Packet(r, taken, last)
    BY <2>1, <1>1, <1>4
  <2>3. Pair(taken) /\ (last <=> taken[1].part = taken[1].msg.frags)
    BY <2>2, <1>1, UncutPacket
  <2>4. /\ taken[1].part # taken[1].msg.frags /\ Len(taken) = 2 /\ taken[1] \in Pieces
        /\ taken[2] = [taken[1] EXCEPT !.half = 2]
    <3>1. Len(taken) = 2 /\ taken[2] = [taken[1] EXCEPT !.half = 2]
      BY <2>3 DEF Pair, InStep
    <3>2. 1 \in 1..Len(taken)
      BY <3>1
    <3> QED BY <2>1, <2>3, <3>1, <3>2, ElementOfSeq
  <2>5. taken[2].msg = taken[1].msg /\ taken[2].part = taken[1].part
    BY <2>4 DEF Pieces
  <2>6. \A y : y \in Range(taken \o rest) <=> y \in Range(taken) \/ y \in Range(rest)
    BY RangeOfConcat
  <2>7. \A y \in Range(taken) : y = taken[1] \/ y = taken[2]
    BY <2>4, InRange
  <2>8. \A y \in Range(taken) : y.msg = m => ~Ends(y, m.frags)
    BY <2>4, <2>5, <2>7 DEF Ends
  <2> QED BY <1>1, <1>2, <2>6, <2>8 DEF Somewhere
<1> QED BY <1>3, <1>4

(* A call that is taken off has its reply queued.                            *)
LEMMA CallSomewhere ==
  ASSUME NEW T, NEW r \in Connections, NEW r2 \in Connections, NEW taken \in Seq(Pieces), NEW m,
         ReadKeeps(r, r2), ReadCall(r, r2, taken), AsksWhole(r, {}), ~r.cut, Somewhere(T, r, m)
  PROVE  Somewhere(T, r2, m)
<1>1. PICK rec \in Seq(Pieces), rest \in Seq(Pieces), k \in Messages :
        /\ rec = r.packetbuf \o taken /\ rest = r2.readbuf \o r2.up /\ k = rec[1].msg
  <2>1. r.packetbuf \o taken \in Seq(Pieces) /\ r2.readbuf \o r2.up \in Seq(Pieces)
    BY PacketMoved DEF ReadCall, ReadRecord
  <2>2. (r.packetbuf \o taken)[1].msg \in Messages
    BY <2>1, FirstPiece DEF ReadCall
  <2> QED BY <2>1, <2>2
<1>2. /\ Whole(rec, k.frags) /\ r.readbuf \o r.up = taken \o rest
      /\ r2.recordbuf = Append(r.recordbuf, [msg |-> k, part |-> 1])
      /\ r2.down = r.down /\ r2.writebuf = r.writebuf
  <2>1. PICK last \in BOOLEAN : last = TRUE
    OBVIOUS
  <2>2. PacketOff(r, r2, taken) /\ Packet(r, taken, last)
    BY <2>1 DEF ReadCall, ReadRecord
  <2>3. last => Whole(r.packetbuf \o taken, (r.packetbuf \o taken)[1].msg.frags)
    BY <2>2, UncutPacket
  <2>4. /\ r.readbuf \o r.up = taken \o rest
        /\ r2.recordbuf = Append(r.recordbuf, [msg |-> k, part |-> 1])
        /\ r2.down = r.down /\ r2.writebuf = r.writebuf
    BY <1>1, <2>2 DEF ReadCall, PacketOff, ReadKeeps
  <2> QED BY <2>1, <2>3, <2>4, <1>1
<1>3. \A y \in Range(taken) : y.msg = k
  <2>1. \A y \in Range(rec) : y.msg = k
    <3>1. rec \in Seq(Pieces) /\ k.frags \in Nat \ {0} /\ Whole(rec, k.frags)
      BY <1>1, <1>2, MessageSizes
    <3>2. \A y \in Range(rec) : y.msg = rec[1].msg
      BY ONLY <3>1, WholeRecord
    <3> QED BY <3>2, <1>1
  <2>2. \A y : y \in Range(taken) => y \in Range(rec)
    <3>1. r.packetbuf \in Seq(Pieces) /\ taken \in Seq(Pieces) /\ rec = r.packetbuf \o taken
      BY <1>1, ConnectionFields
    <3>2. \A y : y \in Range(r.packetbuf \o taken) <=> y \in Range(r.packetbuf) \/ y \in Range(taken)
      BY ONLY <3>1, RangeOfConcat
    <3> QED BY ONLY <3>1, <3>2
  <2> QED BY <2>1, <2>2
<1>4. \A y : y \in Range(taken \o rest) <=> y \in Range(taken) \/ y \in Range(rest)
  BY RangeOfConcat
<1>5. PICK q \in Seq(Queued), n \in Nat, e \in Queued :
        q = r.recordbuf /\ n = Len(q) /\ e = [msg |-> k, part |-> 1] /\ e.msg = k
  <2>1. r.recordbuf \in Seq(Queued) /\ Len(r.recordbuf) \in Nat
    BY ConnectionFields
  <2>2. [msg |-> k, part |-> 1] \in Queued
    BY DEF Queued
  <2> QED BY <2>1, <2>2
<1>6. PICK q2 \in Seq(Queued) : q2 = Append(q, e)
  BY AppendProperties
<1>7. Len(q2) = n + 1 /\ q2[n + 1] = e /\ \A i \in 1..n : q2[i] = q[i]
  BY <1>5, <1>6, AppendProperties
<1>8. q2 = r2.recordbuf
  BY <1>2, <1>5, <1>6
<1>9. CASE \E y \in Range(r.readbuf \o r.up) : y.msg = m /\ Ends(y, m.frags)
  <2>1. PICK y \in Range(taken \o rest) : y.msg = m /\ Ends(y, m.frags)
    BY <1>9, <1>2
  <2>2. CASE y \in Range(rest)
    BY <2>1, <2>2, <1>1 DEF Somewhere
  <2>3. CASE y \in Range(taken)
    <3>1. n + 1 \in 1..Len(q2) /\ q2[n + 1].msg = m
      BY <2>1, <2>3, <1>3, <1>5, <1>7
    <3> QED BY <3>1, <1>8 DEF Somewhere
  <2> QED BY <2>1, <2>2, <2>3, <1>4
<1>10. CASE \E i \in 1..Len(r.recordbuf) : r.recordbuf[i].msg = m
  <2>1. PICK i \in 1..n : q[i].msg = m
    BY <1>10, <1>5
  <2>2. i \in 1..Len(q2) /\ q2[i].msg = m
    BY <2>1, <1>7
  <2> QED BY <2>2, <1>8 DEF Somewhere
<1>11. CASE \E y \in Range(r.down \o r.writebuf) : y.msg = m /\ Ends(y, m.back)
  BY <1>11, <1>2 DEF Somewhere
<1> QED BY <1>9, <1>10, <1>11 DEF Somewhere

(* A reply whose last chunk leaves the queue is written.                     *)
LEMMA WriteSomewhere ==
  ASSUME NEW T, NEW r \in Connections, NEW r2 \in Connections, NEW f \in Seq(Pieces), NEW m,
         WriteKeeps(r, r2), WriteStep(r, r2, f), Somewhere(T, r, m)
  PROVE  Somewhere(T, r2, m)
<1>1. PICK d \in Seq(Pieces) : d = r.down \o r.writebuf /\ r2.down \o r2.writebuf = d \o f
  BY ConnectionFields, Concatenated DEF WriteStep
<1>2. \A y : y \in Range(d \o f) <=> y \in Range(d) \/ y \in Range(f)
  BY RangeOfConcat
<1>3. r2.readbuf = r.readbuf /\ r2.up = r.up
  BY DEF WriteKeeps
<1>4. CASE \E y \in Range(r.readbuf \o r.up) : y.msg = m /\ Ends(y, m.frags)
  BY <1>3, <1>4 DEF Somewhere
<1>5. CASE \E y \in Range(r.down \o r.writebuf) : y.msg = m /\ Ends(y, m.back)
  BY <1>1, <1>2, <1>5 DEF Somewhere
<1>6. CASE \E i \in 1..Len(r.recordbuf) : r.recordbuf[i].msg = m
  <2>1. CASE f = <<>> /\ r2.recordbuf = r.recordbuf
    BY <1>6, <2>1 DEF Somewhere
  <2>2. CASE /\ r.recordbuf # <<>> /\ f = Fragment(r.recordbuf[1].msg, r.recordbuf[1].part)
             /\ r2.recordbuf = AfterChunk(r.recordbuf)
    <3>1. PICK q \in Seq(Queued), q2 \in Seq(Queued) :
            q = r.recordbuf /\ q2 = r2.recordbuf /\ q # <<>> /\ q2 = AfterChunk(q)
      BY <2>2, ConnectionFields
    <3>2. /\ Len(q) \in Nat \ {0} /\ q[1].msg \in Messages /\ q[1].part \in Nat \ {0}
          /\ q[1].part = q[1].msg.back => Len(q2) = Len(q) - 1 /\ \A i \in 1..Len(q2) : q2[i] = q[i + 1]
          /\ q[1].part # q[1].msg.back =>
               /\ Len(q2) = Len(q) /\ q2[1].msg = q[1].msg
               /\ \A i \in 1..Len(q2) : i # 1 => q2[i] = q[i]
      <4>1. q \in Seq(Queued) /\ q # <<>> /\ q2 = AfterChunk(q)
        BY <3>1
      <4> QED BY ONLY <4>1, ChunkQueue
    <3>3. PICK i \in 1..Len(q) : q[i].msg = m
      BY <1>6, <3>1
    <3>4. CASE q[1].part = q[1].msg.back /\ i = 1
      <4>1. PICK g \in Seq(Pieces) : g = Fragment(q[1].msg, q[1].part) /\ g = f
        BY <2>2, <3>1
      <4>2. g[2] \in Range(g) /\ g[2].msg = m /\ Ends(g[2], m.back)
        <5>0. PICK k \in Messages, j \in Nat \ {0} : k = q[1].msg /\ j = q[1].part
          BY ONLY <3>2
        <5>1. /\ Fragment(k, j)[2].msg = k /\ Fragment(k, j)[2].part = j /\ Fragment(k, j)[2].half = 2
              /\ Range(Fragment(k, j)) = {Fragment(k, j)[1], Fragment(k, j)[2]}
          <6>1. k \in Messages /\ j \in Nat \ {0}
            BY ONLY <5>0
          <6> QED BY ONLY <6>1, FragmentPieces
        <5> QED BY <5>0, <5>1, <4>1, <3>3, <3>4 DEF Ends
      <4>3. g[2] \in Range(r2.down \o r2.writebuf)
        BY <4>1, <4>2, <1>1, <1>2
      <4> QED BY <4>2, <4>3 DEF Somewhere
    <3>5. CASE q[1].part = q[1].msg.back /\ i # 1
      <4>1. i - 1 \in 1..Len(q2) /\ (i - 1) + 1 = i
        BY <3>2, <3>3, <3>5
      <4>2. PICK j \in 1..Len(q2) : j + 1 = i
        BY <4>1
      <4>3. q2[j] = q[j + 1]
        BY <3>2, <3>5
      <4> QED BY <4>2, <4>3, <3>1, <3>3 DEF Somewhere
    <3>6. CASE q[1].part # q[1].msg.back
      <4>1. i \in 1..Len(q2) /\ q2[i].msg = m
        BY <3>2, <3>3, <3>6
      <4> QED BY <4>1, <3>1 DEF Somewhere
    <3> QED BY <3>4, <3>5, <3>6
  <2> QED BY <2>1, <2>2 DEF WriteStep
<1> QED BY <1>4, <1>5, <1>6 DEF Somewhere

(* What is read is delivered.                                                *)
LEMMA ReadsSomewhere ==
  ASSUME NEW T \in ThreadStates, NEW T2 \in ThreadStates, NEW X, NEW X2, NEW r \in Connections,
         NEW r2 \in Connections, Reads(T, T2, X, X2, r, r2), Kept(r, r2), T2.sock = T.sock,
         List(X), \A x \in DOMAIN X : X[x].msg.xid = x,
         TellsWhole(T, r), Located(T, X, r)
  PROVE  Located(T2, X2, r2)
<1> DEFINE x == Head(r.down)
           s == Append(T.got, x)
           rest == Tail(r.down) \o r.writebuf
<1>1. /\ r.down # <<>> /\ r2.down = Tail(r.down) /\ T2.pc # "add"
      /\ r2.writebuf = r.writebuf /\ r2.recordbuf = r.recordbuf
      /\ r2.readbuf = r.readbuf /\ r2.up = r.up
      /\ \/ ~Ends(x, x.msg.back) /\ X2 = X
         \/ /\ Ends(x, x.msg.back)
            /\ \/ Delivers(X, X2, s[1].msg)
               \/ X2 = X /\ (Whole(s, s[1].msg.back) => s[1].msg.xid \notin DOMAIN X)
  BY DEF Reads, Kept
<1>2. /\ x \in Pieces /\ rest \in Seq(Pieces) /\ T.got \in Seq(Pieces)
      /\ Told(T, r) = s \o rest
  BY <1>1, HeadTold, ThreadFields
<1>3. /\ x.msg = s[1].msg
      /\ Ends(x, Size(x.msg, "down")) => Whole(s, Size(s[1].msg, "down"))
  <2>1. Begun(T.got, "down") /\ Unbroken(s \o rest, "down")
    BY <1>2, TellsWholeParts
  <2> HIDE DEF x, rest
  <2> QED BY <2>1, <1>2, GotGrows
<1>4. ASSUME NEW m, Somewhere(T, r, m), ~(x.msg = m /\ Ends(x, m.back))
      PROVE  Somewhere(T2, r2, m)
  <2>1. \A y : y \in Range(r.down \o r.writebuf) => y = x \/ y \in Range(rest)
    <3>1. PICK d \in Seq(Pieces), e \in Seq(Pieces), v \in Seq(Pieces) :
            d = r.down /\ e = Tail(r.down) /\ v = r.writebuf
      <4>1. r.down \in Seq(Pieces) /\ r.writebuf \in Seq(Pieces)
        BY ConnectionFields
      <4>2. Tail(r.down) \in Seq(Pieces)
        BY <4>1, <1>1, HeadTailProperties
      <4> QED BY <4>1, <4>2
    <3>2. \A y : y \in Range(d) => y = x \/ y \in Range(e)
      <4> SUFFICES ASSUME NEW i \in 1..Len(d) PROVE d[i] = x \/ d[i] \in Range(e)
        BY InRange
      <4>1. /\ d # <<>> /\ x = d[1] /\ Len(e) = Len(d) - 1 /\ Len(d) \in Nat
            /\ \A j \in 1..Len(e) : e[j] = d[j + 1]
        <5>1. d # <<>> /\ x = Head(d) /\ e = Tail(d)
          BY <3>1, <1>1
        <5> HIDE DEF x
        <5> QED BY <5>1, HeadTailProperties
      <4>2. CASE i = 1
        BY <4>1, <4>2
      <4>3. CASE i # 1
        <5>1. i - 1 \in 1..Len(e) /\ (i - 1) + 1 = i
          BY <4>1, <4>3
        <5>2. e[i - 1] = d[i] /\ e[i - 1] \in Range(e)
          BY <5>1, <4>1, InRange
        <5> QED BY <5>2
      <4> QED BY <4>2, <4>3
    <3>3. \A y : y \in Range(d \o v) <=> y \in Range(d) \/ y \in Range(v)
      BY RangeOfConcat
    <3>4. \A y : y \in Range(e \o v) <=> y \in Range(e) \/ y \in Range(v)
      BY RangeOfConcat
    <3> QED BY <3>1, <3>2, <3>3, <3>4
  <2>2. rest = r2.down \o r2.writebuf
    BY <1>1
  <2> HIDE DEF x, rest
  <2> QED BY <1>1, <1>4, <2>1, <2>2 DEF Somewhere
<1> SUFFICES ASSUME NEW z \in DOMAIN X2, X2[z].on = T2.sock, X2[z].rdata = None
             PROVE  Somewhere(T2, r2, X2[z].msg)
  BY <1>1 DEF Located
<1>5. CASE ~Ends(x, x.msg.back) /\ X2 = X
  <2>1. Somewhere(T, r, X[z].msg)
    BY <1>5 DEF Located
  <2>2. ~(x.msg = X[z].msg /\ Ends(x, X[z].msg.back))
    BY <1>5
  <2> HIDE DEF x
  <2> QED BY <2>1, <2>2, <1>4, <1>5
<1>6. CASE Ends(x, x.msg.back) /\ Delivers(X, X2, x.msg)
  <2>1. z \in DOMAIN X /\ z # x.msg.xid /\ X2[z] = X[z]
    <3>1. CASE X2 = Without(X, x.msg.xid)
      BY <3>1 DEF Without
    <3>2. CASE X2 = [X EXCEPT ![x.msg.xid].rdata = x.msg]
      <4>1. x.msg # None
        BY <1>2, MessageNotNone, PlaceOfPiece
      <4>2. z \in DOMAIN X /\ (z # x.msg.xid => X2[z] = X[z])
        BY <3>2
      <4>3. z = x.msg.xid => X2[z].rdata = x.msg
        <5>1. X[z] \in Entries
          BY <4>2 DEF List
        <5>2. \A m : [X[z] EXCEPT !.rdata = m].rdata = m
          BY <5>1 DEF Entries
        <5>3. z = x.msg.xid => X2[z] = [X[z] EXCEPT !.rdata = x.msg]
          BY <3>2, <4>2
        <5> QED BY <5>2, <5>3
      <4> QED BY <4>1, <4>2, <4>3
    <3> QED BY <3>1, <3>2, <1>6 DEF Delivers
  <2>2. Somewhere(T, r, X[z].msg)
    BY <2>1 DEF Located
  <2>3. x.msg # X[z].msg
    BY <2>1
  <2> HIDE DEF x
  <2> QED BY <2>1, <2>2, <2>3, <1>4
<1>7. CASE X2 = X /\ x.msg.xid \notin DOMAIN X
  <2>1. z \in DOMAIN X /\ X2[z] = X[z] /\ Somewhere(T, r, X[z].msg)
    BY <1>7 DEF Located
  <2>2. x.msg # X[z].msg
    BY <2>1, <1>7
  <2> HIDE DEF x
  <2> QED BY <2>1, <2>2, <1>4
<1>8. Ends(x, x.msg.back) => Delivers(X, X2, x.msg) \/ (X2 = X /\ x.msg.xid \notin DOMAIN X)
  BY <1>1, <1>3 DEF Size
<1> QED BY <1>1, <1>5, <1>6, <1>7, <1>8

(* What the others have outstanding is none of the thread's business.        *)
LEMMA PlaceOthers ==
  ASSUME SafeInv, PlaceInv, NEW t \in Threads, NEW u \in Threads, u # t, th'[u] = th[u],
         xidlist'[u] = xidlist[u], alive' = alive,
         \A c \in 1..Len(conn) : c # th[t].sock => conn'[c] = conn[c]
  PROVE  PlaceOf(th'[u], xidlist'[u], conn', alive')
<1>1. CASE th[u].sock # NoSocket
  <2>1. conn'[th[u].sock] = conn[th[u].sock]
    BY <1>1, OtherSocket
  <2>2. PlaceOf(th[u], xidlist[u], conn, alive)
    BY PlaceParts
  <2> QED BY <2>1, <2>2 DEF PlaceOf
<1>2. CASE th[u].sock = NoSocket
  BY <1>2 DEF PlaceOf
<1> QED BY <1>1, <1>2

(* A call that is put on the list, or left there, is where it was.           *)
LEMMA QuietLocated ==
  ASSUME NEW T, NEW T2, NEW X, NEW X2, NEW r, NEW r2, Kept(r, r2), r2.down = r.down,
         T2.sock = T.sock, T2.pc # "add", Located(T, X, r),
         \/ X2 = X
         \/ T.pc = "add" /\ X2 = With(X, T.msg.xid, [msg |-> T.msg, rdata |-> None, on |-> T.sock])
         \/ \E x \in DOMAIN X : X2 = Without(X, x)
  PROVE  Located(T2, X2, r2)
<1>1. \A m : Somewhere(T, r, m) => Somewhere(T2, r2, m)
  BY StaysSomewhere DEF Kept
<1> SUFFICES ASSUME NEW z \in DOMAIN X2, X2[z].on = T.sock, X2[z].rdata = None
             PROVE  Somewhere(T2, r2, X2[z].msg)
  BY DEF Located
<1>2. CASE X2 = X
  BY <1>1, <1>2 DEF Located
<1>3. CASE T.pc = "add" /\ X2 = With(X, T.msg.xid, [msg |-> T.msg, rdata |-> None, on |-> T.sock])
  <2>1. Somewhere(T, r, T.msg)
    BY <1>3 DEF Located
  <2>2. CASE z = T.msg.xid
    <3>1. X2[z].msg = T.msg
      BY <1>3, <2>2 DEF With
    <3> QED BY <3>1, <2>1, <1>1
  <2>3. CASE z # T.msg.xid
    <3>1. z \in DOMAIN X /\ X2[z] = X[z]
      BY <1>3, <2>3 DEF With
    <3> QED BY <3>1, <1>1 DEF Located
  <2> QED BY <2>2, <2>3
<1>4. ASSUME NEW x \in DOMAIN X, X2 = Without(X, x)
      PROVE  Somewhere(T2, r2, X2[z].msg)
  <2>1. z \in DOMAIN X /\ X2[z] = X[z]
    BY <1>4 DEF Without
  <2> QED BY <2>1, <1>1 DEF Located
<1> QED BY <1>2, <1>3, <1>4

(* A thread that sends nothing loses none of its calls.                      *)
LEMMA PlaceRest ==
  ASSUME SafeInv, SafeInv', ReplyInv, PlaceInv, NEW t \in Threads, ClientNext(t), ~Writes(t)
  PROVE  PlaceOf(th'[t], xidlist'[t], conn', alive')
<1> DEFINE T  == th[t]
           T2 == th'[t]
           X  == xidlist[t]
           X2 == xidlist'[t]
           s  == th[t].sock
<1>1. /\ ClientRest(t) /\ CarriesOn(t) /\ alive' = alive
      /\ \/ Moved(t) \/ Quiet(t)
         \/ OnOwn(t) /\ Reads(T, T2, X, X2, conn[s], conn'[s])
         \/ OnOwn(t) /\ Misreads(T, T2, X, X2, conn[s])
  BY ClientCases DEF ClientRest
<1>2. T \in ThreadStates /\ T2 \in ThreadStates /\ List(X) /\ Client(T, X, Len(calls), Len(conn), CutBy(t))
  BY ThreadFacts, NextFacts
<1> SUFFICES ASSUME T2.sock # NoSocket, Undisturbed(conn'[T2.sock]), alive
             PROVE  Located(T2, X2, conn'[T2.sock])
  BY <1>1 DEF PlaceOf
<1>3. CASE Moved(t)
  <2>1. T2.sock = Len(conn) + 1 /\ X2 = X /\ T2.pc # "add"
    BY <1>3 DEF Moved
  <2>2. \A x \in DOMAIN X : X[x].on # Len(conn) + 1
    <3> SUFFICES ASSUME NEW x \in DOMAIN X PROVE X[x].on # Len(conn) + 1
      OBVIOUS
    <3>1. X[x].on <= Len(conn) /\ X[x].on \in Nat /\ Len(conn) \in Nat
      BY <1>2, StateFacts DEF Client, List, Entries
    <3> QED BY <3>1
  <2> QED BY <2>1, <2>2 DEF Located
<1>4. CASE ~Moved(t)
  <2>1. T2.sock = s /\ s # NoSocket
    BY <1>1, <1>4 DEF Quiet, OnOwn
  <2>2. PICK r \in Connections, r2 \in Connections : r = conn[s] /\ r2 = conn'[s]
    BY <2>1, ThreadFacts, StateFacts, NextFacts
  <2>3. Kept(r, r2)
    BY <2>1, <2>2, <1>1, ThreadFacts DEF CarriesOn
  <2>4. Undisturbed(r)
    BY <2>1, <2>2, <2>3, UndisturbedBefore
  <2>5. Located(T, X, r)
    BY <2>1, <2>2, <2>4, PlaceParts DEF PlaceOf
  <2>6. TellsWhole(T, r)
    BY <2>1, <2>2, <2>4, ReplyParts DEF RepliesOf, Undisturbed
  <2>7. CASE Quiet(t)
    <3>1. T2.pc # "add" /\ Lists(t) /\ r2.down = r.down
      BY <2>1, <2>2, <2>7 DEF Quiet
    <3>2. \/ X2 = X
          \/ T.pc = "add" /\ X2 = With(X, T.msg.xid, [msg |-> T.msg, rdata |-> None, on |-> T.sock])
          \/ \E x \in DOMAIN X : X2 = Without(X, x)
      BY <3>1 DEF Lists
    <3>3. T2.sock = T.sock
      BY <2>1
    <3> HIDE DEF T, T2, X, X2
    <3>4. Located(T2, X2, r2)
      BY <3>1, <3>2, <3>3, <2>3, <2>5, QuietLocated
    <3> QED BY <3>4, <2>1, <2>2
  <2>8. CASE Reads(T, T2, X, X2, r, r2)
    <3>1. T2.sock = T.sock /\ \A x \in DOMAIN X : X[x].msg.xid = x
      BY <2>1, <1>2 DEF Client
    <3> HIDE DEF T, T2, X, X2
    <3>2. Located(T2, X2, r2)
      BY <3>1, <2>3, <2>5, <2>6, <2>8, <1>2, ReadsSomewhere
    <3> QED BY <3>2, <2>1, <2>2
  <2>9. CASE Misreads(T, T2, X, X2, r)
    <3> HIDE DEF T, T2, X, X2
    <3> QED BY <2>6, <2>9, <1>2, MisreadsNever
  <2> QED BY <1>1, <1>4, <2>2, <2>7, <2>8, <2>9
<1> QED BY <1>3, <1>4

(* Nor does one that sends.                                                  *)
LEMMA PlaceFragment ==
  ASSUME SafeInv, SafeInv', PlaceInv, NEW t \in Threads, SendFragment(t)
  PROVE  PlaceOf(th'[t], xidlist'[t], conn', alive')
<1>1. /\ OnOwn(t) /\ alive' = alive
      /\ Sends(th[t], th'[t], xidlist[t], xidlist'[t], conn[th[t].sock], conn'[th[t].sock])
  BY CasesSendFragment
<1>2. PICK s \in 1..Len(conn), r \in Connections, r2 \in Connections :
        s = th[t].sock /\ s = th'[t].sock /\ r = conn[s] /\ r2 = conn'[s] /\ s # NoSocket
  BY <1>1, ThreadFacts, StateFacts, NextFacts DEF OnOwn
<1>3. PICK T, T2, X, X2 : T = th[t] /\ T2 = th'[t] /\ X = xidlist[t] /\ X2 = xidlist'[t]
  OBVIOUS
<1> SUFFICES ASSUME Undisturbed(r2), alive PROVE Located(T2, X2, r2)
  BY <1>1, <1>2, <1>3 DEF PlaceOf
<1>4. Sends(T, T2, X, X2, r, r2) /\ T2.sock = T.sock
  BY <1>1, <1>2, <1>3
<1>5. Undisturbed(r)
  BY <1>4 DEF Sends, Undisturbed
<1>6. Located(T, X, r)
  <2>1. PlaceOf(th[t], xidlist[t], conn, alive)
    BY PlaceParts
  <2> QED BY <2>1, <1>2, <1>3, <1>5 DEF PlaceOf
<1>7. /\ \A m : Somewhere(T, r, m) => Somewhere(T2, r2, m)
      /\ T.part = T.msg.frags => Somewhere(T2, r2, T.msg)
  BY <1>4, SendsSomewhere
<1>8. CASE T.part # T.msg.frags
  <2>1. T2.pc # "add" /\ X2 = X
    BY <1>4, <1>8 DEF Sends, IsSending
  <2> QED BY <2>1, <1>4, <1>6, <1>7 DEF Located
<1>9. CASE T.part = T.msg.frags /\ T2.pc = "add" /\ X2 = X
  <2>1. T2.msg = T.msg
    BY <1>4 DEF Sends
  <2> QED BY <2>1, <1>4, <1>6, <1>7, <1>9 DEF Located
<1>10. CASE /\ T.part = T.msg.frags /\ T2.pc = "relisten" /\ T.msg.xid \in DOMAIN X /\ X[T.msg.xid].msg = T.msg
            /\ X2 = [X EXCEPT ![T.msg.xid].on = T.sock]
  <2> SUFFICES ASSUME NEW z \in DOMAIN X2, X2[z].on = T2.sock, X2[z].rdata = None
               PROVE  Somewhere(T2, r2, X2[z].msg)
    BY <1>10 DEF Located
  <2>1. CASE z = T.msg.xid
    <3>1. X2[z].msg = T.msg
      <4>1. X[z] \in Entries
        BY <1>3, <1>10, <2>1, ThreadFacts DEF List
      <4>2. \A k : [X[z] EXCEPT !.on = k].msg = X[z].msg
        BY <4>1 DEF Entries
      <4>3. X2[z] = [X[z] EXCEPT !.on = T.sock]
        BY <1>10, <2>1
      <4> QED BY <4>2, <4>3, <1>10, <2>1
    <3> QED BY <3>1, <1>7, <1>10
  <2>2. CASE z # T.msg.xid
    <3>1. z \in DOMAIN X /\ X2[z] = X[z]
      BY <1>10, <2>2
    <3> QED BY <3>1, <1>4, <1>6, <1>7 DEF Located
  <2> QED BY <2>1, <2>2
<1> QED BY <1>4, <1>8, <1>9, <1>10 DEF Sends

(* Nor does one that stops before it has sent anything.                      *)
LEMMA PlaceStop ==
  ASSUME SafeInv, SafeInv', PlaceInv, NEW t \in Threads, SendTimeout(t), th[t].pc = "send"
  PROVE  PlaceOf(th'[t], xidlist'[t], conn', alive')
<1>1. OnOwn(t) /\ alive' = alive /\ xidlist' = xidlist
  BY CasesStop
<1>2. PICK f \in Seq(Pieces), begun \in BOOLEAN :
        Stops(th[t], th'[t], conn[th[t].sock], conn'[th[t].sock], f, begun)
  BY CasesStop
<1>3. PICK s \in 1..Len(conn), r \in Connections, r2 \in Connections :
        s = th[t].sock /\ s = th'[t].sock /\ r = conn[s] /\ r2 = conn'[s] /\ s # NoSocket
  BY <1>1, ThreadFacts, StateFacts, NextFacts DEF OnOwn
<1>4. PICK T, T2, X : T = th[t] /\ T2 = th'[t] /\ X = xidlist[t] /\ X = xidlist'[t] /\ T2.sock = T.sock
  BY <1>1, <1>3
<1> SUFFICES ASSUME Undisturbed(r2), alive PROVE Located(T2, X, r2)
  BY <1>1, <1>3, <1>4 DEF PlaceOf
<1>5. Stops(T, T2, r, r2, f, begun)
  BY <1>2, <1>3, <1>4
<1>6. f = <<>> /\ ~r.cut
  BY <1>5 DEF Stops, Undisturbed
<1>7. r2.up = r.up
  <2>1. r.up \o f = r.up
    BY <1>6, ConnectionFields, ConcatEmptySeq
  <2> QED BY <2>1, <1>5 DEF Stops
<1>8. Undisturbed(r)
  BY <1>5, <1>6 DEF Stops, Undisturbed
<1>9. Located(T, X, r)
  <2>1. PlaceOf(th[t], xidlist[t], conn, alive)
    BY PlaceParts
  <2> QED BY <2>1, <1>3, <1>4, <1>8 DEF PlaceOf
<1>10. \A m : Somewhere(T, r, m) => Somewhere(T2, r2, m)
  BY <1>5, <1>7, StaysSomewhere DEF Stops
<1>11. T2.pc # "add"
  BY <1>5 DEF Stops
<1> QED BY <1>4, <1>9, <1>10, <1>11 DEF Located

(* No thread's step loses a call.                                            *)
LEMMA PlaceClient ==
  ASSUME SafeInv, SafeInv', ReplyInv, PlaceInv, NEW t \in Threads, ClientNext(t)
  PROVE  PlaceInv'
<1>1. /\ \A u \in Threads : u # t => th'[u] = th[u] /\ xidlist'[u] = xidlist[u]
      /\ \A c \in 1..Len(conn) : c # th[t].sock => conn'[c] = conn[c]
      /\ alive' = alive
  <2>1. CASE SendFragment(t)
    BY <2>1, CasesSendFragment
  <2>2. CASE SendTimeout(t) /\ th[t].pc = "send"
    BY <2>2, CasesStop
  <2>3. CASE ~Writes(t)
    BY <2>3, ClientCases DEF ClientRest, CarriesOn
  <2> QED BY <2>1, <2>2, <2>3 DEF Writes
<1>2. PlaceOf(th'[t], xidlist'[t], conn', alive')
  BY PlaceFragment, PlaceStop, PlaceRest DEF Writes
<1> QED BY <1>1, <1>2, PlaceOthers, PlacePartsNext

(* The server loses no call, and no reply.                                   *)
LEMMA PlaceServer ==
  ASSUME SafeInv, SafeInv', StreamInv, PlaceInv, NEW c \in 1..Len(conn), ServerNext(c) \/ Break(c)
  PROVE  PlaceInv'
<1>1. /\ ServerRest(c)
      /\ \/ conn'[c].broken
         \/ Refiled(conn[c], conn'[c])
         \/ \E taken \in Seq(Pieces) : Passes(c, taken)
         \/ \E taken \in Seq(Pieces) : Runs(c, taken)
         \/ \E f \in Seq(Pieces) : WriteKeeps(conn[c], conn'[c]) /\ WriteStep(conn[c], conn'[c], f)
  BY ServerCases
<1>2. PICK r \in Connections, r2 \in Connections : r = conn[c] /\ r2 = conn'[c]
  BY <1>1, StateFacts, NextFacts DEF ServerRest
<1>3. ASSUME Undisturbed(r2)
      PROVE  Undisturbed(r) /\ \A T, m : Somewhere(T, r, m) => Somewhere(T, r2, m)
  <2>1. Undisturbed(r)
    <3>1. Kept(r, r2) \/ Refiled(r, r2) \/ ReadKeeps(r, r2) \/ WriteKeeps(r, r2)
      BY <1>1, <1>2, <1>3 DEF Runs, Passes, Undisturbed
    <3> QED BY <3>1, <1>3, UndisturbedBefore
  <2>2. AsksWhole(r, {}) /\ ~r.cut
    <3>1. ~r.cut /\ ~r.broken
      BY <2>1 DEF Undisturbed
    <3>2. CutOn(r) = {}
      BY <3>1 DEF CutOn, Cuts
    <3> QED BY <3>1, <3>2, <1>2 DEF StreamInv
  <2> SUFFICES ASSUME NEW T, NEW m, Somewhere(T, r, m) PROVE Somewhere(T, r2, m)
    BY <2>1
  <2>3. CASE Refiled(r, r2)
    BY <2>3, StaysSomewhere DEF Refiled
  <2>4. ASSUME NEW taken \in Seq(Pieces), Passes(c, taken)
        PROVE  Somewhere(T, r2, m)
    <3>1. ReadKeeps(r, r2) /\ (ReadQuiet(r, r2, taken) \/ ReadDropped(r, r2, taken))
      BY <2>4, <1>2 DEF Passes
    <3>2. CASE ReadQuiet(r, r2, taken)
      BY <2>2, <3>1, <3>2, QuietSomewhere
    <3>3. CASE ReadDropped(r, r2, taken)
      <4>1. PICK last \in BOOLEAN : last = TRUE
        OBVIOUS
      <4>2. PacketOff(r, r2, taken) /\ Packet(r, taken, last) /\ Wrong(r.packetbuf \o taken)
        BY <3>3, <4>1 DEF ReadDropped, ReadRecord
      <4>3. LET rec == r.packetbuf \o taken
            IN  rec # <<>> /\ (last => Whole(rec, rec[1].msg.frags))
        BY <4>2, <2>2, UncutPacket
      <4> QED BY <4>1, <4>2, <4>3 DEF Wrong
    <3> QED BY <3>1, <3>2, <3>3
  <2>5. ASSUME NEW taken \in Seq(Pieces), Runs(c, taken)
        PROVE  Somewhere(T, r2, m)
    <3>1. ReadKeeps(r, r2) /\ ReadCall(r, r2, taken)
      BY <2>5, <1>2 DEF Runs
    <3> QED BY <2>2, <3>1, CallSomewhere
  <2>6. ASSUME NEW f \in Seq(Pieces), WriteKeeps(r, r2), WriteStep(r, r2, f)
        PROVE  Somewhere(T, r2, m)
    BY <2>6, WriteSomewhere
  <2> QED BY <1>1, <1>2, <1>3, <2>3, <2>4, <2>5, <2>6 DEF Undisturbed
<1>4. ASSUME NEW t \in Threads PROVE PlaceOf(th'[t], xidlist'[t], conn', alive')
  <2>1. /\ th'[t] = th[t] /\ xidlist'[t] = xidlist[t] /\ (alive' => alive)
        /\ th[t].sock # NoSocket => th[t].sock \in 1..Len(conn)
    BY <1>1, ThreadFacts DEF ServerRest
  <2>2. PlaceOf(th[t], xidlist[t], conn, alive)
    BY PlaceParts
  <2>3. CASE th[t].sock = c
    <3> SUFFICES ASSUME th[t].sock # NoSocket, Undisturbed(r2), alive PROVE Located(th[t], xidlist[t], r2)
      BY <2>1, <2>3, <1>2 DEF PlaceOf
    <3>1. Located(th[t], xidlist[t], r)
      BY <2>2, <2>3, <1>2, <1>3 DEF PlaceOf
    <3> QED BY <3>1, <1>3 DEF Located
  <2>4. CASE th[t].sock # c /\ th[t].sock # NoSocket
    <3>1. conn'[th[t].sock] = conn[th[t].sock]
      BY <2>1, <2>4, <1>1 DEF ServerRest
    <3> QED BY <3>1, <2>1, <2>2 DEF PlaceOf
  <2>5. CASE th[t].sock = NoSocket
    BY <2>1, <2>5 DEF PlaceOf
  <2> QED BY <2>3, <2>4, <2>5
<1> QED BY <1>4, PlacePartsNext

(* Every step keeps every outstanding call somewhere.                        *)
LEMMA PlaceNext ==
  SafeInv /\ SafeInv' /\ StreamInv /\ ReplyInv /\ PlaceInv /\ [Next]_vars => PlaceInv'
<1> SUFFICES ASSUME SafeInv, SafeInv', StreamInv, ReplyInv, PlaceInv, [Next]_vars PROVE PlaceInv'
  OBVIOUS
<1>1. ASSUME NEW t \in Threads, ClientNext(t) PROVE PlaceInv'
  BY <1>1, PlaceClient
<1>2. ASSUME NEW c \in 1..Len(conn), ServerNext(c) \/ Break(c) PROVE PlaceInv'
  BY <1>2, PlaceServer
<1>3. CASE UNCHANGED vars
  BY <1>3 DEF vars, PlaceInv, Sock
<1>4. CASE Next
  <2>1. DOMAIN conn = 1..Len(conn)
    BY StateFacts
  <2> QED BY <1>1, <1>2, <1>4, <2>1 DEF Next
<1> QED BY <1>3, <1>4

(* Nothing is outstanding.                                                   *)
LEMMA PlaceInit == Init => PlaceInv
<1> SUFFICES ASSUME Init, NEW t \in Threads PROVE PlaceOf(th[t], xidlist[t], conn, alive)
  BY PlaceParts
<1>1. /\ xidlist = [u \in Threads |-> <<>>]
      /\ th = [u \in Threads |-> Thread(IF u = Creator THEN 1 ELSE NoSocket)]
  BY DEF Init
<1>2. xidlist[t] = <<>> /\ DOMAIN xidlist[t] = {}
  BY <1>1
<1>3. th[t].pc # "add"
  <2>1. th[t] = Thread(IF t = Creator THEN 1 ELSE NoSocket)
    BY <1>1
  <2> QED BY <2>1 DEF Thread
<1> QED BY <1>2, <1>3 DEF PlaceOf, Located

-----------------------------------------------------------------------------
(* An outstanding call is in one place only.                                 *)

\* no place of a message occurs twice
Once(s) == \A i, j \in 1..Len(s) : s[i].msg = s[j].msg /\ Place(s[i]) = Place(s[j]) => i = j

(* In order, no piece comes twice, whichever half is put first.              *)
LEMMA OnceSwapped ==
  ASSUME NEW a \in Seq(Pieces), NEW b \in Seq(Pieces), InOrder(a \o b)
  PROVE  Once(b \o a)
<1>1. /\ \A i, j \in 1..Len(a) : i < j /\ a[i].msg = a[j].msg => Place(a[i]) < Place(a[j])
      /\ \A i, j \in 1..Len(b) : i < j /\ b[i].msg = b[j].msg => Place(b[i]) < Place(b[j])
      /\ \A i \in 1..Len(a), j \in 1..Len(b) : a[i].msg = b[j].msg => Place(a[i]) < Place(b[j])
  <2>1. /\ InOrder(a) /\ InOrder(b)
        /\ \A y \in Range(a), z \in Range(b) : y.msg = z.msg => Place(y) < Place(z)
    BY InOrderSplit
  <2>2. /\ \A i \in 1..Len(a) : a[i] \in Range(a)
        /\ \A i \in 1..Len(b) : b[i] \in Range(b)
    BY InRange
  <2> QED BY <2>1, <2>2 DEF InOrder
<1>2. PICK s \in Seq(Pieces) : s = b \o a
  BY Concatenated
<1>3. /\ Len(s) = Len(b) + Len(a) /\ Len(a) \in Nat /\ Len(b) \in Nat
      /\ \A i \in 1..Len(b) : s[i] = b[i]
      /\ \A i \in 1..Len(a) : s[Len(b) + i] = a[i]
      /\ \A i \in 1..Len(a) : Place(a[i]) \in Nat
      /\ \A i \in 1..Len(b) : Place(b[i]) \in Nat
  <2>1. /\ Len(s) = Len(b) + Len(a) /\ Len(a) \in Nat /\ Len(b) \in Nat
        /\ \A i \in 1..Len(b) : s[i] = b[i]
        /\ \A i \in 1..Len(a) : s[Len(b) + i] = a[i]
    BY <1>2, Joined
  <2>2. /\ \A i \in 1..Len(a) : a[i] \in Pieces
        /\ \A i \in 1..Len(b) : b[i] \in Pieces
    BY ElementOfSeq
  <2> QED BY <2>1, <2>2, PlaceOfPiece
<1> SUFFICES ASSUME NEW i \in 1..Len(s), NEW j \in 1..Len(s), s[i].msg = s[j].msg, Place(s[i]) = Place(s[j])
             PROVE  i = j
  BY <1>2 DEF Once
<1>4. \A k \in 1..Len(s) : k \in 1..Len(b) \/ \E l \in 1..Len(a) : k = Len(b) + l
  <2> TAKE k \in 1..Len(s)
  <2>1. CASE k > Len(b)
    <3>1. k - Len(b) \in 1..Len(a) /\ k = Len(b) + (k - Len(b))
      BY <2>1, <1>3
    <3> QED BY <3>1
  <2>2. CASE k <= Len(b)
    BY <2>2, <1>3
  <2> QED BY <2>1, <2>2, <1>3
<1>5. CASE i \in 1..Len(b) /\ j \in 1..Len(b)
  <2>1. b[i].msg = b[j].msg /\ Place(b[i]) = Place(b[j]) /\ Place(b[i]) \in Nat
    BY <1>5, <1>3
  <2>2. ~(i < j) /\ ~(j < i)
    BY <2>1, <1>1, <1>5
  <2> QED BY <2>2, <1>5, <1>3
<1>6. ASSUME NEW k \in 1..Len(a), NEW l \in 1..Len(a), i = Len(b) + k, j = Len(b) + l
      PROVE  i = j
  <2>1. a[k].msg = a[l].msg /\ Place(a[k]) = Place(a[l]) /\ Place(a[k]) \in Nat
    BY <1>6, <1>3
  <2>2. ~(k < l) /\ ~(l < k)
    BY <2>1, <1>1
  <2>3. k \in Nat /\ l \in Nat /\ k = l
    BY <2>2, <1>3
  <2> QED BY <2>3, <1>6
<1>7. ASSUME NEW k \in 1..Len(a), i = Len(b) + k, j \in 1..Len(b)
      PROVE  FALSE
  <2>1. a[k].msg = b[j].msg /\ Place(a[k]) = Place(b[j]) /\ Place(a[k]) \in Nat
    BY <1>7, <1>3
  <2>2. Place(a[k]) < Place(b[j])
    BY <2>1, <1>1, <1>7
  <2> QED BY <2>1, <2>2
<1>8. ASSUME NEW l \in 1..Len(a), i \in 1..Len(b), j = Len(b) + l
      PROVE  FALSE
  <2>1. a[l].msg = b[i].msg /\ Place(a[l]) = Place(b[i]) /\ Place(a[l]) \in Nat
    BY <1>8, <1>3
  <2>2. Place(a[l]) < Place(b[i])
    BY <2>1, <1>1, <1>8
  <2> QED BY <2>1, <2>2
<1> QED BY <1>4, <1>5, <1>6, <1>7, <1>8

(* A set of at most one element.                                             *)
LEMMA AtMostOne ==
  ASSUME NEW S, \A i, j \in S : i = j
  PROVE  Cardinality(S) = IF S = {} THEN 0 ELSE 1
<1>1. CASE S = {}
  BY <1>1, FS_EmptySet
<1>2. CASE S # {}
  <2>1. PICK i : i \in S
    BY <1>2
  <2>2. S = {i}
    BY <2>1
  <2> QED BY <2>2, <1>2, FS_Singleton
<1> QED BY <1>1, <1>2

\* how often the end of m, of n fragments, is in s
EndsIn(s, m, n) == {i \in DOMAIN s : s[i].msg = m /\ Ends(s[i], n)}

(* The end of a message is in a stream once, or not at all.                  *)
LEMMA EndsOnce ==
  ASSUME NEW a \in Seq(Pieces), NEW b \in Seq(Pieces), InOrder(a \o b), NEW m, NEW n
  PROVE  Cardinality(EndsIn(b \o a, m, n)) =
           IF \E y \in Range(a \o b) : y.msg = m /\ Ends(y, n) THEN 1 ELSE 0
<1>1. PICK s \in Seq(Pieces) : s = b \o a
  BY Concatenated
<1>2. DOMAIN s = 1..Len(s)
  BY LenProperties
<1>3. \A i, j \in EndsIn(s, m, n) : i = j
  <2> SUFFICES ASSUME NEW i \in EndsIn(s, m, n), NEW j \in EndsIn(s, m, n) PROVE i = j
    OBVIOUS
  <2>1. Once(s)
    BY <1>1, OnceSwapped
  <2>2. i \in 1..Len(s) /\ j \in 1..Len(s) /\ s[i].msg = s[j].msg /\ Place(s[i]) = Place(s[j])
    BY <1>2 DEF EndsIn, Ends, Place
  <2> QED BY <2>1, <2>2 DEF Once
<1>4. EndsIn(s, m, n) # {} <=> \E y \in Range(s) : y.msg = m /\ Ends(y, n)
  <2>1. /\ \A i \in 1..Len(s) : s[i] \in Range(s)
        /\ \A y \in Range(s) : \E i \in 1..Len(s) : y = s[i]
    BY InRange
  <2> QED BY <2>1, <1>2 DEF EndsIn
<1>5. \A y : y \in Range(s) <=> y \in Range(a \o b)
  <2>1. \A y : y \in Range(b \o a) <=> y \in Range(b) \/ y \in Range(a)
    BY RangeOfConcat
  <2>2. \A y : y \in Range(a \o b) <=> y \in Range(a) \/ y \in Range(b)
    BY RangeOfConcat
  <2> QED BY <2>1, <2>2, <1>1
<1>6. Cardinality(EndsIn(s, m, n)) = IF EndsIn(s, m, n) = {} THEN 0 ELSE 1
  BY <1>3, AtMostOne
<1> QED BY <1>1, <1>4, <1>5, <1>6

\* how often m is queued
QueuedIn(q, m) == {i \in DOMAIN q : q[i].msg = m}

(* A reply is queued once, or not at all.                                    *)
LEMMA QueuedOnce ==
  ASSUME NEW T, NEW r \in Connections, NEW m, Tells(T, r)
  PROVE  Cardinality(QueuedIn(r.recordbuf, m)) =
           IF \E i \in 1..Len(r.recordbuf) : r.recordbuf[i].msg = m THEN 1 ELSE 0
<1>1. PICK q \in Seq(Queued) : q = r.recordbuf
  BY ConnectionFields
<1>2. DOMAIN q = 1..Len(q)
  BY LenProperties
<1>3. \A i, j \in QueuedIn(q, m) : i = j
  BY <1>1, <1>2 DEF QueuedIn, Tells
<1>4. QueuedIn(q, m) # {} <=> \E i \in 1..Len(q) : q[i].msg = m
  BY <1>2 DEF QueuedIn
<1>5. Cardinality(QueuedIn(q, m)) = IF QueuedIn(q, m) = {} THEN 0 ELSE 1
  BY <1>3, AtMostOne
<1> QED BY <1>1, <1>4, <1>5

\* the entry e of a list is in one place of r
InOnePlace(e, r) ==
  Cardinality(EndsIn(r.up \o r.readbuf, e.msg, e.msg.frags))
    + Cardinality(QueuedIn(r.recordbuf, e.msg))
    + Cardinality(EndsIn(r.writebuf \o r.down, e.msg, e.msg.back))
    + (IF e.rdata = None THEN 0 ELSE 1) = 1

(* An outstanding call is on its way, queued, on its way back or kept.       *)
LEMMA OnePlace ==
  ASSUME NEW T \in ThreadStates, NEW X, NEW lost, NEW r \in Connections, NEW n, NEW x \in DOMAIN X, NEW k,
         Link(T, X, lost, r, n, {}), Asks(r, k),
         X[x].rdata = None => Somewhere(T, r, X[x].msg)
  PROVE  InOnePlace(X[x], r)
<1> DEFINE m == X[x].msg
           Requested == \E y \in Range(r.readbuf \o r.up) : y.msg = m /\ Ends(y, m.frags)
           InQueue   == \E i \in 1..Len(r.recordbuf) : r.recordbuf[i].msg = m
           Replied   == \E y \in Range(r.down \o r.writebuf) : y.msg = m /\ Ends(y, m.back)
<1>1. PICK a \in Seq(Pieces), b \in Seq(Pieces), c \in Seq(Pieces), d \in Seq(Pieces),
           g \in Seq(Pieces), p \in Seq(Pieces) :
        a = r.readbuf /\ b = r.up /\ c = r.down /\ d = r.writebuf /\ g = T.got /\ p = r.packetbuf
  BY ConnectionFields, ThreadFields
<1>2. /\ a \o b \in Seq(Pieces) /\ c \o d \in Seq(Pieces)
      /\ Asked(r) = p \o (a \o b) /\ Told(T, r) = g \o (c \o d)
  BY <1>1, StreamsAgain
<1>3. /\ InOrder(a \o b) /\ InOrder(c \o d)
      /\ \A y \in Range(a \o b) : y \in Range(Asked(r))
      /\ \A y \in Range(c \o d) : y \in Range(Told(T, r))
  <2>1. InOrder(Asked(r)) /\ InOrder(Told(T, r))
    BY DEF Asks, Link, Tells
  <2>2. PICK u \in Seq(Pieces), v \in Seq(Pieces) : u = a \o b /\ v = c \o d
    BY <1>2
  <2>3. InOrder(u) /\ InOrder(v)
    <3>1. /\ p \in Seq(Pieces) /\ u \in Seq(Pieces) /\ g \in Seq(Pieces) /\ v \in Seq(Pieces)
          /\ InOrder(p \o u) /\ InOrder(g \o v)
      BY <2>1, <2>2, <1>2, <1>1
    <3> QED BY ONLY <3>1, InOrderSplit
  <2>4. /\ \A y : y \in Range(p \o u) <=> y \in Range(p) \/ y \in Range(u)
        /\ \A y : y \in Range(g \o v) <=> y \in Range(g) \/ y \in Range(v)
    BY RangeOfConcat
  <2> QED BY <2>2, <2>3, <2>4, <1>2
<1>4. Cardinality(EndsIn(r.up \o r.readbuf, m, m.frags)) = IF Requested THEN 1 ELSE 0
  <2>1. Cardinality(EndsIn(b \o a, m, m.frags)) =
          IF \E y \in Range(a \o b) : y.msg = m /\ Ends(y, m.frags) THEN 1 ELSE 0
    BY <1>3, EndsOnce
  <2> QED BY <2>1, <1>1
<1>5. Cardinality(EndsIn(r.writebuf \o r.down, m, m.back)) = IF Replied THEN 1 ELSE 0
  <2>1. Cardinality(EndsIn(d \o c, m, m.back)) =
          IF \E y \in Range(c \o d) : y.msg = m /\ Ends(y, m.back) THEN 1 ELSE 0
    BY <1>3, EndsOnce
  <2> QED BY <2>1, <1>1
<1>6. Cardinality(QueuedIn(r.recordbuf, m)) = IF InQueue THEN 1 ELSE 0
  BY QueuedOnce DEF Link
<1>7. InQueue \/ Replied => Answered(T, r, m)
  BY <1>1, <1>3 DEF Answered
<1>8. Requested => ~Answered(T, r, m)
  <2>1. \A y \in Range(Asked(r)) : ~Answered(T, r, y.msg)
    BY DEF Link, AskedOrAnswered
  <2> QED BY <2>1, <1>1, <1>3
<1>9. ~(InQueue /\ Replied)
  <2> SUFFICES ASSUME NEW i \in 1..Len(r.recordbuf), r.recordbuf[i].msg = m,
                      NEW y \in Range(c \o d), y.msg = m, Ends(y, m.back)
               PROVE  FALSE
    BY <1>1
  <2>0. y \in Range(Told(T, r)) /\ y.msg = r.recordbuf[i].msg
    BY <1>3
  <2>1. y.part < r.recordbuf[i].part /\ r.recordbuf[i].part <= m.back
    BY <2>0 DEF Link, Tells
  <2>2. y.part = m.back
    BY DEF Ends
  <2>3. r.recordbuf[i].part \in Nat /\ y.part \in Nat
    <3>1. r.recordbuf[i] \in Queued
      BY ConnectionFields, ElementOfSeq
    <3>2. y \in Pieces
      BY <1>2, InRange
    <3> QED BY ONLY <3>1, <3>2 DEF Queued, Pieces
  <2>4. m.back \in Nat
    BY <2>2, <2>3
  <2>5. PICK h \in Nat, k2 \in Nat, b2 \in Nat : h = y.part /\ k2 = r.recordbuf[i].part /\ b2 = m.back
    BY ONLY <2>3, <2>4
  <2> QED BY ONLY <2>1, <2>2, <2>5
<1>10. X[x].rdata # None => ~Requested /\ ~Answered(T, r, m)
  <2>1. X[x].rdata # None =>
          /\ \A y \in Range(Asked(r)) : y.msg = m => ~Ends(y, y.msg.frags)
          /\ ~Answered(T, r, m)
    BY DEF Link, KeptOnce, Xids
  <2> QED BY <2>1, <1>1, <1>3
<1>11. X[x].rdata = None => Requested \/ InQueue \/ Replied
  BY DEF Somewhere
<1>12. (IF Requested THEN 1 ELSE 0) + (IF InQueue THEN 1 ELSE 0) + (IF Replied THEN 1 ELSE 0)
         + (IF X[x].rdata = None THEN 0 ELSE 1) = 1
  <2> HIDE DEF Requested, InQueue, Replied
  <2> QED BY <1>7, <1>8, <1>9, <1>10, <1>11
<1> HIDE DEF Requested, InQueue, Replied
<1> QED BY <1>4, <1>5, <1>6, <1>12 DEF InOnePlace

(* Conserved follows.                                                        *)
LEMMA ConservedMeans == SafeInv /\ PlaceInv => Conserved
<1> SUFFICES ASSUME SafeInv, PlaceInv, NEW t \in Threads, NEW x \in DOMAIN xidlist[t],
                    xidlist[t][x].on = th[t].sock, Undisturbed(conn[xidlist[t][x].on]), alive
             PROVE  InOnePlace(xidlist[t][x], conn[xidlist[t][x].on])
  <2> SUFFICES ASSUME SafeInv, PlaceInv PROVE Conserved
    OBVIOUS
  <2>1. ASSUME NEW t \in Threads, NEW x \in DOMAIN xidlist[t],
               xidlist[t][x].on = th[t].sock, Undisturbed(conn[xidlist[t][x].on]), alive
        PROVE  InOnePlace(xidlist[t][x], conn[xidlist[t][x].on])
    BY <2>1
  <2>2. \A t \in Threads : \A x \in DOMAIN xidlist[t] :
          /\ xidlist[t][x].on = th[t].sock
          /\ Undisturbed(conn[xidlist[t][x].on])
          /\ alive
          => InOnePlace(xidlist[t][x], conn[xidlist[t][x].on])
    BY <2>1
  <2> QED BY ONLY <2>2 DEF InOnePlace, Conserved, Count, EndsIn, QueuedIn, Undisturbed
<1>1. th[t].sock # NoSocket
  <2>1. xidlist[t][x] \in Entries
    BY ThreadFacts DEF List
  <2> QED BY <2>1 DEF Entries, NoSocket
<1>2. PICK r \in Connections : r = conn[th[t].sock] /\ Undisturbed(r)
  BY <1>1, ThreadFacts, StateFacts
<1>3. Link(th[t], xidlist[t], lockLost, r, Len(calls), {}) /\ Asks(r, Len(calls))
  <2>1. Cuts(r, CutBy(t)) = {}
    BY <1>2 DEF Cuts, Undisturbed
  <2> QED BY <2>1, <1>1, <1>2, ThreadFacts, StateFacts DEF Linked, Undisturbed
<1>4. xidlist[t][x].rdata = None => Somewhere(th[t], r, xidlist[t][x].msg)
  <2>1. PlaceOf(th[t], xidlist[t], conn, alive)
    BY PlaceParts
  <2> QED BY <2>1, <1>1, <1>2 DEF PlaceOf, Located
<1>5. th[t] \in ThreadStates
  BY ThreadFacts
<1>6. PICK T, X : T = th[t] /\ X = xidlist[t] /\ T \in ThreadStates
  BY <1>5
<1>7. InOnePlace(X[x], r)
  <2>1. x \in DOMAIN X
    BY <1>6
  <2>2. X[x].rdata = None => Somewhere(T, r, X[x].msg)
    BY <1>4, <1>6
  <2>3. Link(T, X, lockLost, r, Len(calls), {}) /\ Asks(r, Len(calls))
    BY <1>3, <1>6
  <2>4. T \in ThreadStates /\ r \in Connections
    BY <1>2, <1>6
  <2> QED BY <2>1, <2>2, <2>3, <2>4, OnePlace
<1> QED BY <1>2, <1>6, <1>7

(* On a connection nothing went wrong with, an outstanding call is in exactly*)
(* one place: on its way, its reply queued or on its way, or kept.           *)
THEOREM RpcConserved == Spec => []Conserved
BY PlaceInit, PlaceNext, ConservedMeans, ReplyInit, ReplyNext, RpcSafe, PTL DEF Spec
=============================================================================
