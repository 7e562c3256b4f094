--------------------------------- MODULE Rpc --------------------------------
(* Calls over TCP with the Python RPC library: the threads of one Client,    *)
(* each with a socket and a list of outstanding xids of its own, and a       *)
(* TCPServer whose loop serves all connections.  A record is sent as         *)
(* fragments, and a fragment reaches the other side in two pieces: its first *)
(* bytes, as many as were sent or received when a send or a recv stopped     *)
(* inside it, and the rest.  Connections break, sends and receives time out, *)
(* the client reconnects and sends again, and xids wrap around.              *)
EXTENDS Integers, Sequences, FiniteSets

CONSTANTS
  Threads,      \* the threads that use the client
  Creator,      \* the one that made it, and so the only one connected
  XidMod,       \* xids are counted modulo this: 2^32
  RecvMax,      \* pieces of fragments the server takes in one recv: 4096 bytes
  Sizes,        \* of the calls of a run, their fragments and those of their replies
  MaxConns,     \* bound of a run: connections, but for one made before raising
  Budget        \* bound of a run: calls, timeouts, resets and closes together

ASSUME RpcAssumption ==
  /\ Creator \in Threads
  /\ {XidMod, RecvMax} \subseteq Nat \ {0}
  /\ Sizes \in Seq((Nat \ {0}) \X (Nat \ {0}))
  /\ {MaxConns, Budget} \subseteq Nat

VARIABLES
  xid,        \* the last xid given out
  lockLost,   \* a thread raised an exception with the client's lock held
  th,         \* the threads
  xidlist,    \* of each thread, its outstanding calls by their xids
  conn,       \* every connection made so far, both ends of it
  alive,      \* the server's loop runs
  calls,      \* the calls made so far, for the properties
  ran,        \* how often the server has run each of them
  faults      \* how many timeouts, resets and closes there were

vars == <<xid, lockLost, th, xidlist, conn, alive, calls, ran, faults>>

None == [none |-> TRUE]
NoSocket == 0
NoXid == -1

\* what goes over the wire: the first bytes of a fragment, its mark or a part of it
\* among them, are half 1, the rest of it is half 2
Fragment(m, i) == << [msg |-> m, part |-> i, half |-> 1], [msg |-> m, part |-> i, half |-> 2] >>
Place(x)       == 2 * (x.part - 1) + x.half       \* of x in its record
Ends(x, n)     == x.part = n /\ x.half = 2
Whole(s, n)    == \* s is a record of n fragments of one message, complete
  Len(s) = 2 * n /\ \A i \in 1..Len(s) : s[i].msg = s[1].msg /\ Place(s[i]) = i

Connection(t) ==
  [by |-> t, open |-> TRUE, broken |-> FALSE, fd |-> "new", up |-> <<>>, down |-> <<>>,
   readbuf |-> <<>>, packetbuf |-> <<>>, recordbuf |-> <<>>, writebuf |-> <<>>, mask |-> "read",
   cut |-> FALSE, torn |-> FALSE]

Thread(s) ==
  [pc |-> "idle", msg |-> None, part |-> 0, want |-> NoXid, got |-> <<>>,
   sock |-> s, ended |-> "none", answer |-> None]
\* a thread that has left send or listen
Idle(r) == [r EXCEPT !.pc = "idle", !.msg = None, !.part = 0, !.want = NoXid, !.got = <<>>]
\* and one that enters it
Entered(r) == [Idle(r) EXCEPT !.ended = "none", !.answer = None]
\* one that leaves it by an exception or a time-out, and one that returns m2 for m
Leaving(r, e)      == [Idle(r) EXCEPT !.ended = e]
Returned(r, m, m2) == [Idle(r) EXCEPT !.ended = "returned", !.answer = [call |-> m, reply |-> m2]]

Init ==
  /\ xid = 0 /\ lockLost = FALSE /\ alive = TRUE /\ calls = <<>> /\ ran = <<>> /\ faults = 0
  /\ th = [t \in Threads |-> Thread(IF t = Creator THEN 1 ELSE NoSocket)]
  /\ xidlist = [t \in Threads |-> <<>>]
  /\ conn = << Connection(Creator) >>

-----------------------------------------------------------------------------
(* The client.  socketPool, xid and the lists are touched under the lock, by *)
(* one critical section per step.                                            *)

Sock(t) == conn[th[t].sock]
Usable(t) == th[t].sock # NoSocket /\ Sock(t).open /\ ~Sock(t).broken
Gone(t) == Usable(t) => Sock(t).fd = "gone" \/ ~alive

Become(t, r) == th' = [th EXCEPT ![t] = r]
Raise(t, e)  == Become(t, Leaving(th[t], e))
Fault        == Len(calls) + faults < Budget /\ faults' = faults + 1

\* reconnect: the old socket is closed; nobody listens if the loop has ended
Closed(t) == IF th[t].sock = NoSocket THEN conn ELSE [conn EXCEPT ![th[t].sock].open = FALSE]
Reconnect(t, r) ==
  /\ ~lockLost
  /\ IF alive
     THEN /\ Len(conn) < IF r.pc = "idle" THEN MaxConns + 1 ELSE MaxConns
          /\ conn' = Append(Closed(t), Connection(t))
          /\ Become(t, [r EXCEPT !.sock = Len(conn) + 1])
     ELSE /\ conn' = Closed(t)
          /\ Become(t, [Idle(th[t]) EXCEPT !.sock = NoSocket, !.ended = "error"])
ReconnectAndRaise(t, e) == Reconnect(t, Leaving(th[t], e))

\* send: get_new_xid, then send_record
Send(t) ==
  /\ th[t].pc = "idle" /\ ~lockLost /\ Len(calls) < Len(Sizes)
  /\ Len(calls) + faults < Budget
  /\ xid' = (xid + 1) % XidMod
  /\ calls' = Append(calls, [by |-> t, sent |-> 0, cut |-> FALSE])
  /\ ran' = Append(ran, 0)
  /\ LET n == Len(calls')
         m == [no |-> n, xid |-> xid', frags |-> Sizes[n][1], back |-> Sizes[n][2]]
     IN  Become(t, [Entered(th[t]) EXCEPT !.pc = "send", !.msg = m, !.part = 1])
  /\ UNCHANGED <<lockLost, xidlist, conn, alive, faults>>

\* where the bytes of a whole record go from here
AfterSend(pc) == IF pc = "resend" THEN "relisten" ELSE "add"

\* sendall of a mark and its chunk; a closed peer may not have been noticed yet
Sending(t) == th[t].pc \in {"send", "retry", "resend"}
SendFragment(t) ==
  /\ Sending(t) /\ Usable(t)
  /\ LET m == th[t].msg
         last == th[t].part = m.frags
     IN  /\ conn' = [conn EXCEPT ![th[t].sock].up = @ \o Fragment(m, th[t].part)]
         /\ Become(t, IF last THEN [th[t] EXCEPT !.pc = AfterSend(@)] ELSE [th[t] EXCEPT !.part = @ + 1])
         /\ calls' = IF last THEN [calls EXCEPT ![m.no].sent = @ + 1] ELSE calls
         /\ xidlist' = IF last /\ th[t].pc = "resend"
                       THEN [xidlist EXCEPT ![t][m.xid].on = th[t].sock] ELSE xidlist
  /\ UNCHANGED <<xid, lockLost, alive, ran, faults>>

\* on from the fragment that failed
BadResumeAt(t) == th[t].part
\* the whole record is sent again
ResumeAt(t) == 1

\* send_impl, and the resending of listen: once more on a new connection
SendError(t) ==
  /\ Sending(t) /\ Gone(t)
  /\ IF th[t].pc = "send" THEN Reconnect(t, [th[t] EXCEPT !.pc = "retry", !.part = ResumeAt(t)])
     ELSE ReconnectAndRaise(t, "error")
  /\ UNCHANGED <<xid, lockLost, xidlist, alive, calls, ran, faults>>

\* the first send leaves its connection open, with what sendall sent of a fragment
\* on it; on the connections left by the others nothing follows what was sent
SendTimeout(t) ==
  /\ Sending(t) /\ ~Gone(t) /\ Fault
  /\ IF th[t].pc = "send"
     THEN \E k \in {0, 1} :
            LET begun == th[t].part > 1 \/ k > 0
            IN  /\ conn' = [conn EXCEPT ![th[t].sock].up = @ \o SubSeq(Fragment(th[t].msg, th[t].part), 1, k),
                                     ![th[t].sock].cut = @ \/ begun]
                /\ calls' = [calls EXCEPT ![th[t].msg.no].cut = begun]
                /\ Raise(t, "timeout")
     ELSE ReconnectAndRaise(t, "timeout") /\ UNCHANGED calls
  /\ UNCHANGED <<xid, lockLost, xidlist, alive, ran>>

\* the test for an xid in use raises with the lock held
\* no test
BadInUse(t, x) == FALSE
InUse(t, x) == x \in DOMAIN xidlist[t]
With(list, x, e) == [y \in DOMAIN list \union {x} |-> IF y = x THEN e ELSE list[y]]
AddOutstanding(t) ==
  /\ th[t].pc = "add" /\ ~lockLost
  /\ LET m == th[t].msg
     IN  IF InUse(t, m.xid)
         THEN lockLost' = TRUE /\ Raise(t, "inuse") /\ UNCHANGED xidlist
         ELSE /\ xidlist' = [xidlist EXCEPT ![t] =
                               With(@, m.xid, [msg |-> m, rdata |-> None, on |-> th[t].sock])]
              /\ Become(t, Idle(th[t]))
              /\ UNCHANGED lockLost
  /\ UNCHANGED <<xid, conn, alive, calls, ran, faults>>

Without(list, x) == [y \in DOMAIN list \ {x} |-> list[y]]
Return(t, x, m) ==
  /\ xidlist' = [xidlist EXCEPT ![t] = Without(@, x)]
  /\ Become(t, Returned(th[t], xidlist[t][x].msg, m))

\* listen: an answer read earlier is returned, else records are read
Listen(t) ==
  /\ th[t].pc = "idle" /\ ~lockLost
  /\ \E x \in DOMAIN xidlist[t] :
       IF xidlist[t][x].rdata # None THEN Return(t, x, xidlist[t][x].rdata)
       ELSE /\ Become(t, [Entered(th[t]) EXCEPT !.pc = "listen", !.want = x])
            /\ UNCHANGED xidlist
  /\ UNCHANGED <<xid, lockLost, conn, alive, calls, ran, faults>>

Listening(t) == th[t].pc \in {"listen", "relisten"} /\ Usable(t)

\* an answer to another call is forgotten
BadDeliver(t, s) ==
  IF ~Whole(s, s[1].msg.back) THEN Raise(t, "garbled") /\ UNCHANGED xidlist
  ELSE IF s[1].msg.xid \notin DOMAIN xidlist[t] THEN Raise(t, "stray") /\ UNCHANGED xidlist
  ELSE IF s[1].msg.xid = th[t].want THEN Return(t, th[t].want, s[1].msg)
  ELSE UNCHANGED xidlist /\ Become(t, [th[t] EXCEPT !.pc = "listen", !.got = <<>>])
\* what listen makes of a record: the answer it wants, or one to keep
Deliver(t, s) ==
  LET m == s[1].msg
  IN  IF ~Whole(s, m.back) THEN Raise(t, "garbled") /\ UNCHANGED xidlist
      ELSE IF m.xid \notin DOMAIN xidlist[t] THEN Raise(t, "stray") /\ UNCHANGED xidlist
      ELSE IF m.xid = th[t].want THEN Return(t, m.xid, m)
      ELSE /\ xidlist' = [xidlist EXCEPT ![t][m.xid].rdata = m]
           /\ Become(t, [th[t] EXCEPT !.pc = "listen", !.got = <<>>])

\* the recvs of a fragment; the lock is taken to find the socket and the unpacker
Recv(t) ==
  /\ Listening(t) /\ Sock(t).down # <<>>
  /\ LET x == Head(Sock(t).down)
         s == Append(th[t].got, x)
     IN  /\ x.half = (Len(th[t].got) % 2) + 1
         /\ (th[t].got = <<>> /\ th[t].pc = "listen") \/ Ends(x, x.msg.back) => ~lockLost
         /\ conn' = [conn EXCEPT ![th[t].sock].down = Tail(@)]
         /\ IF Ends(x, x.msg.back) THEN Deliver(t, s)
            ELSE Become(t, [th[t] EXCEPT !.got = s]) /\ UNCHANGED xidlist
  /\ UNCHANGED <<xid, lockLost, alive, calls, ran, faults>>

\* the rest of a fragment taken for a mark: any number of bytes is read before
\* something raises
RecvGarbage(t) ==
  /\ Listening(t) /\ Sock(t).down # <<>> /\ ~lockLost
  /\ Head(Sock(t).down).half # (Len(th[t].got) % 2) + 1
  /\ \E k \in 1..Len(Sock(t).down) :
       conn' = [conn EXCEPT ![th[t].sock].down = SubSeq(@, k + 1, Len(@))]
  /\ Raise(t, "garbled")
  /\ UNCHANGED <<xid, lockLost, xidlist, alive, calls, ran, faults>>

\* the connection is gone: listen sends its own call again, and none of the others
RecvError(t) ==
  /\ th[t].pc \in {"listen", "relisten"} /\ Gone(t)
  /\ Usable(t) => Sock(t).down = <<>>
  /\ IF th[t].pc = "listen"
     THEN Reconnect(t, [th[t] EXCEPT !.pc = "resend", !.part = 1, !.got = <<>>,
                                    !.msg = xidlist[t][th[t].want].msg])
     ELSE ReconnectAndRaise(t, "error")
  /\ UNCHANGED <<xid, lockLost, xidlist, alive, calls, ran, faults>>

\* the call is given up
BadAfterTimeout(t) == [xidlist EXCEPT ![t] = Without(@, th[t].want)]
AfterTimeout(t) == xidlist     \* the xid stays outstanding

\* what has been read of a record is forgotten
RecvTimeout(t) ==
  /\ Listening(t) /\ Fault
  /\ IF th[t].pc = "listen"
     THEN /\ conn' = IF th[t].got = <<>> THEN conn ELSE [conn EXCEPT ![th[t].sock].torn = TRUE]
          /\ Raise(t, "timeout")
          /\ xidlist' = AfterTimeout(t)
     ELSE ReconnectAndRaise(t, "timeout") /\ UNCHANGED xidlist
  /\ UNCHANGED <<xid, lockLost, alive, calls, ran>>

\* close: the pool keeps the socket, whose next use is an error
Close(t) ==
  /\ th[t].pc = "idle" /\ ~lockLost /\ Usable(t) /\ Fault
  /\ conn' = Closed(t)
  /\ UNCHANGED <<xid, lockLost, th, xidlist, alive, calls, ran>>

-----------------------------------------------------------------------------
(* The server's loop: one event of one connection at a time.                 *)

Serving(c) == alive /\ conn[c].fd = "open" /\ ~conn[c].broken

EventNewClient(c) ==
  /\ alive /\ conn[c].fd = "new"
  /\ conn' = [conn EXCEPT ![c].fd = "open"]
  /\ UNCHANGED <<xid, lockLost, th, xidlist, alive, calls, ran, faults>>

\* what read_data may take off its buffer: a fragment once it is there, and nothing
\* of its first bytes; where a fragment was cut, what is taken for a mark announces
\* any packet, the last of a record or not
Nothing == [size |-> 0, last |-> FALSE]
InStep(data) == Len(data) >= 2 /\ data[1].half = 1 /\ data[2] = [data[1] EXCEPT !.half = 2]
Packets(data) ==
  IF InStep(data) THEN {[size |-> 2, last |-> data[1].part = data[1].msg.frags]}
  ELSE {Nothing} \union [size : (IF data[1].half = 1 THEN 2 ELSE 0)..Len(data), last : BOOLEAN]

\* the packet stays in the buffer
BadRest(data, n) == data
\* what is left to read once a packet is taken
Rest(data, n) == SubSeq(data, n + 1, Len(data))

\* event_read: a record that is one whole call is run and its reply queued.  Any other
\* has no header to unpack, or arguments that are not its call's: it is dropped, raises
\* what nothing catches, or is answered, with or without the call being run
Answering(r, m) == [r EXCEPT !.recordbuf = Append(@, [msg |-> m, part |-> 1]), !.mask = "both"]
EventRead(c, r, rec) ==
  LET m      == rec[1].msg
      run    == [ran EXCEPT ![m.no] = @ + 1]
      Answer == conn' = [conn EXCEPT ![c] = Answering(r, m)] /\ UNCHANGED alive
  IN  IF rec # <<>> /\ Whole(rec, m.frags) THEN Answer /\ ran' = run
      ELSE \/ alive' = FALSE /\ UNCHANGED <<conn, ran>>
           \/ conn' = [conn EXCEPT ![c] = r] /\ UNCHANGED <<alive, ran>>
           \/ rec # <<>> /\ Place(rec[1]) = 1 /\ Answer /\ ran' \in {ran, run}

\* read_data takes one packet at most off what it has read
ReadData(c) ==
  /\ Serving(c)
  /\ \E k \in 1..Len(conn[c].up) :
       LET data == conn[c].readbuf \o SubSeq(conn[c].up, 1, k)
           up   == SubSeq(conn[c].up, k + 1, Len(conn[c].up))
           Now(d, p) == [conn[c] EXCEPT !.up = up, !.readbuf = d, !.packetbuf = p]
       IN  /\ k <= RecvMax
           /\ \E p \in Packets(data) :
                LET rec == conn[c].packetbuf \o SubSeq(data, 1, p.size)
                IN  IF p.last THEN EventRead(c, Now(Rest(data, p.size), <<>>), rec)
                    ELSE /\ conn' = [conn EXCEPT ![c] = Now(Rest(data, p.size), rec)]
                         /\ UNCHANGED <<alive, ran>>
  /\ UNCHANGED <<xid, lockLost, th, xidlist, calls, faults>>

\* event_close at the end of the stream; a POLLOUT of the same poll is handled
\* after it, by an event_write that finds no buffers
ReadEnd(c) ==
  /\ Serving(c) /\ conn[c].up = <<>> /\ ~conn[c].open
  /\ conn' = [conn EXCEPT ![c].fd = "gone"]
  /\ alive' \in IF conn[c].mask = "both" THEN BOOLEAN ELSE {TRUE}
  /\ UNCHANGED <<xid, lockLost, th, xidlist, calls, ran, faults>>

\* the queue once the next fragment of its first record is taken
AfterChunk(q) ==
  LET h == Head(q)
  IN  IF h.part = h.msg.back THEN Tail(q) ELSE <<[h EXCEPT !.part = @ + 1]>> \o Tail(q)

\* the next chunk taken whether or not the last was written
BadChunk(r) ==
  IF r.recordbuf = <<>> THEN [r EXCEPT !.mask = "read"]
  ELSE [r EXCEPT !.writebuf = Fragment(Head(r.recordbuf).msg, Head(r.recordbuf).part),
                 !.recordbuf = AfterChunk(@)]
\* the next thing to write: what is left of a chunk, then the next chunk
Chunk(r) ==
  IF r.writebuf # <<>> THEN r
  ELSE IF r.recordbuf = <<>> THEN [r EXCEPT !.mask = "read"]
  ELSE [r EXCEPT !.writebuf = Fragment(Head(r.recordbuf).msg, Head(r.recordbuf).part),
                 !.recordbuf = AfterChunk(@)]

\* event_write: send takes as much as there is room for
EventWrite(c) ==
  /\ Serving(c) /\ conn[c].mask = "both"
  /\ LET r == Chunk(conn[c])
         w == r.writebuf
     IN  IF w = <<>> THEN conn' = [conn EXCEPT ![c] = r]
         ELSE \E k \in 1..Len(w) :
                conn' = [conn EXCEPT ![c] = [r EXCEPT !.down = @ \o SubSeq(w, 1, k),
                                                      !.writebuf = SubSeq(w, k + 1, Len(w))]]
  /\ UNCHANGED <<xid, lockLost, th, xidlist, alive, calls, ran, faults>>

\* event_hup, or the exception of a recv or send after the poll saw no reset
EventHup(c) ==
  /\ alive /\ conn[c].fd = "open" /\ conn[c].broken
  /\ conn' = [conn EXCEPT ![c].fd = "gone"]
  /\ alive' \in BOOLEAN
  /\ UNCHANGED <<xid, lockLost, th, xidlist, calls, ran, faults>>

\* a connection is reset, and what is under way on it lost
Break(c) ==
  /\ Fault /\ ~conn[c].broken /\ conn[c].fd # "gone"
  /\ conn' = [conn EXCEPT ![c] = [@ EXCEPT !.broken = TRUE, !.up = <<>>, !.down = <<>>]]
  /\ UNCHANGED <<xid, lockLost, th, xidlist, alive, calls, ran>>

ClientNext(t) ==
  \/ Send(t) \/ SendFragment(t) \/ SendError(t) \/ SendTimeout(t) \/ AddOutstanding(t)
  \/ Listen(t) \/ Recv(t) \/ RecvGarbage(t) \/ RecvError(t) \/ RecvTimeout(t)
  \/ Close(t)

ServerNext(c) ==
  EventNewClient(c) \/ ReadData(c) \/ ReadEnd(c) \/ EventWrite(c) \/ EventHup(c)

Next ==
  \/ \E t \in Threads : ClientNext(t)
  \/ \E c \in DOMAIN conn : ServerNext(c) \/ Break(c)

Spec == Init /\ [][Next]_vars

-----------------------------------------------------------------------------
\* a send of this thread under this xid timed out with a part of its bytes sent
Spoilt(t, x) == \E n \in DOMAIN calls : calls[n].by = t /\ calls[n].cut /\ n % XidMod = x

(* listen returns the answer to the very call it was asked about, whatever   *)
(* was sent again, timed out or read out of turn, and though xids wrap:      *)
(* unless the thread cut the sending of an earlier call with the same xid.   *)
AnswersMatch ==
  \A t \in Threads : th[t].answer # None =>
    LET call  == th[t].answer.call
        reply == th[t].answer.reply
    IN  call = reply \/ (call.xid = reply.xid /\ Spoilt(t, call.xid))

(* A reply read whole is to a call that is still on the list, on every       *)
(* connection on which no send was cut.                                      *)
NoStrayReply == \A t \in Threads : th[t].ended = "stray" => Sock(t).cut

(* The server runs a call at most once for each time it was sent whole: more *)
(* than once only after a connection went away.  A call whose sending was    *)
(* cut, and that the bytes of the next one complete, it runs once at most.   *)
RunAsSent ==
  \A n \in DOMAIN calls : ran[n] <= calls[n].sent + (IF calls[n].cut THEN 1 ELSE 0)

Count(s, Test(_)) == Cardinality({i \in DOMAIN s : Test(s[i])})

(* On a connection nothing went wrong with, an outstanding call is in exactly*)
(* one place: on its way, its reply queued or on its way, or kept on the     *)
(* list.  No other call, and no order of listening, makes it disappear.      *)
Conserved ==
  \A t \in Threads : \A x \in DOMAIN xidlist[t] :
    LET e == xidlist[t][x]
        c == conn[e.on]
        Request(y) == y.msg = e.msg /\ Ends(y, e.msg.frags)
        Reply(y)   == y.msg = e.msg /\ Ends(y, e.msg.back)
        Queued(r)  == r.msg = e.msg
    IN  (e.on = th[t].sock /\ c.open /\ ~c.broken /\ c.fd # "gone" /\ alive /\ ~c.cut /\ ~c.torn) =>
          Count(c.up \o c.readbuf, Request) + Count(c.recordbuf, Queued)
            + Count(c.writebuf \o c.down, Reply) + (IF e.rdata = None THEN 0 ELSE 1) = 1

(* What the client reads and is about to read is a sequence of whole replies *)
(* in which no fragment of one comes between those of another.               *)
RepliesWhole ==
  \A t \in Threads : (Usable(t) /\ ~Sock(t).torn) =>
    LET s == th[t].got \o Sock(t).down \o Sock(t).writebuf
        Follows(x, y) == IF Ends(x, x.msg.back) THEN Place(y) = 1
                         ELSE y.msg = x.msg /\ Place(y) = Place(x) + 1
    IN  /\ s # <<>> => Place(s[1]) = 1
        /\ \A i \in 1..(Len(s) - 1) : Follows(s[i], s[i + 1])

(* The loop ends only over a connection it serves that was reset, that the   *)
(* client closed with a reply still to be written, or where a send was cut.  *)
ServerDiesOnlyOf ==
  [][(alive /\ ~alive') => \E c \in DOMAIN conn :
       /\ conn[c].fd = "open"
       /\ \/ conn[c].broken
          \/ ~conn[c].open /\ conn[c].mask = "both"
          \/ conn[c].cut]_vars

(* The server does not wait for more with a whole packet unread in its       *)
(* buffer: what was sent whole is answered.                                  *)
NoRecordLeftBehind ==
  \A c \in DOMAIN conn :
    (Serving(c) /\ conn[c].open /\ conn[c].up = <<>>) => ~InStep(conn[c].readbuf)
=============================================================================
