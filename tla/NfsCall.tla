------------------------------ MODULE NfsCall ------------------------------
(* Remote procedure calls of one thread through the Python RPC library: a    *)
(* client class of rfc1813 or rfc1057 packs the argument and sends the call, *)
(* the server's compute_reply reads the header, hands the rest to handle_N,  *)
(* and the client unpacks the answer.  The server runs the handler's method  *)
(* as a step of its own.  The client may give a call up and make the next    *)
(* one while the first, or its answer, is still under way.  Streams carry    *)
(* messages whole (the record marks are the business of module Rpc); a       *)
(* datagram is cut at the size both ends read, and may get lost or overtake. *)
EXTENDS NfsTypes, NfsPack, NfsUnpack, NfsProcs

CONSTANTS
  UdpBuf,        \* bytes either end takes of a datagram: 8192 in the code
  Clients,       \* the client classes: a function from their names
  Servers,       \* the server classes: a function from their names
  Late,          \* bound of a run: procedures whose calls are given up while under way
  MaxCalls       \* bound of a run: xids given out

ASSUME NfsCallAssumption == {UdpBuf, MaxCalls} \subseteq Nat

None == [none |-> TRUE]

VARIABLES
  server,   \* class and state: "on", "off" (event_command 0) or "dead"
  xid,      \* the last xid given out
  list,     \* the outstanding calls by their xids, and what listen keeps for them
  call,     \* the call the client is making, None between calls
  net,      \* the messages under way to the server and to the client
  job,      \* the method the server is running, None if there is none
  given,    \* what the methods returned, by the xids of their calls
  out       \* what the call returned to the client or raised, None while it runs

vars == <<server, xid, list, call, net, job, given, out>>

Lost(data) == [ok |-> FALSE, exc |-> data]
Waiting == call # None /\ out = None
Here == Servers[server.class]

\* the call with this xid
CallOf(x) == IF call # None /\ call.xid = x THEN call ELSE list[x].call
UnderWay(x) == \/ job # None /\ job.xid = x
               \/ \E m \in Range(net.server) \cup Range(net.client) : m.xid = x

packerOf(k)   == IF k.prog = PMAP_PROG THEN protPacker_1057 ELSE protPacker
unpackerOf(k) == IF k.prog = PMAP_PROG THEN protUnpacker_1057 ELSE protUnpacker

\* what arrives of a message
Arrived(buf) == IF Here.transport = "TCP" THEN buf
                ELSE SubSeq(buf, 1, IF UdpBuf < Len(buf) THEN UdpBuf ELSE Len(buf))

\* which message comes next: a datagram may overtake another
Comes(s) == IF Here.transport = "TCP" THEN {1} \cap DOMAIN s ELSE DOMAIN s

-----------------------------------------------------------------------------
(* Headers                                                                   *)

NoAuth == [flavor |-> AUTH_NONE, body |-> <<>>]

\* the credential is packed by hand, in the layout of auth_unix
SysAuth(stamp, machinename, uid, gid, gids) ==
  [flavor |-> AUTH_SYS,
   body   |-> Bytes4(stamp) \o Bytes4(Len(machinename)) \o Fixed(Len(machinename), machinename)
              \o Bytes4(uid) \o Bytes4(gid) \o Bytes4(Len(gids))
              \o FlattenSeq([i \in DOMAIN gids |-> Bytes4(gids[i])])]

RPCVERSION == 2

get_call_header(x, prog, vers, proc, cred) ==
  FlattenSeq(<<Bytes4(x), Bytes4(CALL), Bytes4(RPCVERSION), Bytes4(prog), Bytes4(vers), Bytes4(proc)>>)
  \o Pack(RPCPacker, "opaque_auth", cred).val \o Pack(RPCPacker, "opaque_auth", NoAuth).val

AcceptedReply(x, data) ==
  Pack(RPCPacker, "rpc_msg",
       [xid |-> x, body |-> [mtype |-> REPLY, rbody |->
         [stat |-> MSG_ACCEPTED, areply |-> [verf |-> NoAuth, reply_data |-> data]]]]).val

DeniedReply(x, low, high) ==
  Pack(RPCPacker, "rpc_msg",
       [xid |-> x, body |-> [mtype |-> REPLY, rbody |->
         [stat |-> MSG_DENIED, rreply |->
           [stat |-> RPC_MISMATCH, mismatch_info |-> [low |-> low, high |-> high]]]]]).val

Success == [stat |-> SUCCESS, results |-> <<>>]

-----------------------------------------------------------------------------
(* The client's side of a call                                               *)

\* a packer that refuses raises before there is an xid; else the call is sent and listed
SendCall(c, p, args, data, prog, vers, num, cred) ==
  LET k == [class |-> c, proc |-> p, args |-> args, prog |-> prog, vers |-> vers, num |-> num,
            xid |-> xid + 1]
      m == [xid |-> xid + 1, buf |-> get_call_header(xid + 1, prog, vers, num, cred) \o data.val]
  IN  /\ call = None
      /\ call' = k
      /\ IF data.ok
         THEN /\ xid < MaxCalls /\ xid' = xid + 1
              /\ net' = [net EXCEPT !.server = Append(@, m)]
              /\ list' = list @@ (xid' :> [call |-> k, kept |-> None])
              /\ out' = None
         ELSE /\ out' = Lost(data.exc)
              /\ UNCHANGED <<xid, net, list>>
      /\ UNCHANGED <<server, job, given>>

\* a method of a client class: the packer refuses what the type does not allow
CallProcedure(c, p, args, cred) ==
  LET k    == Clients[c]
      pr   == k.procs[p]
      data == IF pr.args = "void" THEN Done(<<>>) ELSE Pack(packerOf(k), pr.args, args)
  IN  SendCall(c, p, args, data, k.prog, k.vers, pr.number, cred)

\* Client.call with a program, version and number of the caller's own
CallRaw(c, prog, vers, num, bytes) ==
  SendCall(c, "raw", bytes, Done(bytes), prog, vers, num, NoAuth)

\* check_reply and the unpacking of the result
Answer(body, rest) ==
  LET k   == Clients[call.class]
      res == IF call.proc = "raw" THEN "raw" ELSE k.procs[call.proc].res
  IN  CASE body.mtype # REPLY -> Lost("RPCError")
        [] body.rbody.stat = MSG_DENIED -> Lost("RPCDeniedError")
        [] body.rbody.areply.reply_data.stat # SUCCESS ->
             [ok |-> FALSE, exc |-> "RPCAcceptError", why |-> body.rbody.areply.reply_data]
        [] res = "raw"  -> Done(rest)
        [] res = "void" -> Done(<<>>)
        [] OTHER -> LET r == UnpackDone(unpackerOf(k), res, rest)
                    IN  IF r.ok THEN Done(r.val) ELSE r

\* an answer to another call is taken for the one awaited
BadListen(x) == x \in DOMAIN list
\* listen goes on until the answer is the one it wants
Wanted(x) == x = call.xid

\* listen: the answer to another call on the list is kept there
ClientReceives ==
  /\ Waiting
  /\ \E i \in Comes(net.client) :
       LET buf  == Arrived(net.client[i].buf)
           h    == Unpack(RPCUnpacker, "rpc_msg", buf, 0)
           rest == SubSeq(buf, h.pos + 1, Len(buf))
           x    == h.val.xid
       IN  /\ net' = [net EXCEPT !.client = RemoveAt(@, i)]
           /\ IF ~h.ok THEN out' = Lost(h.exc) /\ UNCHANGED list
              ELSE IF x \notin DOMAIN list THEN out' = Lost("RPCError") /\ UNCHANGED list
              ELSE IF Wanted(x)
                   THEN /\ list' = Restrict(list, DOMAIN list \ {call.xid})
                        /\ out' = Answer(h.val.body, rest)
                   ELSE list' = [list EXCEPT ![x].kept = <<h.val, rest>>] /\ UNCHANGED out
  /\ UNCHANGED <<server, xid, call, job, given>>

\* the stream's timeout, or the second that recv_record waits for a datagram: the call
\* stays on the list
ClientGivesUp ==
  /\ Waiting
  /\ call.proc \in Late \/ ~UnderWay(call.xid)
  /\ \E e \in (IF Here.transport = "UDP" THEN {"EOFError"} ELSE IF server.state # "dead" THEN {"timeout"} ELSE {})
              \cup (IF server.state = "dead" THEN {"socket.error"} ELSE {}) :
       out' = Lost(e)
  /\ UNCHANGED <<server, xid, list, call, net, job, given>>

\* the caller takes the result or the exception
CallerResumes ==
  /\ call # None /\ ~Waiting
  /\ call' = None /\ out' = None
  /\ given' = Restrict(given, DOMAIN given \cap DOMAIN list)
  /\ UNCHANGED <<server, xid, list, net, job>>

-----------------------------------------------------------------------------
(* The server                                                                *)

\* the version looked at first
BadAcceptance(c) ==
  CASE c.vers # Here.vers -> [stat |-> PROG_MISMATCH,
                              mismatch_info |-> [low |-> Here.vers, high |-> Here.vers]]
    [] c.prog # Here.prog -> [stat |-> PROG_UNAVAIL]
    [] c.proc \notin DOMAIN Here.procs -> [stat |-> PROC_UNAVAIL]
    [] OTHER -> Success
\* what compute_reply says of a call before it looks at its argument
Acceptance(c) ==
  CASE c.prog # Here.prog -> [stat |-> PROG_UNAVAIL]
    [] c.vers # Here.vers -> [stat |-> PROG_MISMATCH,
                              mismatch_info |-> [low |-> Here.vers, high |-> Here.vers]]
    [] c.proc \notin DOMAIN Here.procs -> [stat |-> PROC_UNAVAIL]
    [] OTHER -> Success

\* compute_reply up to the handler's method
ComputeReply(buf) ==
  LET h == Unpack(RPCUnpacker, "rpc_msg", buf, 0)
      c == h.val.body.cbody
      m == Here.procs[c.proc]
      a == UnpackDone(unpackerOf(Here), m.args, SubSeq(buf, h.pos + 1, Len(buf)))
      Reply(b) == [do |-> "reply", buf |-> b]
      Run(args) == [do |-> "run", job |-> [name |-> m.name, args |-> args, res |-> m.res, xid |-> h.val.xid]]
  IN  CASE ~h.ok -> [do |-> IF h.exc = "XDRError" THEN "ignore" ELSE "die"]
        [] h.val.body.mtype # CALL -> [do |-> "ignore"]
        [] c.rpcvers # RPCVERSION -> Reply(DeniedReply(h.val.xid, RPCVERSION, RPCVERSION))
        [] Acceptance(c) # Success -> Reply(AcceptedReply(h.val.xid, Acceptance(c)))
        [] m.args = "void" -> Run(<<>>)
        [] OTHER -> IF a.ok THEN Run(a.val) ELSE [do |-> "die"]

ServerReceives ==
  /\ job = None /\ server.state # "dead"
  /\ \E i \in Comes(net.server) :
       LET r == IF server.state = "off" THEN [do |-> "ignore"] ELSE ComputeReply(Arrived(net.server[i].buf))
           m == [xid |-> net.server[i].xid, buf |-> r.buf]
       IN  /\ net' = [server |-> RemoveAt(net.server, i),
                      client |-> IF r.do = "reply" THEN Append(net.client, m) ELSE net.client]
           /\ job' = IF r.do = "run" THEN r.job ELSE None
           /\ server' = IF r.do = "die" THEN [server EXCEPT !.state = "dead"] ELSE server
  /\ UNCHANGED <<xid, list, call, given, out>>

\* the method returns v; an exception of the packer leaves the loop of run
HandlerReturns(v) ==
  /\ job # None
  /\ LET r == IF job.res = "void" THEN Done(<<>>) ELSE Pack(packerOf(Here), job.res, v)
         m == [xid |-> job.xid, buf |-> AcceptedReply(job.xid, Success) \o r.val]
     IN  IF r.ok
         THEN /\ net' = [net EXCEPT !.client = Append(@, m)]
              /\ UNCHANGED server
         ELSE /\ server' = [server EXCEPT !.state = "dead"]
              /\ UNCHANGED net
  /\ job' = None
  /\ given' = given @@ (job.xid :> v)
  \* the argument has served
  /\ call' = IF call # None /\ call.xid = job.xid THEN [call EXCEPT !.args = <<>>] ELSE call
  /\ list' = [list EXCEPT ![job.xid].call.args = <<>>]
  /\ UNCHANGED <<xid, out>>

\* a record of four bytes is a command, not a call
Command(comm) ==
  /\ server.state # "dead" /\ call = None /\ job = None
  /\ server' = [server EXCEPT !.state = IF comm = 0 THEN "off" ELSE "on"]
  /\ UNCHANGED <<xid, list, call, net, job, given, out>>

\* a datagram on its way, or what a dead server leaves unread or unanswered
MessageLost ==
  /\ Here.transport = "UDP" \/ server.state = "dead"
  /\ \/ \E i \in DOMAIN net.server : net' = [net EXCEPT !.server = RemoveAt(@, i)]
     \/ \E i \in DOMAIN net.client : net' = [net EXCEPT !.client = RemoveAt(@, i)]
  /\ UNCHANGED <<server, xid, list, call, job, given, out>>
-----------------------------------------------------------------------------
(* What the two sides are given to say: an object of every shape, handles    *)
(* and paths of exactly the greatest length, and ones a byte longer.         *)

Content(n) == [i \in 1..n |-> i % 128]
Handle(n)  == [data |-> Content(n)]
Nothing    == [attributes_follow |-> FALSE]

TooLong(t) == CASE t = "GETATTR3args" -> {[object |-> Handle(NFS3_FHSIZE + 1)]}
                [] t = "dirpath3"     -> {Content(MNTPATHLEN3 + 1)}
                [] OTHER              -> {}
TooLongResult ==
  [status |-> NFS3_OK, resok |-> [object |-> Handle(NFS3_FHSIZE + 1),
                                  obj_attributes |-> Nothing, dir_attributes |-> Nothing]]

ArgObjects ==
  [Objects(1) EXCEPT
     !.GETATTR3args = @ \cup {[object |-> Handle(NFS3_FHSIZE)]} \cup TooLong("GETATTR3args"),
     !.dirpath3     = @ \cup {Content(MNTPATHLEN3)} \cup TooLong("dirpath3")]
ResObjects == [Objects(3) EXCEPT !.LOOKUP3res = @ \cup {TooLongResult}]

\* no identity, and AUTH_SYS ones, the longest that SecAuthSys accepts included
Creds == {NoAuth, SysAuth(1, Content(2), 2, 3, <<4, 5>>),
          SysAuth(6, Content(255), 7, 8, [i \in 1..16 |-> i])}
CredsFor(p) == IF p \in {"NULL", "GETATTR", "MNT"} THEN Creds
               ELSE {SysAuth(1, Content(2), 2, 3, <<4, 5>>)}

\* a server that will refuse the call or is not there needs one call to show it
ArgsFor(c, p) ==
  LET k == Clients[c]
      t == k.procs[p].args
  IN  CASE t = "void" -> {<<>>}
        [] k.prog = Here.prog /\ server.state = "on" -> ArgObjects[t]
        [] OTHER -> {}

Init ==
  /\ server \in [class : DOMAIN Servers, state : {"on"}]
  /\ xid = 0 /\ list = <<>> /\ call = None /\ net = [server |-> <<>>, client |-> <<>>]
  /\ job = None /\ given = <<>> /\ out = None

\* any call is the first; one of the late ones comes after a late one given up
FirstCall(c) ==
  \/ \E p \in DOMAIN Clients[c].procs :
       \E args \in ArgsFor(c, p), cred \in CredsFor(p) : CallProcedure(c, p, args, cred)
  \/ \E prog \in {Here.prog, Here.prog + 1}, vers \in {Here.vers, Here.vers + 1},
        num \in {0, 1, 77}, bytes \in {<<>>, Zeros(4)} : CallRaw(c, prog, vers, num, bytes)
NextCall(c) ==
  /\ Clients[c].prog = Here.prog /\ \E x \in DOMAIN list : list[x].call.proc \in Late
  /\ \E p \in DOMAIN Clients[c].procs \cap Late :
       \E args \in ArgsFor(c, p) : CallProcedure(c, p, args, NoAuth)

ClientCalls ==
  \E c \in DOMAIN Clients :
    /\ Clients[c].transport = Here.transport
    /\ IF xid = 0 THEN FirstCall(c) ELSE NextCall(c)

MethodReturns ==
  job # None /\ \E v \in (IF job.res = "void" THEN {<<>>} ELSE ResObjects[job.res]) : HandlerReturns(v)

Next ==
  \/ ClientCalls
  \/ ServerReceives
  \/ MethodReturns
  \/ ClientReceives
  \/ ClientGivesUp
  \/ CallerResumes
  \/ MessageLost
  \/ \E comm \in {0, 1} : Command(comm)

Spec == Init /\ [][Next]_vars

-----------------------------------------------------------------------------
(* The method that runs is the one the client named, of the same program,    *)
(* and its argument is the client's, field by field: a datagram that was cut *)
(* is never taken for a shorter argument.                                    *)
GotExactly ==
  job # None =>
    LET k == CallOf(job.xid)
    IN  k.proc # "raw" => /\ k.prog = Here.prog /\ k.vers = Here.vers
                          /\ job.name = k.proc
                          /\ job.args = k.args

(* A call that returns, returns what the method returned for it, to the      *)
(* field, and no late answer to an earlier call.                             *)
AnsweredExactly ==
  (out # None /\ call.proc # "raw" /\ out.ok) =>
    /\ call.xid \in DOMAIN given
    /\ Clients[call.class].procs[call.proc].res # "void" => out.val = given[call.xid]

(* What the header got wrong is what the client is told, the program before  *)
(* the version and the version before the procedure; nothing else is refused.*)
RefusedRightly ==
  (out # None /\ (out.ok \/ out.exc = "RPCAcceptError")) =>
    LET told == IF out.ok THEN Success ELSE out.why
    IN  /\ told.stat = CASE call.prog # Here.prog -> PROG_UNAVAIL
                         [] call.vers # Here.vers -> PROG_MISMATCH
                         [] call.num \notin DOMAIN Here.procs -> PROC_UNAVAIL
                         [] OTHER -> SUCCESS
        /\ told.stat = PROG_MISMATCH =>
             told.mismatch_info.low <= Here.vers /\ Here.vers <= told.mismatch_info.high

(* Over a stream, to a server that is on, a call with an argument that fits  *)
(* its type returns or is refused: no packer or unpacker raises anything, and*)
(* a call that timed out, or its answer, is still under way.                 *)
NoSpuriousFailure ==
  (out # None /\ ~out.ok /\ out.exc # "RPCAcceptError") =>
    \/ Here.transport = "UDP"
    \/ server.state # "on"
    \/ call.proc = "raw"
    \/ call.args \in TooLong(Clients[call.class].procs[call.proc].args)
    \/ out.exc = "timeout" /\ UnderWay(call.xid)

(* The server's loop ends only over a datagram that was cut, a call that was *)
(* not made through a client class, or a result that does not fit its type.  *)
DiesOnlyOf ==
  [][(server'.state = "dead" /\ server.state # "dead") =>
       \/ \E m \in Range(net.server) \ Range(net'.server) :
            \/ Here.transport = "UDP" /\ Len(m.buf) > UdpBuf
            \/ CallOf(m.xid).proc = "raw"
       \/ job # None /\ given'[job.xid] = TooLongResult]_vars

-----------------------------------------------------------------------------
(* nfs_trace.py reads the same messages from a capture of the server's port, *)
(* the headers with the unpacker of rfc1057.  It knows three procedures.     *)

\* a lookup read as if it were a getattr
BadTraced == [t \in {1, 3, 4} |-> CASE t = 1 -> [args |-> "GETATTR3args", res |-> "GETATTR3res"]
                                    [] t = 3 -> [args |-> "GETATTR3args", res |-> "LOOKUP3res"]
                                    [] t = 4 -> [args |-> "ACCESS3args",  res |-> "ACCESS3res"]]
Traced == [t \in {1, 3, 4} |-> CASE t = 1 -> [args |-> "GETATTR3args", res |-> "GETATTR3res"]
                                 [] t = 3 -> [args |-> "LOOKUP3args",  res |-> "LOOKUP3res"]
                                 [] t = 4 -> [args |-> "ACCESS3args",  res |-> "ACCESS3res"]]

TraceHeader(buf) == Unpack(protUnpacker_1057, "rpc_msg", buf, 0)

\* unpack_call: the procedure and the argument of a call
TraceCall(buf) ==
  LET h == TraceHeader(buf)
      n == h.val.body.cbody.proc
  IN  <<n, Unpack(protUnpacker, Traced[n].args, buf, h.pos).val>>

\* unpack_reply, of the procedure recorded with the call
TraceReply(n, buf) == Unpack(protUnpacker, Traced[n].res, buf, TraceHeader(buf).pos).val

(* The trace sees the call the client made and the answer the method gave,   *)
(* though it reads them with another unpacker than either end.               *)
TraceReadsTheSame ==
  Here.transport = "TCP" /\ Here.prog = NFS_PROGRAM =>
    LET Known(k) == k.proc # "raw" /\ k.prog = NFS_PROGRAM /\ k.num \in DOMAIN Traced
    IN  /\ \A m \in Range(net.server) :
             LET k == CallOf(m.xid) IN Known(k) => TraceCall(m.buf) = <<k.num, k.args>>
        /\ \A m \in Range(net.client) :
             LET k == CallOf(m.xid) IN Known(k) => TraceReply(k.num, m.buf) = given[m.xid]
=============================================================================
