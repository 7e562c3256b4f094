------------------------------- MODULE RpcWire ------------------------------
(* The messages of ONC RPC itself, as the library's own packer and unpacker *)
(* (rpc/rpc_pack.py) write and read them, with the constants of             *)
(* rpc/rpc_const.py.                                                        *)
EXTENDS Xdr

AUTH_NONE == 0
AUTH_SYS == 1
AUTH_SHORT == 2
AUTH_DH == 3
RPCSEC_GSS == 6
auth_flavor == {AUTH_NONE, AUTH_SYS, AUTH_SHORT, AUTH_DH, RPCSEC_GSS}
CALL == 0
REPLY == 1
msg_type == {CALL, REPLY}
MSG_ACCEPTED == 0
MSG_DENIED == 1
reply_stat == {MSG_ACCEPTED, MSG_DENIED}
SUCCESS == 0
PROG_UNAVAIL == 1
PROG_MISMATCH == 2
PROC_UNAVAIL == 3
GARBAGE_ARGS == 4
SYSTEM_ERR == 5
accept_stat == {SUCCESS, PROG_UNAVAIL, PROG_MISMATCH, PROC_UNAVAIL, GARBAGE_ARGS, SYSTEM_ERR}
RPC_MISMATCH == 0
AUTH_ERROR == 1
reject_stat == {RPC_MISMATCH, AUTH_ERROR}
AUTH_OK == 0
AUTH_BADCRED == 1
AUTH_REJECTEDCRED == 2
AUTH_BADVERF == 3
AUTH_REJECTEDVERF == 4
AUTH_TOOWEAK == 5
AUTH_INVALIDRESP == 6
AUTH_FAILED == 7
AUTH_KERB_GENERIC == 8
AUTH_TIMEEXPIRE == 9
AUTH_TKT_FILE == 10
AUTH_DECODE == 11
AUTH_NET_ADDR == 12
RPCSEC_GSS_CREDPROBLEM == 13
RPCSEC_GSS_CTXPROBLEM == 14
auth_stat ==
    {AUTH_OK, AUTH_BADCRED, AUTH_REJECTEDCRED, AUTH_BADVERF, AUTH_REJECTEDVERF, AUTH_TOOWEAK,
     AUTH_INVALIDRESP, AUTH_FAILED, AUTH_KERB_GENERIC, AUTH_TIMEEXPIRE, AUTH_TKT_FILE,
     AUTH_DECODE, AUTH_NET_ADDR, RPCSEC_GSS_CREDPROBLEM, RPCSEC_GSS_CTXPROBLEM}

pack_rpc_scalars ==
  [hyper |-> Hyper, string |-> String(Unlimited), opaque |-> Opaque(Unlimited), int |-> Word,
   unsigned |-> Alias("uint"), uhyper |-> Hyper, uint |-> Word, bool |-> Bool]

pack_rpc_enums ==
  [auth_flavor      |-> Enum(auth_flavor),
   opaque_auth      |-> Struct(<< <<"flavor", "auth_flavor">>, <<"body", "opaque_auth_body">> >>),
   opaque_auth_body |-> Opaque(400),
   msg_type         |-> Enum(msg_type),
   reply_stat       |-> Enum(reply_stat),
   accept_stat      |-> Enum(accept_stat),
   reject_stat      |-> Enum(reject_stat),
   auth_stat        |-> Enum(auth_stat)
  ]

pack_rpc_call ==
  [rpc_msg      |-> Struct(<< <<"xid", "uint">>, <<"body", "rpc_msg_body">> >>),
   rpc_msg_body |-> Union("mtype", "msg_type", (CALL :> <<"cbody", "call_body">>)
                            @@ (REPLY :> <<"rbody", "reply_body">>), BadSwitch),
   call_body    |-> Struct(<< <<"rpcvers", "uint">>, <<"prog", "uint">>, <<"vers", "uint">>,
                            <<"proc", "uint">>, <<"cred", "opaque_auth">>,
                            <<"verf", "opaque_auth">> >>)
  ]

pack_rpc_reply ==
  [reply_body     |-> Union("stat", "reply_stat", (MSG_ACCEPTED :> <<"areply", "accepted_reply">>)
                           @@ (MSG_DENIED :> <<"rreply", "rejected_reply">>), BadSwitch),
   accepted_reply |-> Struct(<< <<"verf", "opaque_auth">>, <<"reply_data", "reply_data">> >>),
   reply_data     |-> Union("stat", "accept_stat", (SUCCESS :> <<"results", "results">>)
                              @@ (PROG_MISMATCH :> <<"mismatch_info", "mismatch_info">>), Void),
   results        |-> Fopaque(0),
   mismatch_info  |-> Struct(<< <<"low", "uint">>, <<"high", "uint">> >>),
   rejected_reply |-> Union("stat", "reject_stat", (RPC_MISMATCH :> <<"mismatch_info", "mismatch_info">>)
                              @@ (AUTH_ERROR :> <<"astat", "auth_stat">>), BadSwitch)
  ]

RPCPacker ==
  pack_rpc_scalars @@ pack_rpc_enums @@ pack_rpc_call @@ pack_rpc_reply

unpack_rpc_scalars ==
  [hyper |-> Hyper, string |-> String(Unlimited), opaque |-> Opaque(Unlimited), int |-> Word,
   unsigned |-> Alias("uint"), uhyper |-> Hyper, uint |-> Word, bool |-> Bool]

unpack_rpc_enums ==
  [auth_flavor      |-> Enum(auth_flavor),
   opaque_auth      |-> Struct(<< <<"flavor", "auth_flavor">>, <<"body", "opaque_auth_body">> >>),
   opaque_auth_body |-> Opaque(400),
   msg_type         |-> Enum(msg_type),
   reply_stat       |-> Enum(reply_stat),
   accept_stat      |-> Enum(accept_stat),
   reject_stat      |-> Enum(reject_stat),
   auth_stat        |-> Enum(auth_stat)
  ]

unpack_rpc_call ==
  [rpc_msg      |-> Struct(<< <<"xid", "uint">>, <<"body", "rpc_msg_body">> >>),
   rpc_msg_body |-> Union("mtype", "msg_type", (CALL :> <<"cbody", "call_body">>)
                            @@ (REPLY :> <<"rbody", "reply_body">>), BadSwitch),
   call_body    |-> Struct(<< <<"rpcvers", "uint">>, <<"prog", "uint">>, <<"vers", "uint">>,
                            <<"proc", "uint">>, <<"cred", "opaque_auth">>,
                            <<"verf", "opaque_auth">> >>)
  ]

unpack_rpc_reply ==
  [reply_body     |-> Union("stat", "reply_stat", (MSG_ACCEPTED :> <<"areply", "accepted_reply">>)
                           @@ (MSG_DENIED :> <<"rreply", "rejected_reply">>), BadSwitch),
   accepted_reply |-> Struct(<< <<"verf", "opaque_auth">>, <<"reply_data", "reply_data">> >>),
   reply_data     |-> Union("stat", "accept_stat", (SUCCESS :> <<"results", "results">>)
                              @@ (PROG_MISMATCH :> <<"mismatch_info", "mismatch_info">>), Void),
   results        |-> Fopaque(0),
   mismatch_info  |-> Struct(<< <<"low", "uint">>, <<"high", "uint">> >>),
   rejected_reply |-> Union("stat", "reject_stat", (RPC_MISMATCH :> <<"mismatch_info", "mismatch_info">>)
                              @@ (AUTH_ERROR :> <<"astat", "auth_stat">>), BadSwitch)
  ]

RPCUnpacker ==
  unpack_rpc_scalars @@ unpack_rpc_enums @@ unpack_rpc_call @@ unpack_rpc_reply
=============================================================================
