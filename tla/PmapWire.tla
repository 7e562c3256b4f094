------------------------------ MODULE PmapWire ------------------------------
(* The port mapper's types and a second reading of the messages of RPC      *)
(* (rfc1057/pack.py and rfc1057/const.py): the enumerations are the older   *)
(* ones, the layout must be the same.                                       *)
EXTENDS RpcWire

AUTH_UNIX == 1
AUTH_DES == 3
auth_flavor_1057 == {AUTH_NONE, AUTH_UNIX, AUTH_SHORT, AUTH_DES}
msg_type_1057 == {CALL, REPLY}
reply_stat_1057 == {MSG_ACCEPTED, MSG_DENIED}
accept_stat_1057 == {SUCCESS, PROG_UNAVAIL, PROG_MISMATCH, PROC_UNAVAIL, GARBAGE_ARGS}
reject_stat_1057 == {RPC_MISMATCH, AUTH_ERROR}
auth_stat_1057 == {AUTH_BADCRED, AUTH_REJECTEDCRED, AUTH_BADVERF, AUTH_REJECTEDVERF, AUTH_TOOWEAK}
IPPROTO_TCP == 6
IPPROTO_UDP == 17
PMAP_PROG == 100000
PMAP_VERS == 2

pack_1057_scalars ==
  [short |-> Alias("int"), string |-> String(Unlimited), ulong |-> Alias("uint"),
   opaque |-> Opaque(Unlimited), int |-> Word, ushort |-> Alias("uint"),
   unsigned |-> Alias("uint"), long |-> Alias("int"), uhyper |-> Hyper, char |-> Alias("int"),
   uchar |-> Alias("uint"), hyper |-> Hyper, uint |-> Word, bool |-> Bool]

pack_1057_enums ==
  [auth_flavor      |-> Enum(auth_flavor_1057),
   opaque_auth      |-> Struct(<< <<"flavor", "auth_flavor">>, <<"body", "opaque_auth_body">> >>),
   opaque_auth_body |-> Opaque(400),
   msg_type         |-> Enum(msg_type_1057),
   reply_stat       |-> Enum(reply_stat_1057),
   accept_stat      |-> Enum(accept_stat_1057),
   reject_stat      |-> Enum(reject_stat_1057),
   auth_stat        |-> Enum(auth_stat_1057)
  ]

pack_1057_call ==
  [rpc_msg      |-> Struct(<< <<"xid", "uint">>, <<"body", "rpc_msg_body">> >>),
   rpc_msg_body |-> Union("mtype", "msg_type", (CALL :> <<"cbody", "call_body">>)
                            @@ (REPLY :> <<"rbody", "reply_body">>), BadSwitch),
   call_body    |-> Struct(<< <<"rpcvers", "uint">>, <<"prog", "uint">>, <<"vers", "uint">>,
                            <<"proc", "uint">>, <<"cred", "opaque_auth">>,
                            <<"verf", "opaque_auth">> >>)
  ]

pack_1057_reply ==
  [reply_body     |-> Union("stat", "reply_stat", (MSG_ACCEPTED :> <<"areply", "accepted_reply">>)
                           @@ (MSG_DENIED :> <<"rreply", "rejected_reply">>), BadSwitch),
   accepted_reply |-> Struct(<< <<"verf", "opaque_auth">>, <<"reply_data", "reply_data">> >>),
   reply_data     |-> Union("stat", "accept_stat", (SUCCESS :> <<"results", "results">>)
                              @@ (PROG_MISMATCH :> <<"mismatch_info", "mismatch_info">>), Void),
   results        |-> Fopaque(0),
   mismatch_info  |-> Struct(<< <<"low", "uint">>, <<"high", "uint">> >>),
   rejected_reply |-> Union("stat", "reject_stat", (RPC_MISMATCH :> <<"mismatch_info", "mismatch_info">>)
                              @@ (AUTH_ERROR :> <<"astat", "auth_stat">>), BadSwitch)
  ]

pack_1057_pmap ==
  [auth_unix             |-> Struct(<< <<"stamp", "uint">>,
                                  <<"machinename", "auth_unix_machinename">>, <<"uid", "uint">>,
                                  <<"gid", "uint">>, <<"gids", "auth_unix_gids">> >>),
   auth_unix_machinename |-> String(255),
   auth_unix_gids        |-> Array(16, "uint"),
   mapping               |-> Struct(<< <<"prog", "uint">>, <<"vers", "uint">>, <<"prot", "uint">>,
                                     <<"port", "uint">> >>),
   pmaplist              |-> Array(1, "pmaplistelem"),
   pmaplistelem          |-> Struct(<< <<"map", "mapping">>, <<"next", "pmaplist">> >>),
   call_args             |-> Struct(<< <<"prog", "uint">>, <<"vers", "uint">>, <<"proc", "uint">>,
                                     <<"args", "call_args_args">> >>),
   call_args_args        |-> Opaque(Unlimited),
   call_result           |-> Struct(<< <<"port", "uint">>, <<"res", "call_result_res">> >>),
   call_result_res       |-> Opaque(Unlimited),
   uint32                |-> Alias("uint"),
   xbool                 |-> Alias("bool")
  ]

protPacker_1057 ==
  pack_1057_scalars @@ pack_1057_enums @@ pack_1057_call @@ pack_1057_reply @@ pack_1057_pmap

unpack_1057_scalars ==
  [short |-> Alias("int"), string |-> String(Unlimited), ulong |-> Alias("uint"),
   opaque |-> Opaque(Unlimited), int |-> Word, ushort |-> Alias("uint"),
   unsigned |-> Alias("uint"), long |-> Alias("int"), uhyper |-> Hyper, char |-> Alias("int"),
   uchar |-> Alias("uint"), hyper |-> Hyper, uint |-> Word, bool |-> Bool]

unpack_1057_enums ==
  [auth_flavor      |-> Enum(auth_flavor_1057),
   opaque_auth      |-> Struct(<< <<"flavor", "auth_flavor">>, <<"body", "opaque_auth_body">> >>),
   opaque_auth_body |-> Opaque(400),
   msg_type         |-> Enum(msg_type_1057),
   reply_stat       |-> Enum(reply_stat_1057),
   accept_stat      |-> Enum(accept_stat_1057),
   reject_stat      |-> Enum(reject_stat_1057),
   auth_stat        |-> Enum(auth_stat_1057)
  ]

unpack_1057_call ==
  [rpc_msg      |-> Struct(<< <<"xid", "uint">>, <<"body", "rpc_msg_body">> >>),
   rpc_msg_body |-> Union("mtype", "msg_type", (CALL :> <<"cbody", "call_body">>)
                            @@ (REPLY :> <<"rbody", "reply_body">>), BadSwitch),
   call_body    |-> Struct(<< <<"rpcvers", "uint">>, <<"prog", "uint">>, <<"vers", "uint">>,
                            <<"proc", "uint">>, <<"cred", "opaque_auth">>,
                            <<"verf", "opaque_auth">> >>)
  ]

unpack_1057_reply ==
  [reply_body     |-> Union("stat", "reply_stat", (MSG_ACCEPTED :> <<"areply", "accepted_reply">>)
                           @@ (MSG_DENIED :> <<"rreply", "rejected_reply">>), BadSwitch),
   accepted_reply |-> Struct(<< <<"verf", "opaque_auth">>, <<"reply_data", "reply_data">> >>),
   reply_data     |-> Union("stat", "accept_stat", (SUCCESS :> <<"results", "results">>)
                              @@ (PROG_MISMATCH :> <<"mismatch_info", "mismatch_info">>), Void),
   results        |-> Fopaque(0),
   mismatch_info  |-> Struct(<< <<"low", "uint">>, <<"high", "uint">> >>),
   rejected_reply |-> Union("stat", "reject_stat", (RPC_MISMATCH :> <<"mismatch_info", "mismatch_info">>)
                              @@ (AUTH_ERROR :> <<"astat", "auth_stat">>), BadSwitch)
  ]

unpack_1057_pmap ==
  [auth_unix             |-> Struct(<< <<"stamp", "uint">>,
                                  <<"machinename", "auth_unix_machinename">>, <<"uid", "uint">>,
                                  <<"gid", "uint">>, <<"gids", "auth_unix_gids">> >>),
   auth_unix_machinename |-> String(255),
   auth_unix_gids        |-> Array(16, "uint"),
   mapping               |-> Struct(<< <<"prog", "uint">>, <<"vers", "uint">>, <<"prot", "uint">>,
                                     <<"port", "uint">> >>),
   pmaplist              |-> Array(1, "pmaplistelem"),
   pmaplistelem          |-> Struct(<< <<"map", "mapping">>, <<"next", "pmaplist">> >>),
   call_args             |-> Struct(<< <<"prog", "uint">>, <<"vers", "uint">>, <<"proc", "uint">>,
                                     <<"args", "call_args_args">> >>),
   call_args_args        |-> Opaque(Unlimited),
   call_result           |-> Struct(<< <<"port", "uint">>, <<"res", "call_result_res">> >>),
   call_result_res       |-> Opaque(Unlimited),
   uint32                |-> Alias("uint"),
   xbool                 |-> Alias("bool")
  ]

protUnpacker_1057 ==
  unpack_1057_scalars @@ unpack_1057_enums @@ unpack_1057_call @@ unpack_1057_reply @@
  unpack_1057_pmap
=============================================================================
