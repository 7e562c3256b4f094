-------------------------------- MODULE MCRpc -------------------------------
(* Two threads whose connections fail.                                       *)
EXTENDS Rpc

CONSTANTS main, other
MCThreads == {main, other}
MCSizes   == << <<1, 2>>, <<2, 1>>, <<1, 1>> >>
=============================================================================
