------------------------------- MODULE MCNfs -------------------------------
(* Every generated class against every server of its transport.             *)
EXTENDS NfsCall

\* cuts the longer half of the messages
MCUdpBuf == 160

\* one procedure of each program
MCLate == {"GETATTR", "EXPORT", "GETPORT"}

MCClients ==
  [RawTCPNFS |-> client_RawTCPNFS_V3, TCPNFS |-> client_TCPNFS_V3,
   RawUDPNFS |-> client_RawUDPNFS_V3, UDPNFS |-> client_UDPNFS_V3,
   RawTCPMOUNT |-> client_RawTCPMOUNT_V3, TCPMOUNT |-> client_TCPMOUNT_V3,
   RawUDPMOUNT |-> client_RawUDPMOUNT_V3, UDPMOUNT |-> client_UDPMOUNT_V3,
   RawTCPPMAP |-> client_RawTCPPMAP_VERS, TCPPMAP |-> client_TCPPMAP_VERS,
   RawUDPPMAP |-> client_RawUDPPMAP_VERS, UDPPMAP |-> client_UDPPMAP_VERS]

MCServers ==
  [TCPNFS |-> server_TCPNFS_V3, UDPNFS |-> server_UDPNFS_V3,
   TCPMOUNT |-> server_TCPMOUNT_V3, UDPMOUNT |-> server_UDPMOUNT_V3,
   TCPPMAP |-> server_TCPPMAP_VERS, UDPPMAP |-> server_UDPPMAP_VERS]
=============================================================================
