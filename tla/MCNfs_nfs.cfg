SPECIFICATION Spec
CONSTANTS
  UdpBuf <- MCUdpBuf
  Clients <- MCClients
  Servers <- MCServers
  Late <- MCLate
  MaxCalls = 2
INVARIANTS GotExactly AnsweredExactly RefusedRightly NoSpuriousFailure TraceReadsTheSame
PROPERTIES DiesOnlyOf
CHECK_DEADLOCK FALSE
