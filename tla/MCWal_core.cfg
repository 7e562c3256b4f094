\* Two clients, no crash, no shutdown.
CONSTANTS
  a1 = a1
  a2 = a2
  c1 = c1
  c2 = c2
  Addr = {a1, a2}
  Client = {c1, c2}
  LOGSZ = 2
  U64 = 16
  WriteSets <- SmallWrites
  MaxAppends = 3
  MaxCrashes = 0
  MayShutdown = FALSE
SPECIFICATION Spec
SYMMETRY Clients
INVARIANTS CircularLogFits AddrPosExact LiveSlotsIntact ReadsCurrent ReadIsLinearizable InstalledInBounds NoLostWakeup SomebodyWorks
PROPERTIES SharedSlicesStable
