\* Two clients, two crashes at any step, and positions that run out.
CONSTANTS
  a1 = a1
  a2 = a2
  c1 = c1
  c2 = c2
  Addr = {a1, a2}
  Client = {c1, c2}
  LOGSZ = 2
  U64 = 4
  WriteSets <- SmallWrites
  MaxAppends = 2
  MaxCrashes = 2
  MayShutdown = FALSE
SPECIFICATION Spec
SYMMETRY Clients
INVARIANTS CrashSafe IInv
PROPERTIES RefinesLogState
