\* Shutdown at any moment of a run with one client.
CONSTANTS
  a1 = a1
  a2 = a2
  c1 = c1
  c2 = c2
  Addr = {a1, a2}
  Client = {c1}
  LOGSZ = 2
  U64 = 16
  WriteSets <- SmallWrites
  MaxAppends = 3
  MaxCrashes = 0
  MayShutdown = TRUE
SPECIFICATION FairSpec
INVARIANT QuietAfterShutdown
PROPERTIES ShutdownReturnsUnlessFull
CHECK_DEADLOCK FALSE
