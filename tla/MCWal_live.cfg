\* Two clients fill a log of one slot, under fairness.
CONSTANTS
  a1 = a1
  a2 = a2
  c1 = c1
  c2 = c2
  Addr = {a1}
  Client = {c1, c2}
  LOGSZ = 1
  U64 = 4
  WriteSets <- OneWrite
  MaxAppends = 2
  MaxCrashes = 0
  MayShutdown = FALSE
SPECIFICATION FairSpec
PROPERTIES MemAppendReturns FlushReturns LogDrains
