SPECIFICATION Spec
CONSTANTS
  main = main
  other = other
  Threads <- MCThreads
  Creator = main
  XidMod = 2
  RecvMax = 4
  Sizes <- MCSizes
  MaxConns = 2
  Budget = 4
INVARIANT NoRecordLeftBehind
CHECK_DEADLOCK FALSE
