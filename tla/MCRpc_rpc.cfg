SPECIFICATION Spec
CONSTANTS
  main = main
  other = other
  Threads <- MCThreads
  Creator = main
  XidMod = 2
  RecvMax = 4
  Sizes <- MCSizes
  MaxConns = 2
  Budget = 4
INVARIANTS AnswersMatch NoStrayReply RunAsSent Conserved RepliesWhole
PROPERTIES ServerDiesOnlyOf
CHECK_DEADLOCK FALSE
