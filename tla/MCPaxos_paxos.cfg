SPECIFICATION Spec
CONSTANTS
  s1 = s1
  s2 = s2
  s3 = s3
  a = a
  b = b
  Server <- MCServer
  Op <- MCOp
  MaxEpoch = 2
  MaxIndex = 1
  MaxTries = 1
  MaxCrashes = 1
SYMMETRY Symmetry
INVARIANTS OneLeaderPerEpoch SameIndexSameState LeaderHasAcked
PROPERTIES ImplementsOneLog
CHECK_DEADLOCK FALSE
