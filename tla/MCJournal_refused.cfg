\* One client: a commit that is refused, then a Flush, then a crash.
CONSTANTS
  c1 = c1
  c2 = c2
  Client = {c1}
  Obj <- Objects
  BlockBits = 2
  LOGSZ = 1
  MaxTxns = 2
  MaxOps = 2
  MaxCrashes = 1
SPECIFICATION Spec
INVARIANT FlushCoversAll
