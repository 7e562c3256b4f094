\* Two clients, two transactions of at most two objects, one crash.
CONSTANTS
  c1 = c1
  c2 = c2
  Client = {c1, c2}
  Obj <- Objects
  BlockBits = 2
  LOGSZ = 1
  MaxTxns = 2
  MaxOps = 2
  MaxCrashes = 1
SPECIFICATION Spec
SYMMETRY Clients
INVARIANTS ReadsStable ObjectsExact PromisesKept
PROPERTY ImplementsTransactions
