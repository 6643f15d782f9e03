SPECIFICATION Spec
CONSTANTS
  Item = {a, b, c}
  Worker = {w1, w2}
  BaseLength = 2
  BatchLength = 2
  WorkerLimit = 2
  MaxFailures = 2
  MaxFlush = 1
SYMMETRY Symmetric
INVARIANTS
  TypeOK
  NothingVanishes
  OnePlace
  PoolAccounting
  BlockedSendHasWorker
  ShutdownLeavesNothing
PROPERTIES
  FlushDrains
  LossNeedsOverload
  ImplementsWorkQueue
