SPECIFICATION LiveSpec
CONSTANTS
  Item = {a, b}
  Worker = {w1, w2}
  BaseLength = 1
  BatchLength = 2
  WorkerLimit = 2
  MaxFailures = 1
  MaxFlush = 1
PROPERTIES
  EventuallyFinished
  FlushAnswered
  ShutdownReturns
  PoolShrinks
  FlushDrains
  LossNeedsOverload
  ImplementsWorkQueue
INVARIANTS
  PoolAccounting
  BlockedSendHasWorker
  ShutdownLeavesNothing
