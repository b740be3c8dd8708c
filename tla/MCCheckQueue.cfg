SPECIFICATION Spec
CONSTANTS
  Workers = {w1, w2}
  Master = m
  nBatchSize = 2
  MaxChecks = 4
  MaxInterrupts = 1
INVARIANTS TypeOK TodoExact ActiveCounted IdleBetweenBlocks ResultRight
           SleepingMasterAwaited
PROPERTY WaitReturns
