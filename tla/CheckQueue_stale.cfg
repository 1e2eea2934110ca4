SPECIFICATION Spec
CONSTANTS
  Worker = {w1, w2}
  Master = m
  nBatchSize = 2
  MaxSession = 2
  MaxCheck = 2
  TxInputs = {0, 1, 2}
  Interrupts = {}
CHECK_DEADLOCK FALSE
INVARIANT ReportedOwn
