SPECIFICATION MCSpec
CONSTANTS
  Threads = {t1, t2, t3, t4}
  Caller = {"a", "b", "c"}
  Sizes = {1, 2}
  maximalSize = 2
  poolSize = 2
  Validator = {"v1", "v2", "v3", "v4"}
  Value = {1, 2}
  HighWorker = {"h"}
  LowWorker = {"l"}
  Task = {"j1", "j2", "j3", "j4"}
  Priority <- MCPriority
  Service = {"s"}
  Chore = {"once", "ever"}
  Period <- MCPeriod
  MaxTime = 3
  HttpWorker = {"x", "y"}
  Request = {"r1", "r2", "r3"}
  maxDepth = 2
INVARIANTS HolderIsCurrent NoLostWakeup  QueueOwned NotEarly
PROPERTIES WriterProgress  Stops
