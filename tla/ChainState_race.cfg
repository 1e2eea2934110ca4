SPECIFICATION Spec
CONSTANTS
  g = g
  a1 = a1
  a2 = a2
  b1 = b1
  b2 = b2
  c1 = c1
  t1 = t1
  t2 = t2
  t3 = t3
  Block <- ForkBlocks
  Genesis = g
  Parent <- Fork
  Chain <- ForkChain
  Height <- ForkHeight
  Work <- ForkWork
  Thread = {t1, t2}
  Bad = {}
  Unfit = {}
  Commands = {"invalidateblock"}
  MaxCommands = 1
  MaxSoft = 0
  MaxCancel = 0
  NoBlock = NoBlock
  NoThread = NoThread
  MaxParallelBlocks = 2
INVARIANT ActiveValid
CHECK_DEADLOCK FALSE
