SPECIFICATION LiveSpec
CONSTANTS
  g = g
  a1 = a1
  a2 = a2
  b1 = b1
  b2 = b2
  c1 = c1
  t1 = t1
  t2 = t2
  t3 = t3
  Block <- TwoChainsBlocks
  Genesis = g
  Parent <- TwoChains
  Chain <- TwoChainsChain
  Height <- TwoChainsHeight
  Work <- TwoChainsWork
  Thread = {t1}
  Bad = {}
  Unfit = {}
  Commands = {"softrejectblock"}
  MaxCommands = 1
  MaxSoft = 0
  MaxCancel = 0
  NoBlock = NoBlock
  NoThread = NoThread
  MaxParallelBlocks = 2
PROPERTY SoftTipGone
CHECK_DEADLOCK FALSE
