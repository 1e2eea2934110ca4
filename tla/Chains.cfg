SPECIFICATION MCSpec
CONSTANTS
  g = g
  a1 = a1
  a2 = a2
  b1 = b1
  b2 = b2
  c1 = c1
  d1 = d1
  d2 = d2
  t1 = t1
  t2 = t2
  t3 = t3
  Block <- TreeBlocks
  Genesis = g
  Parent <- Tree
  Chain <- TreeChain
  Height <- TreeHeight
  Work <- TreeWork
  Thread = {t1, t2, t3}
  Bad = {a1, d2}
  Unfit = {}
  Commands = {"invalidateblock", "reconsiderblock", "softrejectblock", "acceptblock", "preciousblock"}
  MaxCommands = 2
  MaxSoft = 1
  MaxCancel = 1
  NoBlock = NoBlock
  NoThread = NoThread
  MaxParallelBlocks = 2
SYMMETRY ThreadSym
INVARIANTS NoDoubleValidation ChoiceKept BestActive ActiveValid SoftTipLeft UnlinkedExact TrackerConsistent
CHECK_DEADLOCK FALSE
