SPECIFICATION Spec
CONSTANTS
  tp = tp tc = tc td = td tn = tn tu = tu tf = tf ta = ta tb = tb tk = tk tr = tr ts = ts
  tw = tw
  Txn <- MCTxn
  Coins <- MCCoins
  Spends <- MCSpends
  Makes <- MCMakes
  Lock <- MCLock
  Seq_ <- MCSeq
  SequenceFinal = 2
  Bad = {}
  Peer <- MCPeer
  Scenarios = {{ta, tb, tk}}
  SyncTxn = {}
  QueueCap = 2 Batch = 2 OrphanCap = 1 OrphanBatch = 1 LockedCap = 1
  MaxArrivals = 1 MaxClock = 1 MaxFaults = 1
INVARIANTS QueuedOnce
