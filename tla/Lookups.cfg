CONSTANTS
  g = g
  a1 = a1
  a2 = a2
  b1 = b1
  b2 = b2
  o1 = o1
  o2 = o2
  o3 = o3
  o4 = o4
  Outpoint = {o1, o2, o3, o4}
  Block = {g, a1, a2, b1, b2}
  Genesis = g
  Null = Null
  Parent <- MCParent
  Ancestors <- MCAncestors
  Created <- MCCreated
  Used <- MCUsed
  Passing <- MCPassing
  UtxoOf <- MCUtxoOf
  Reader = {"t1", "t2", "t3"}
  Coin = {"o1", "o2"}
  ScriptSize <- MCSizes
  Heap <- MCSizes
  Special = {"o1"}
  Node = 1
  Threshold = 3
  AnySize = 9
SPECIFICATION MCSpec
INVARIANTS DiskConsistent ViewIsTip  OneFetcher Answered  IdleBetweenSessions
PROPERTIES ImplementsSession 
