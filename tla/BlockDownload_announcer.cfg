SPECIFICATION Spec
CONSTANTS
  Block <- MCBlock
  Genesis = "g"
  Parent <- MCParent
  Chain <- MCChain
  Height <- MCHeight
  Work <- MCWork
  Peer = {"p1", "p2"}
  NoPeer = "none"
  NoBlock = "none"
  PeerTip <- MCTip
  Good = {"p1"}
  Preferred = {"p1", "p2"}
  Whitelisted = {}
  Announces = {"p1"}
  Unasked <- Nothing
  Compact <- CompactFromFirst
  Fault <- MCFault
  Recent = {"a1", "a2", "b2"}
  Window = 1
  MaxInTransit = 2
  MaxParallelFetch = 2
  MaxAnnouncers = 1
  CompactAhead = 0
  MaxSent = 1
PROPERTY AnnouncerChosen
