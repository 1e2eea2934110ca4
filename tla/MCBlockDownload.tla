---------------------------- MODULE MCBlockDownload ----------------------------
(* A peer that answers, p1, with the chain g-a1-a2, and one that may do anything, p2,  *)
(* with a branch b2 of more work whose block turns out to be invalid when connected.   *)
EXTENDS BlockDownload

MCBlock == {"g", "a1", "a2", "b2"}
MCParent == [a1 |-> "g", a2 |-> "a1", b2 |-> "a1"]
MCChain == [g |-> {"g"}, a1 |-> {"g", "a1"}, a2 |-> {"g", "a1", "a2"}, b2 |-> {"g", "a1", "b2"}]
MCHeight == [g |-> 0, a1 |-> 1, a2 |-> 2, b2 |-> 2]
MCWork == [g |-> 1, a1 |-> 2, a2 |-> 3, b2 |-> 4]
MCTip == [p1 |-> "a2", p2 |-> "b2"]
MCFault == [g |-> "none", a1 |-> "none", a2 |-> "none", b2 |-> "connect"]
CompactFromSecond == [p1 |-> {}, p2 |-> {"b2"}]
CompactFromFirst == [p1 |-> {"a2"}, p2 |-> {}]
Nothing == [p1 |-> {}, p2 |-> {}]
===============================================================================
