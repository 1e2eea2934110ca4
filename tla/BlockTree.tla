----------------------------- MODULE BlockTree -----------------------------
(***************************************************************************)
(* The blocks that can ever exist, as a tree rooted at the genesis block.  *)
(* A CBlockIndex never changes its parent, height or chain work once it is *)
(* built, so these are constants: Chain[b] is the set of ancestors of b, b *)
(* included (GetAncestor), Height and Work are nHeight and nChainWork.     *)
(***************************************************************************)
EXTENDS Integers

CONSTANTS Block, Genesis, Parent, Chain, Height, Work

ASSUME TreeAssumption ==
    /\ Genesis \in Block
    /\ Parent \in [Block \ {Genesis} -> Block]
    /\ Chain \in [Block -> SUBSET Block]
    /\ Height \in [Block -> Nat]
    /\ Work \in [Block -> Nat]
    /\ Chain[Genesis] = {Genesis}
    /\ Height[Genesis] = 0
    /\ \A b \in Block \ {Genesis} :
          /\ Chain[b] = {b} \cup Chain[Parent[b]]
          /\ Height[b] = Height[Parent[b]] + 1
          /\ Work[b] > Work[Parent[b]]
    /\ \A b \in Block : \A a \in Chain[b] :
          /\ Chain[a] \subseteq Chain[b]
          /\ Genesis \in Chain[b]
          /\ a # b => Height[a] < Height[b] /\ Work[a] < Work[b]

\* GetAncestor(height): the block of b's chain at that height
AncestorAt(b, h) == CHOOSE a \in Chain[b] : Height[a] = h

\* chainActive.FindFork and the like: the highest block of a set of ancestors
Highest(S) == CHOOSE a \in S : \A d \in S : Height[d] <= Height[a]
=============================================================================
