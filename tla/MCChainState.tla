---------------------------- MODULE MCChainState ----------------------------
EXTENDS ChainState, TLC

CONSTANTS g, a1, a2, b1, b2, c1, t1, t2, t3

ThreadSym == Permutations(Thread)

TwoChains == (a1 :> g) @@ (a2 :> a1) @@ (b1 :> g) @@ (b2 :> b1)
Fan  == (a1 :> g) @@ (b1 :> g) @@ (c1 :> g) @@ (a2 :> a1)
Fork == (a1 :> g) @@ (a2 :> a1) @@ (b2 :> a1) @@ (b1 :> g)

BlockOf(parent) == {g} \cup DOMAIN parent
ChainOf(parent) ==
    LET ch[b \in BlockOf(parent)] == IF b = g THEN {g} ELSE {b} \cup ch[parent[b]]
    IN  ch
HeightOf(parent) == [b \in BlockOf(parent) |-> Cardinality(ChainOf(parent)[b]) - 1]
WorkOf(parent) == [b \in BlockOf(parent) |-> Cardinality(ChainOf(parent)[b])]

TwoChainsBlocks == BlockOf(TwoChains)
TwoChainsChain == ChainOf(TwoChains)
TwoChainsHeight == HeightOf(TwoChains)
TwoChainsWork == WorkOf(TwoChains)

FanBlocks == BlockOf(Fan)
FanChain == ChainOf(Fan)
FanHeight == HeightOf(Fan)
FanWork == WorkOf(Fan)

ForkBlocks == BlockOf(Fork)
ForkChain == ChainOf(Fork)
ForkHeight == HeightOf(Fork)
ForkWork == WorkOf(Fork)
=============================================================================
