-------------------------------- MODULE MCChains --------------------------------
(* The safety of the way into the chain, for TLC.  `part' says which of three worlds a  *)
(* behaviour is about: three threads that activate siblings in parallel, threads that   *)
(* the operator gives commands to one after the other, on two chains of equal work      *)
(* (both ChainState), or blocks of one chain from two peers (BlockDownload).            *)
EXTENDS MCChainState

CONSTANTS d1, d2

VARIABLES part, node, conn, peer, track, asked, received, reported

(* The blocks of both worlds of ChainState.                                             *)
Tree == (a1 :> g) @@ (a2 :> a1) @@ (b1 :> g) @@ (b2 :> b1) @@ (c1 :> g) @@ (d1 :> g) @@ (d2 :> d1)
TreeBlocks == BlockOf(Tree)
TreeChain == ChainOf(Tree)
TreeHeight == HeightOf(Tree)
TreeWork == WorkOf(Tree)

(* Both peers have a1 and a2; p2 adds an invalid b3 and sends compact blocks.           *)
D == INSTANCE BlockDownload WITH
       Block <- {"g", "a1", "a2", "b3"}, Genesis <- "g",
       Parent <- [a1 |-> "g", a2 |-> "a1", b3 |-> "a2"],
       Chain <- [g |-> {"g"}, a1 |-> {"g", "a1"}, a2 |-> {"g", "a1", "a2"},
                 b3 |-> {"g", "a1", "a2", "b3"}],
       Height <- [g |-> 0, a1 |-> 1, a2 |-> 2, b3 |-> 3],
       Work <- [g |-> 1, a1 |-> 2, a2 |-> 3, b3 |-> 4],
       Peer <- {"p1", "p2"}, NoPeer <- "none", NoBlock <- "none",
       PeerTip <- [p1 |-> "a2", p2 |-> "b3"], Good <- {"p1"}, Preferred <- {"p1", "p2"},
       Whitelisted <- {}, Announces <- {}, Unasked <- [p1 |-> {}, p2 |-> {}],
       Compact <- [p1 |-> {}, p2 |-> {"b3"}],
       Fault <- [g |-> "none", a1 |-> "none", a2 |-> "none", b3 |-> "context"],
       Recent <- {"a1", "a2", "b3"}, Window <- 1, MaxInTransit <- 2, MaxParallelFetch <- 2,
       MaxAnnouncers <- 1, CompactAhead <- 1, MaxSent <- 1,
       index <- node, checking <- reported

download == <<node, conn, peer, track, asked, received, reported>>
parallel == part = "parallel"
commands == part = "commands"

MCInit == part \in {"parallel", "commands", "download"} /\ Init /\ D!Init

(* Three siblings, one of them invalid and with a child, and no commands.               *)
Parallel3 ==
  /\ parallel
  /\ Arrival \/ \E t \in Thread : Turn(t) \/ CheckCancelled(t)
  /\ header' \subseteq {g, a1, a2, b1, c1}
  /\ UNCHANGED <<part, download>>

(* Two chains, one with an invalid tip, and one thread at a time.                       *)
OneByOne ==
  /\ commands
  /\ Arrival \/ Operator \/ \E t \in Thread : Turn(t)
  /\ header' \subseteq {g, b1, b2, d1, d2}
  /\ \A t, u \in Thread : t # u => "idle" \in {pc'[t], pc'[u]}
  /\ UNCHANGED <<part, download>>

Fetching == part = "download" /\ D!Next /\ UNCHANGED <<part, vars>>

MCNext == Parallel3 \/ OneByOne \/ Fetching

MCSpec == MCInit /\ [][MCNext]_<<part, vars, download>>

-------------------------------------------------------------------------------
(* While blocks arrive, the best usable chain always has a candidate that matches it.   *)
ChoiceKept == ~commands => NoneForgotten

(* The node at rest is on the best chain it can use; after commands, once every known   *)
(* header has its block.                                                                *)
BestActive == IF ~commands THEN BestWork ELSE BestWhenComplete

(* The tracker's map, the queues and the counters of the nodes agree, and hold nothing   *)
(* of a node that has gone.                                                             *)
TrackerConsistent == D!TrackerConsistent
===============================================================================
