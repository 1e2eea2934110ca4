-------------------------------- MODULE MCBlocks --------------------------------
(* The way of a block into the chain, for TLC: blocks that are fetched from peers      *)
(* (BlockDownload) and threads that activate the best chain (ChainState), side by      *)
(* side.  `part' says which of them a behaviour is about, and the other stays as it is. *)
EXTENDS MCBlockDownload

VARIABLES part,
  header, data, linked, unlinked, failed, failedParent, scripts, time, seq, soft, candidates,
  tip, precious, cs, rpc, pc, pblock, mostWork, newTip, oldTip, validating, budget

(* Three children of g, one of them invalid and with a child, another not accepted.    *)
C == INSTANCE ChainState WITH
       Block <- {"g", "a1", "a2", "b1", "c1"},
       Parent <- [a1 |-> "g", b1 |-> "g", c1 |-> "g", a2 |-> "a1"],
       Chain <- [g |-> {"g"}, a1 |-> {"g", "a1"}, b1 |-> {"g", "b1"}, c1 |-> {"g", "c1"},
                 a2 |-> {"g", "a1", "a2"}],
       Height <- [g |-> 0, a1 |-> 1, b1 |-> 1, c1 |-> 1, a2 |-> 2],
       Work <- [g |-> 1, a1 |-> 2, b1 |-> 2, c1 |-> 2, a2 |-> 3],
       Thread <- {"t1", "t2"}, NoThread <- "none", Bad <- {"a1"}, Unfit <- {"c1"},
       Commands <- {}, MaxCommands <- 0, MaxSoft <- 0, MaxCancel <- 1, MaxParallelBlocks <- 2,
       checking <- validating

chain == <<header, data, linked, unlinked, failed, failedParent, scripts, time, seq, soft,
           candidates, tip, precious, cs, rpc, pc, pblock, mostWork, newTip, oldTip,
           validating, budget>>
all == <<part, vars, chain>>

MCInit == part \in {"download", "activation"} /\ Init /\ C!Init

Download == part = "download" /\ Next /\ UNCHANGED <<part, chain>>
Activation == part = "activation" /\ C!Next /\ UNCHANGED <<part, vars>>
MCNext == Download \/ Activation

(* The fairness of BlockDownload and of ChainState, for their parts.                   *)
MCFairness ==
  /\ WF_vars(part = "download" /\ InitializeNode("p1"))
  /\ WF_vars(part = "download" /\ Tells("p1"))
  /\ WF_vars(part = "download" /\ HeadersAnswer("p1"))
  /\ SF_vars(part = "download" /\ SendGetDataBlocks("p1"))
  /\ WF_vars(part = "download" /\ BringsAsked("p1"))
  /\ SF_vars(part = "download" /\ (SendBanned("p2") \/ DetectStalling("p2")))
  /\ SF_vars(part = "download" /\ FinalizeNode("p2"))
  /\ WF_vars(part = "download" /\ AcceptBlock)
  /\ WF_vars(part = "download" /\ (BlockChecked \/ Reported))
  /\ SF_vars(part = "download" /\ ActivateBestChain)
  /\ WF_vars(part = "download" /\ DisconnectNodes)
  /\ \A t \in {"t1", "t2"} : WF_chain(part = "activation" /\ C!Turn(t))

MCSpec == MCInit /\ [][MCNext]_all /\ MCFairness

-------------------------------------------------------------------------------
(* The chain of the peer that answers becomes ours, whatever the other one does, and a  *)
(* thread in ActivateBestChain gets out of it again and again: the two threads are      *)
(* alike, so that it is enough to follow one of them.                                   *)
Progress == []<>(IF part = "download" THEN Synced ELSE pc["t1"] = "idle")
===============================================================================
