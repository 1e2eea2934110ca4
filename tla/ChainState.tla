----------------------------- MODULE ChainState -----------------------------
(***************************************************************************)
(* Selection and activation of the best chain: the block index, the set of *)
(* tip candidates, and the loop of ActivateBestChain run by several        *)
(* threads at once.  A thread owns cs_main while it searches for a target, *)
(* disconnects and connects, and gives it up only while it validates the   *)
(* scripts of a block that would improve on the tip, so that siblings can  *)
(* be validated in parallel.  The operator's commands (invalidateblock,    *)
(* reconsiderblock, softrejectblock, acceptblock, preciousblock) change    *)
(* the index under the same lock and then activate the best chain.         *)
(*                                                                         *)
(* Left out: pruned block files, TTOR checks of blocks far below the tip,  *)
(* corrupted-data results and disk errors (which stop the node), shutdown. *)
(***************************************************************************)
EXTENDS BlockTree, FiniteSets

CONSTANTS
    Unfit,              \* blocks that CheckBlock or ContextualCheckBlock refuses
    Bad,                \* blocks that ConnectBlock finds invalid
    Thread, NoThread,   \* threads that may call ActivateBestChain
    NoBlock,            \* nullptr
    MaxParallelBlocks,  \* config.GetMaxParallelBlocks()
    Commands,           \* the operator commands used
    MaxCommands,        \* bound: how many commands are given
    MaxSoft,            \* bound: the largest numblocks of softrejectblock
    MaxCancel           \* bound: how many validations lose their checker

ASSUME ChainAssumption ==
    /\ Unfit \subseteq Block /\ Bad \subseteq Block
    /\ Genesis \notin Unfit \cup Bad
    /\ NoBlock \notin Block /\ NoThread \notin Thread
    /\ MaxParallelBlocks \in Nat \ {0}
    /\ MaxCommands \in Nat /\ MaxSoft \in Nat /\ MaxCancel \in Nat
    /\ IsFiniteSet(Block)

VARIABLES
    header,       \* mapBlockIndex
    data,         \* hasData: received, BLOCK_VALID_TRANSACTIONS
    linked,       \* nChainTx > 0: received with all ancestors
    unlinked,     \* mapBlocksUnlinked
    failed,       \* BLOCK_FAILED
    failedParent, \* BLOCK_FAILED_PARENT
    scripts,      \* BLOCK_VALID_SCRIPTS
    time,         \* mValidationCompletionTime
    seq,          \* nSequenceId
    soft,         \* nSoftRejected
    candidates,   \* setBlockIndexCandidates
    tip,          \* chainActive.Tip()
    precious,     \* nBlockReverseSequenceId and nLastPreciousChainwork
    cs,           \* the owner of cs_main
    rpc,          \* the thread whose command keeps cs_main while it activates
    pc,           \* where each thread is in ActivateBestChain
    pblock,       \* the block a thread was called with
    mostWork,     \* pindexMostWork
    newTip,       \* pindexNewTip
    oldTip,       \* pindexOldTip of ActivateBestChainStep
    checking,     \* mCurrentlyValidatingBlocks, by thread
    budget        \* commands and cancellations left

index  == <<header, data, linked, unlinked>>
flags  == <<failed, failedParent>>
order  == <<time, seq, precious>>
locals == <<pblock, mostWork, newTip, oldTip, checking>>
vars   == <<index, flags, scripts, order, soft, candidates, tip, cs, rpc, pc,
            locals, budget>>

Never == Cardinality(Block) + 1      \* SteadyClockTimePoint::max()
Invalid == failed \cup failedParent
Usable(b) == b \in linked \ Invalid  \* IsValid(TRANSACTIONS) && GetChainTx()
Validating == {checking[t] : t \in Thread} \ {NoBlock}

TypeOK ==
    /\ header \subseteq Block /\ data \subseteq header /\ linked \subseteq data
    /\ unlinked \subseteq data \ linked
    /\ failed \subseteq header /\ failedParent \subseteq header
    /\ scripts \subseteq linked /\ candidates \subseteq linked
    /\ time \in [Block -> 0 .. Never]
    /\ seq \in [Block -> Int] /\ soft \in [Block -> -1 .. MaxSoft]
    /\ tip \in linked
    /\ precious \in [next : Int, work : Nat]
    /\ cs \in Thread \cup {NoThread} /\ rpc \in {cs, NoThread}
    /\ pc \in [Thread -> {"idle", "loop", "step", "check"}]
    /\ \A v \in {pblock, mostWork, newTip, oldTip, checking} :
          v \in [Thread -> Block \cup {NoBlock}]
    /\ budget \in [commands : 0 .. MaxCommands, cancels : 0 .. MaxCancel]

Init ==
    /\ header = {Genesis} /\ data = {Genesis} /\ linked = {Genesis}
    /\ unlinked = {} /\ failed = {} /\ failedParent = {}
    /\ scripts = {Genesis} /\ candidates = {Genesis} /\ tip = Genesis
    /\ time = [b \in Block |-> IF b = Genesis THEN 0 ELSE Never]
    /\ seq = [b \in Block |-> 0] /\ soft = [b \in Block |-> -1]
    /\ precious = [next |-> -1, work |-> 0]
    /\ cs = NoThread /\ rpc = NoThread
    /\ pc = [t \in Thread |-> "idle"]
    /\ pblock = [t \in Thread |-> NoBlock]
    /\ mostWork = pblock /\ newTip = pblock /\ oldTip = pblock
    /\ checking = pblock
    /\ budget = [commands |-> MaxCommands, cancels |-> MaxCancel]
-----------------------------------------------------------------------------
(* CBlockIndexWorkComparator: a sorts before b.  Only preciousblock can     *)
(* give two blocks one sequence number; the code then compares pointers.    *)
WorseBy(tm, sq, a, b) ==
    \/ Work[a] < Work[b]
    \/ Work[a] = Work[b] /\ tm[a] > tm[b]
    \/ Work[a] = Work[b] /\ tm[a] = tm[b] /\ sq[a] > sq[b]

Worse(a, b) == WorseBy(time, seq, a, b)

\* Mutant: also erases what ties with the tip, the tip included
PruneTies(C, tm, sq, tp) == {c \in C : Work[c] > Work[tp]}

\* PruneBlockIndexCandidates: erases from the worst candidate upwards until
\* one is as good as the tip, or is all that a soft-rejected tip leaves
PruneWith(C, tm, sq, tp) ==
    LET Stops(d) == ~WorseBy(tm, sq, d, tp) \/ (soft[tp] >= 0 /\ soft[d] < 0)
    IN  {c \in C : \E d \in C : Stops(d) /\ (d = c \/ WorseBy(tm, sq, d, c))}

\* The strict descendants in the index of the blocks of S
Descendants(S) == {b \in header : (Chain[b] \ {b}) \cap S # {}}

\* SetSoftRejectedFromParentBaseNL
SoftFromParent(b) == IF soft[Parent[b]] > 0 THEN soft[Parent[b]] - 1 ELSE -1

Unlocked(t) == cs \in {NoThread, t}   \* LOCK(cs_main); the lock is recursive

\* The thread is about to run the loop of ActivateBestChain
Activate(t, b) ==
    /\ pc' = [pc EXCEPT ![t] = "loop"]
    /\ pblock' = [pblock EXCEPT ![t] = b]
    /\ UNCHANGED <<mostWork, newTip, oldTip, checking>>
-----------------------------------------------------------------------------
(* Arrival of headers and blocks.                                           *)

\* AcceptBlockHeader on a header whose parent is known and not invalid, or
\* that is known and not invalid itself
HeaderOk(b) == IF b \in header THEN b \notin Invalid
               ELSE Parent[b] \in header \ Invalid

AddToBlockIndex(b) ==
    /\ header' = header \cup {b}
    /\ soft' = IF b \in header THEN soft
               ELSE [soft EXCEPT ![b] = SoftFromParent(b)]

AcceptHeader(b) ==
    /\ cs = NoThread /\ b \notin header /\ HeaderOk(b)
    /\ AddToBlockIndex(b)
    /\ UNCHANGED <<data, linked, unlinked, flags, scripts, order, candidates,
                   tip, cs, rpc, pc, locals, budget>>

\* AcceptBlock returns early: the data is there already, or the block was
\* not asked for and has no more work than the tip
AcceptKnown(t, b) ==
    /\ pc[t] = "idle" /\ cs = NoThread /\ HeaderOk(b)
    /\ b \in data \/ Work[b] <= Work[tip]
    /\ AddToBlockIndex(b)
    /\ Activate(t, b)
    /\ UNCHANGED <<data, linked, unlinked, flags, scripts, order, candidates,
                   tip, cs, rpc, budget>>

\* AcceptBlock refuses the contents of the block
RejectBlock(b) ==
    /\ cs = NoThread /\ HeaderOk(b) /\ b \in Unfit
    /\ AddToBlockIndex(b)
    /\ failed' = failed \cup {b}
    /\ UNCHANGED <<data, linked, unlinked, failedParent, scripts, order,
                   candidates, tip, cs, rpc, pc, locals, budget>>

\* Mutant: only the block itself is linked
LinkedAlone(b) == {b}

\* The blocks that ReceivedBlockTransactions links when b arrives
NewlyLinked(b) ==
    {d \in unlinked \cup {b} :
        b \in Chain[d] /\ Chain[d] \ Chain[b] \subseteq unlinked}

\* ReceivedBlockTransactions: number the newly linked blocks breadth first
\* and make candidates of those that are as good as the tip
Link(b) ==
    LET N == NewlyLinked(b)
        base == Cardinality(linked) - 1
    IN  \E num \in [N -> (base + 1) .. (base + Cardinality(N))] :
          /\ \A x, y \in N : x # y =>
                num[x] # num[y] /\ (Height[x] < Height[y] => num[x] < num[y])
          /\ seq' = [x \in Block |-> IF x \in N THEN num[x] ELSE seq[x]]
          /\ linked' = linked \cup N
          /\ unlinked' = unlinked \ N
          /\ candidates' = candidates \cup
                             {x \in N : ~WorseBy(time, seq', x, tip)}

ReceiveBlock(t, b) ==
    /\ pc[t] = "idle" /\ cs = NoThread /\ HeaderOk(b)
    /\ b \notin data \cup Unfit
    /\ AddToBlockIndex(b)
    /\ data' = data \cup {b}
    /\ \/ Parent[b] \in linked /\ Link(b)
       \/ /\ Parent[b] \notin linked
          /\ unlinked' = IF Parent[b] \in Invalid THEN unlinked
                         ELSE unlinked \cup {b}
          /\ UNCHANGED <<linked, seq, candidates>>
    /\ Activate(t, b)
    /\ UNCHANGED <<flags, scripts, time, precious, tip, cs, rpc, budget>>
-----------------------------------------------------------------------------
(* One turn of the loop of ActivateBestChain: choose a target.              *)

\* Whether the path from the active chain to c has no block known invalid
Clean(c) == (Chain[c] \ Chain[tip]) \cap Invalid = {}

Eligible == {c \in candidates : soft[c] < 0}

\* FindMostWorkChain: the best candidate that is not soft rejected and whose
\* path is clean, nullptr when there is none.  Blocks that tie, which the code
\* orders by their addresses, are all possible results.
FindMostWorkChain ==
    LET clean == {c \in Eligible : Clean(c)}
    IN  IF clean = {} THEN {NoBlock}
        ELSE {c \in clean : \A d \in clean : ~Worse(c, d)}

\* ... which meets the candidates better than its result m first: for each of
\* them the highest invalid block of its path goes to InvalidateChain
Culprits(m) ==
    {Highest((Chain[c] \ Chain[tip]) \cap Invalid) :
        c \in {x \in Eligible : ~Clean(x) /\ (m = NoBlock \/ Worse(m, x))}}

InvalidateChains(S) ==
    /\ failedParent' = failedParent \cup Descendants(S)
    /\ candidates' = candidates \ (S \cup Descendants(S))

\* ConsiderBlockForMostWorkChain
Consider(b, m) ==
    IF /\ b # NoBlock /\ b # m /\ b # Genesis
       /\ Parent[b] = tip /\ Work[m] <= Work[b] /\ Usable(b)
    THEN b ELSE m

\* pindexMostWork is kept when the tip is still the one this thread made
Cached(t) == mostWork[t] # NoBlock /\ newTip[t] = tip

\* The target of thread t when FindMostWorkChain, if it is called, returns m
Target(t, m) ==
    IF Cached(t) THEN mostWork[t]
    ELSE IF m = NoBlock THEN NoBlock ELSE Consider(pblock[t], m)

\* Mutant: only the target itself is looked up
CoveredItself(m) == m \in Validating

\* isAncestorInValidation, areNSiblingsInValidation
Covered(m) == Chain[m] \cap Validating # {}
Crowded(m) ==
    Cardinality({t \in Thread : checking[t] # NoBlock /\ Height[checking[t]] = Height[m]})
        >= MaxParallelBlocks

GoesOn(b) == b \notin {NoBlock, tip} /\ ~Covered(b) /\ ~Crowded(b)

Search(t, m) == IF Cached(t) THEN UNCHANGED <<failedParent, candidates>>
                ELSE \E S \in {Culprits(m)} : InvalidateChains(S)

\* Nothing (more) to do for this thread: return, and give up the lock that a
\* command may still hold
Leave(t) ==
    /\ pc[t] = "loop" /\ Unlocked(t)
    /\ \E m \in FindMostWorkChain : ~GoesOn(Target(t, m)) /\ Search(t, m)
    /\ pc' = [pc EXCEPT ![t] = "idle"]
    /\ pblock' = [pblock EXCEPT ![t] = NoBlock]
    /\ mostWork' = [mostWork EXCEPT ![t] = NoBlock]
    /\ newTip' = [newTip EXCEPT ![t] = NoBlock]
    /\ cs' = NoThread /\ rpc' = NoThread
    /\ UNCHANGED <<index, failed, scripts, order, soft, tip, oldTip, checking,
                   budget>>

Start(t) ==
    /\ pc[t] = "loop" /\ Unlocked(t)
    /\ \E m \in FindMostWorkChain :
          /\ GoesOn(Target(t, m)) /\ Search(t, m)
          /\ mostWork' = [mostWork EXCEPT ![t] = Target(t, m)]
    /\ pc' = [pc EXCEPT ![t] = "step"]
    /\ oldTip' = [oldTip EXCEPT ![t] = tip]
    /\ cs' = t
    /\ UNCHANGED <<index, failed, scripts, order, soft, tip, rpc, pblock,
                   newTip, checking, budget>>
-----------------------------------------------------------------------------
(* ActivateBestChainStep.                                                   *)

\* The block to connect next on the way from the tip to the target
NextBlock(t) == AncestorAt(mostWork[t], Height[tip] + 1)

\* Parallel validation starts once the work of the old tip is reached again
Parallel(t) == Work[tip] = Work[oldTip[t]]

\* Leave ActivateBestChainStep with the tip tp; the target is kept only if
\* nothing invalid was found and there is more to connect
Finish(t, tp, keep) ==
    /\ pc' = [pc EXCEPT ![t] = "loop"]
    /\ mostWork' = IF keep /\ mostWork[t] # tp THEN mostWork
                   ELSE [mostWork EXCEPT ![t] = NoBlock]
    /\ newTip' = [newTip EXCEPT ![t] = IF keep /\ mostWork[t] # tp THEN tp ELSE NoBlock]
    /\ oldTip' = [oldTip EXCEPT ![t] = NoBlock]
    /\ checking' = [checking EXCEPT ![t] = NoBlock]
    /\ cs' = rpc

\* Mutant: a thread that lost returns instead of looking for the next target
AbandonForGood(t) ==
    /\ pc' = [pc EXCEPT ![t] = "idle"]
    /\ mostWork' = [mostWork EXCEPT ![t] = NoBlock]
    /\ newTip' = [newTip EXCEPT ![t] = NoBlock]
    /\ oldTip' = [oldTip EXCEPT ![t] = NoBlock]
    /\ checking' = [checking EXCEPT ![t] = NoBlock]
    /\ cs' = rpc

\* An exception ends the turn: nothing is kept
Abandon(t) == Finish(t, tip, FALSE)

DisconnectTip(t) ==
    /\ pc[t] = "step" /\ tip \notin Chain[mostWork[t]]
    /\ tip' = Parent[tip]
    /\ IF tip' = mostWork[t] THEN Finish(t, tip', TRUE)
       ELSE UNCHANGED <<pc, mostWork, newTip, oldTip, checking, cs>>
    /\ UNCHANGED <<index, flags, scripts, order, soft, candidates, rpc,
                   pblock, budget>>

\* Mutant: the block is taken off the candidates but not marked
InvalidUnmarked(b) ==
    /\ candidates' = candidates \ {b}
    /\ UNCHANGED failed

\* InvalidBlockFound
InvalidBlockFound(b) ==
    /\ failed' = failed \cup {b}
    /\ candidates' = candidates \ {b}

\* BlockConnector::Connect after the scripts are found good: writeUndoToDisk
\* raises the validity of b and times it, which changes its place among the
\* candidates; b becomes a candidate again whatever happened meanwhile
Raised(b) == b \notin Invalid \cup scripts
TimeWith(b) == IF Raised(b) /\ time[b] = Never
               THEN [time EXCEPT ![b] = Cardinality({x \in Block : time[x] # Never})]
               ELSE time

MarkValid(b) ==
    /\ scripts' = IF Raised(b) THEN scripts \cup {b} ELSE scripts
    /\ time' = TimeWith(b)

\* ConnectTip, UpdateTip and PruneBlockIndexCandidates
MakeTip(b) ==
    /\ MarkValid(b)
    /\ tip' = b
    /\ \E tm \in {TimeWith(b)}, C \in {candidates \cup {b}} :
          candidates' = PruneWith(C, tm, seq, b)

Connecting(t) == /\ pc[t] = "step" /\ tip \in Chain[mostWork[t]] /\ tip # mostWork[t]
                 /\ NextBlock(t) \notin Validating

\* Below the work of the old tip blocks are connected without releasing
\* cs_main
ConnectHeld(t) ==
    /\ Connecting(t) /\ ~Parallel(t)
    /\ \E b \in {NextBlock(t)} :
       \/ /\ b \in Bad
          /\ InvalidBlockFound(b)
          /\ Finish(t, tip, FALSE)
          /\ UNCHANGED <<scripts, time, tip>>
       \/ /\ b \notin Bad
          /\ MakeTip(b)
          /\ IF b = mostWork[t] \/ Work[b] > Work[oldTip[t]]
             THEN Finish(t, b, TRUE)
             ELSE UNCHANGED <<pc, mostWork, newTip, oldTip, checking, cs>>
          /\ UNCHANGED failed
    /\ UNCHANGED <<index, failedParent, seq, precious, soft, rpc, pblock, budget>>

\* ForceDetach and the release of cs_main in BlockConnector::Connect
StartCheck(t) ==
    /\ Connecting(t) /\ Parallel(t)
    /\ checking' = [checking EXCEPT ![t] = NextBlock(t)]
    /\ pc' = [pc EXCEPT ![t] = "check"]
    /\ cs' = rpc
    /\ UNCHANGED <<index, flags, scripts, order, soft, candidates, tip, rpc,
                   pblock, mostWork, newTip, oldTip, budget>>

\* The scripts are good.  TryReattach succeeds if the tip is the parent again
\* (or still); otherwise another block won and the connecting is abandoned
CheckPassed(t) ==
    LET b == checking[t] IN
    /\ pc[t] = "check" /\ Unlocked(t) /\ b \notin Bad
    /\ \/ /\ tip = Parent[b]
          /\ MakeTip(b)
          /\ Finish(t, b, TRUE)
       \/ /\ tip # Parent[b]
          /\ MarkValid(b)
          /\ candidates' = candidates \cup {b}
          /\ Abandon(t)
          /\ UNCHANGED tip
    /\ UNCHANGED <<index, flags, seq, precious, soft, rpc, pblock, budget>>

CheckFailed(t) ==
    /\ pc[t] = "check" /\ Unlocked(t) /\ checking[t] \in Bad
    /\ InvalidBlockFound(checking[t])
    /\ Finish(t, tip, FALSE)
    /\ UNCHANGED <<index, failedParent, scripts, order, soft, tip, rpc, pblock,
                   budget>>

\* The checker was given to a better block (CBlockValidationCancellation)
CheckCancelled(t) ==
    /\ pc[t] = "check" /\ Unlocked(t) /\ budget.cancels > 0
    /\ budget' = [budget EXCEPT !.cancels = @ - 1]
    /\ Abandon(t)
    /\ UNCHANGED <<index, flags, scripts, order, soft, candidates, tip, rpc,
                   pblock>>
-----------------------------------------------------------------------------
(* The operator's commands.                                                 *)

Command(t, name) ==
    /\ name \in Commands /\ budget.commands > 0
    /\ pc[t] = "idle" /\ cs = NoThread
    /\ budget' = [budget EXCEPT !.commands = @ - 1]

\* Mutant: the soft-rejected tip is kept
StaySoft(tp, sf) == tp

\* DisconnectSoftRejectedTipsNL, starting from the tip tp
FirstNotSoft(tp, sf) == Highest({a \in Chain[tp] : sf[a] < 0})

\* "The resulting new best tip may not be in setBlockIndexCandidates anymore"
NotWorseThan(tp, inv) == {x \in linked \ inv : ~Worse(x, tp)}

\* Mutant: marks the block and its descendants but stays on them
InvalidateStaying(t, b) ==
    /\ Command(t, "invalidateblock") /\ b \in header \ {Genesis}
    /\ failed' = failed \cup {b}
    /\ failedParent' = failedParent \cup Descendants({b})
    /\ candidates' = (candidates \ ({b} \cup Descendants({b})))
                       \cup NotWorseThan(tip, failed' \cup failedParent')
    /\ cs' = t /\ rpc' = t
    /\ Activate(t, NoBlock)
    /\ UNCHANGED <<index, scripts, order, soft, tip>>

\* InvalidateBlock.  cs_main is held until ActivateBestChain has returned
InvalidateBlock(t, b) ==
    /\ Command(t, "invalidateblock") /\ b \in header \ {Genesis}
    /\ failed' = failed \cup {b}
    /\ IF b \in Chain[tip]
       THEN /\ failedParent' = failedParent \cup (Chain[tip] \ Chain[Parent[b]])
            /\ tip' = FirstNotSoft(Parent[b], soft)
            /\ candidates' = (candidates \ (Chain[tip] \ Chain[Parent[b]]))
                               \cup NotWorseThan(tip', failed' \cup failedParent')
       ELSE /\ failedParent' = failedParent \cup Descendants({b})
            /\ candidates' = (candidates \ ({b} \cup Descendants({b})))
                               \cup NotWorseThan(tip, failed' \cup failedParent')
            /\ UNCHANGED tip
    /\ cs' = t /\ rpc' = t
    /\ Activate(t, NoBlock)
    /\ UNCHANGED <<index, scripts, order, soft>>

\* Mutant: clears the flags and restores no candidate
ReconsiderFlags(t, b) ==
    /\ Command(t, "reconsiderblock") /\ b \in header
    /\ failed' = failed \ ({x \in Invalid : b \in Chain[x]} \cup Chain[b])
    /\ failedParent' = failedParent \ ({x \in Invalid : b \in Chain[x]} \cup Chain[b])
    /\ Activate(t, NoBlock)
    /\ UNCHANGED <<index, scripts, order, soft, candidates, tip, cs, rpc>>

\* ResetBlockFailureFlags, then ActivateBestChain without the lock
ReconsiderBlock(t, b) ==
    LET below == {x \in Invalid : b \in Chain[x]} IN
    /\ Command(t, "reconsiderblock") /\ b \in header
    /\ failed' = failed \ (below \cup Chain[b])
    /\ failedParent' = failedParent \ (below \cup Chain[b])
    /\ candidates' = candidates \cup {x \in below \cap linked : Worse(tip, x)}
    /\ Activate(t, NoBlock)
    /\ UNCHANGED <<index, scripts, order, soft, tip, cs, rpc>>

\* SetRootSoftRejectedForNL on the descendants up to the height h
SoftWith(b, n, h) ==
    [x \in Block |->
        IF x \notin header \/ b \notin Chain[x] \/ Height[x] > h THEN soft[x]
        ELSE LET left == n - (Height[x] - Height[b]) IN IF left >= 0 THEN left ELSE -1]

\* Marked itself, not because of its parent
Explicit(b) == soft[b] >= 0 /\ soft[Parent[b]] <= 0

SoftRejectBlock(t, b, n) ==
    /\ Command(t, "softrejectblock") /\ b \in header \ {Genesis}
    /\ soft[b] >= 0 => Explicit(b) /\ n > soft[b]
    /\ \A x \in Descendants({b}) : Height[x] <= Height[b] + n => ~Explicit(x)
    /\ soft' = SoftWith(b, n, Height[b] + n)
    /\ tip' = FirstNotSoft(tip, soft')
    /\ IF tip' = tip
       THEN UNCHANGED <<candidates, cs, rpc, pc, locals>>
       ELSE /\ candidates' = candidates \cup NotWorseThan(tip', Invalid)
            /\ cs' = t /\ rpc' = t
            /\ Activate(t, NoBlock)
    /\ UNCHANGED <<index, flags, scripts, order>>

\* AcceptSoftRejectedBlockNL, then ActivateBestChain without the lock
AcceptSoftRejectedBlock(t, b, n) ==
    /\ Command(t, "acceptblock") /\ b \in header \ {Genesis}
    /\ Explicit(b) /\ n < soft[b]
    /\ soft' = SoftWith(b, n, Height[b] + soft[b])
    /\ Activate(t, NoBlock)
    /\ UNCHANGED <<index, flags, scripts, order, candidates, tip, cs, rpc>>

PreciousBlock(t, b) ==
    LET from == IF Work[tip] > precious.work THEN -1 ELSE precious.next
        time1 == [time EXCEPT ![b] = 0]
        seq1 == [seq EXCEPT ![b] = from]
    IN
    /\ Command(t, "preciousblock") /\ b \in header /\ Work[b] >= Work[tip]
    /\ precious' = [next |-> from - 1, work |-> Work[tip]]
    /\ time' = time1 /\ seq' = seq1
    /\ candidates' = IF Usable(b) THEN PruneWith(candidates \cup {b}, time1, seq1, tip)
                     ELSE candidates \ {b}
    /\ Activate(t, NoBlock)
    /\ UNCHANGED <<index, flags, scripts, soft, tip, cs, rpc>>
-----------------------------------------------------------------------------
Turn(t) == \/ Leave(t) \/ Start(t) \/ DisconnectTip(t) \/ ConnectHeld(t)
            \/ StartCheck(t) \/ CheckPassed(t) \/ CheckFailed(t)

Arrival == \E b \in Block \ {Genesis} :
              \/ AcceptHeader(b) \/ RejectBlock(b)
              \/ \E t \in Thread : AcceptKnown(t, b) \/ ReceiveBlock(t, b)

Operator == \E t \in Thread, b \in Block :
              \/ InvalidateBlock(t, b) \/ ReconsiderBlock(t, b)
              \/ \E n \in 0 .. MaxSoft : SoftRejectBlock(t, b, n)
              \/ \E n \in -1 .. MaxSoft : AcceptSoftRejectedBlock(t, b, n)
              \/ PreciousBlock(t, b)

Next == \/ Arrival \/ Operator
        \/ \E t \in Thread : Turn(t) \/ CheckCancelled(t)

\* Every thread in ActivateBestChain keeps running and gets cs_main in turn
Fairness == \A t \in Thread : WF_vars(Turn(t))

Spec == Init /\ [][Next]_vars
LiveSpec == Spec /\ Fairness
-----------------------------------------------------------------------------
(* Properties.                                                              *)

Settled == \A t \in Thread : pc[t] = "idle"

\* Received with all its ancestors, none of them known to be invalid
Sound(b) == b \in linked /\ Chain[b] \cap Invalid = {}

\* Two threads never connect the same block at once: the case for which the
\* guard of ConnectTip (CBlockValidationStatus::CScopeGuard) says "if this
\* happens we have a bug".  Two of them would write undo data and spend coins
\* twice.
NoDoubleValidation ==
    /\ \A t, u \in Thread : t # u /\ checking[t] # NoBlock => checking[t] # checking[u]
    /\ \A t \in Thread :
          pc[t] = "step" /\ tip \in Chain[mostWork[t]] /\ tip # mostWork[t]
             => NextBlock(t) \notin Validating

\* Whenever cs_main is free, every usable chain is matched by a candidate
\* that is usable and has at least as much work: pruning the candidates,
\* losing the race for the tip and meeting invalid blocks never make the node
\* forget its best choice (setBlockIndexCandidates).
NoneForgotten ==
    cs = NoThread =>
       \A b \in linked : Sound(b) /\ soft[b] < 0 =>
          \E c \in candidates : Sound(c) /\ soft[c] < 0 /\ Work[c] >= Work[b]

\* Once no thread is activating, no usable chain has more work than the
\* active one: a thread that gave way to a sibling, an ancestor in validation
\* or a better block was right to return from ActivateBestChain.
BestWork ==
    Settled => \A b \in linked : Sound(b) /\ soft[b] < 0 => Work[b] <= Work[tip]

\* The same once every known header has been received.  It is what is left of
\* BestWork after reconsiderblock, which does not make candidates of the
\* ancestors it clears.
BestWhenComplete ==
    header = linked => BestWork

\* While cs_main is free no block of the active chain is marked invalid, by
\* validation or by invalidateblock.
ActiveValid == cs = NoThread => Chain[tip] \cap Invalid = {}

\* A received block waits in mapBlocksUnlinked for exactly as long as it lacks
\* an ancestor, unless it descends from a block that AcceptBlock refuses:
\* otherwise it would never be linked.  invalidateblock and reconsiderblock on
\* any blocks, in any order, do not change that.
UnlinkedExact ==
    /\ \A b \in data \ linked : Chain[b] \cap Unfit = {} => b \in unlinked
    /\ \A b \in unlinked : ~(Chain[b] \subseteq data)

\* Once no thread is activating, the tip is not soft rejected.
SoftTipLeft == Settled => soft[tip] < 0

\* After the last softrejectblock the active chain ends up, for good, at a
\* block that is not soft rejected.
SoftTipGone == <>[](soft[tip] < 0)

\* Every call of ActivateBestChain returns.
Returns == \A t \in Thread : pc[t] # "idle" ~> pc[t] = "idle"
=============================================================================
