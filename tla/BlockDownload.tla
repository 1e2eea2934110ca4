----------------------------- MODULE BlockDownload -----------------------------
(***************************************************************************)
(* Fetching blocks from peers: BlockDownloadTracker and the handlers of    *)
(* net_processing that use it.  The message thread handles the messages of *)
(* all peers in turn, the socket thread drops peers, and activation tasks  *)
(* connect blocks and report to the tracker (BlockChecked).  cs_main is    *)
(* held while blocks are reported; a handler that needs it waits, one that *)
(* only needs the tracker's mutex and the node's state goes on.            *)
(* Clocks and download speeds are nondeterministic.  How the chain itself  *)
(* is activated is ChainState's subject: here one task connects blocks.    *)
(***************************************************************************)
EXTENDS BlockTree, Sequences, SequencesExt

CONSTANTS
    Peer, NoPeer, NoBlock,
    PeerTip,       \* [Peer -> Block]: the best block of a peer
    Good,          \* the peers that answer in time
    Preferred,     \* fPreferredDownload: outbound or whitelisted
    Whitelisted,   \* fWhitelisted: never banned
    Announces,     \* the peers that announce their tip
    Unasked,       \* [Peer -> SUBSET Block]: blocks a peer may send without being asked
    Compact,       \* [Peer -> SUBSET Block]: blocks a peer may send in compact form
    Fault,         \* [Block -> {"none", "check", "context", "connect"}]: who rejects a block
    Recent,        \* the blocks young enough to fetch directly, and to end the initial download
    Window,        \* GetBlockDownloadWindow
    MaxInTransit,  \* MAX_BLOCKS_IN_TRANSIT_PER_PEER
    MaxParallelFetch,
    MaxAnnouncers, \* 3
    CompactAhead,  \* 2: how far ahead of the tip a compact block is of use
    MaxSent        \* bound: copies of a block that are waiting to be checked

VARIABLES
    index,      \* mapBlockIndex and chainActive: header, data, failed, tip, synced, pending
    conn,       \* [Peer -> "out", "up", "drop" (fDisconnect), "held" (vNodesDisconnected), "gone"]
    peer,       \* [Peer -> what CNodeState knows of the peer's chain, and fShouldBan]
    track,      \* the tracker, and the part of CNodeState that it keeps
    asked,      \* the peers that owe an answer to getheaders
    received,   \* the block that the message thread hands to validation
    checking    \* the block that BlockChecked is called for, under cs_main

vars == <<index, conn, peer, track, asked, received, checking>>

Idle == [block |-> NoBlock]
CsMainFree == checking = Idle
HasState(p) == conn[p] \in {"up", "drop", "held"}
Known(p) == Chain[PeerTip[p]]
IsInitialBlockDownload == ~index.synced
HaveChain(b) == Chain[b] \subseteq index.data
FreshNode == [best |-> NoBlock, unknown |-> NoBlock, common |-> NoBlock,
              sync |-> FALSE, ban |-> FALSE, busy |-> FALSE]

Init ==
    /\ index = [header |-> {Genesis}, data |-> {Genesis}, failed |-> {}, tip |-> Genesis,
                synced |-> Genesis \in Recent, pending |-> FALSE]
    /\ conn = [p \in Peer |-> "out"]
    /\ asked = {}
    /\ peer = [p \in Peer |-> FreshNode]
    /\ track = [flight |-> [b \in Block |-> <<>>], sender |-> [b \in Block |-> <<>>],
                queue |-> [p \in Peer |-> <<>>], count |-> [p \in Peer |-> 0],
                stalling |-> {}, downloading |-> 0, announcing |-> <<>>]
    /\ received = Idle /\ checking = Idle

-----------------------------------------------------------------------------
(***************************************************************************)
(* BlockDownloadTracker.  Every header is validated before its block is    *)
(* asked for, so nBlocksInFlightValidHeaders is nBlocksInFlight.           *)
(***************************************************************************)

InFlightFrom(t, b, p) == Contains(t.flight[b], p)

\* The lowest n blocks of S, and a set of blocks of one chain from earliest to latest
Lowest(S, n) == {b \in S : Cardinality({d \in S : Height[d] < Height[b]}) < n}
ByHeight(S) == [i \in 1 .. Cardinality(S) |-> CHOOSE b \in Lowest(S, i) : b \notin Lowest(S, i - 1)]

\* MarkBlockAsInFlight for every block of S that is not yet in flight from p
MarkBlockAsInFlight(t, S, p, partial) ==
    LET new == {b \in S : ~InFlightFrom(t, b, p)}
        queued == [i \in DOMAIN ByHeight(new) |-> [hash |-> ByHeight(new)[i], partial |-> partial]]
    IN  [t EXCEPT !.flight = [b \in Block |-> IF b \in new THEN Append(@[b], p) ELSE @[b]],
                  !.queue[p] = @ \o queued,
                  !.count[p] = @ + Cardinality(new),
                  !.downloading = IF t.count[p] = 0 /\ new # {} THEN @ + 1 ELSE @]

\* removeFromBlockMapNL for every block of S that is in flight from p
removeFromBlockMapNL(t, S, p) ==
    LET old == {b \in S : InFlightFrom(t, b, p)}
    IN  [t EXCEPT !.flight = [b \in Block |-> IF b \in old THEN Remove(@[b], p) ELSE @[b]],
                  !.queue[p] = SelectSeq(@, LAMBDA e : e.hash \notin old),
                  !.count[p] = @ - Cardinality(old),
                  !.downloading = IF old # {} /\ t.count[p] = Cardinality(old) THEN @ - 1 ELSE @,
                  !.stalling = IF old # {} THEN @ \ {p} ELSE @]

MarkBlockAsReceived(t, b, p, punish) ==
    removeFromBlockMapNL(
        [t EXCEPT !.sender[b] = Append(@, [node |-> p, punish |-> punish])], {b}, p)

Queued(t, p) == {e.hash : e \in Range(t.queue[p])}

PeerTooBusy(t, p) == removeFromBlockMapNL(t, Queued(t, p), p)

\* Mutant: keeps the senders of blocks that are not yet checked
ClearFlights(t, p) ==
    [t EXCEPT !.flight = [b \in Block |-> IF b \in Queued(t, p) THEN Remove(@[b], p) ELSE @[b]],
              !.queue[p] = <<>>, !.count[p] = 0, !.stalling = @ \ {p},
              !.downloading = IF t.count[p] # 0 THEN @ - 1 ELSE @]

\* When the state of p is deleted
ClearPeer(t, p) ==
    [t EXCEPT !.flight = [b \in Block |-> IF b \in Queued(t, p) THEN Remove(@[b], p) ELSE @[b]],
              !.queue[p] = <<>>, !.count[p] = 0, !.stalling = @ \ {p},
              !.downloading = IF t.count[p] # 0 THEN @ - 1 ELSE @,
              !.sender = [b \in Block |-> SelectSeq(@[b], LAMBDA e : e.node # p)]]

getAllSourcesForBlockNL(t, b) == [i \in DOMAIN t.sender[b] |-> t.sender[b][i].node]

InFlightBlocks(t) == {b \in Block : t.flight[b] # <<>>}

maybeSetPeerAsAnnouncingHeaderAndIDsNL(t, p) ==
    IF Compact[p] = {} THEN t
    ELSE IF Contains(t.announcing, p)
         THEN [t EXCEPT !.announcing = Append(Remove(@, p), p)]
    ELSE IF conn[p] # "up" THEN t
    ELSE [t EXCEPT !.announcing = Append(IF Len(@) >= MaxAnnouncers THEN Tail(@) ELSE @, p)]

-----------------------------------------------------------------------------
(***************************************************************************)
(* What a peer has, and what to ask it for.                                *)
(***************************************************************************)

ProcessBlockAvailability(n, header) ==
    IF n.unknown \notin header THEN n
    ELSE [n EXCEPT !.best = IF @ = NoBlock \/ Work[n.unknown] >= Work[@] THEN n.unknown ELSE @,
                   !.unknown = NoBlock]

UpdateBlockAvailability(n, b, header) ==
    LET m == ProcessBlockAvailability(n, header)
    IN  IF b \notin header THEN [m EXCEPT !.unknown = b]
        ELSE [m EXCEPT !.best = IF @ = NoBlock \/ Work[b] >= Work[@] THEN b ELSE @]

\* All peers that b is in flight from have had it for long and are slow, and there are
\* fewer of them than may be asked at a time.  Peers that have left vNodes do not count.
StallerCount(b) == Cardinality({p \in Range(track.flight[b]) : conn[p] \in {"up", "drop"}})
Stalls(b) == Range(track.flight[b]) \cap Good = {} /\ StallerCount(b) < MaxParallelFetch

\* FindNextBlocksToDownload, in its steps: does the peer have anything of interest, ...
Interesting(n) == n.best # NoBlock /\ Work[n.best] >= Work[index.tip]

\* ... where does its chain leave what we have, ...
LastCommonBlock(n) ==
    Highest(Chain[n.best] \cap Chain[IF n.common # NoBlock THEN n.common ELSE index.tip])

\* ... the blocks from there to one past the window, ...
Walk(n, common) ==
    {b \in Chain[n.best] \ Chain[common] :
        Height[b] <= Height[common] + Window + 1 /\ b \notin index.failed}

\* ... the ones that are neither here nor in flight, and with `late' the first one that is
\* in flight, to ask p for it as well, ...
Flying(walk) == {b \in walk : b \notin index.data /\ track.flight[b] # <<>>}
Wanted(walk, flying, p, late) ==
    (walk \ (index.data \cup flying)) \cup
    {b \in Lowest(flying, 1) : late /\ Stalls(b) /\ ~InFlightFrom(track, b, p)}

\* ... and the peer to blame if the next block is the one past the window.
Staller(flying, p) == {Head(track.flight[b]) : b \in Lowest(flying, 1)} \ {p}

-----------------------------------------------------------------------------
(***************************************************************************)
(* The message thread: messages that tell which blocks a peer has.         *)
(***************************************************************************)

\* ThreadMessageHandler turns to peer p.  The copy of vNodes that it works from only
\* delays the deletion of a node, and the first turn of a new one.
Handles(p) == conn[p] = "up" /\ received = Idle

\* p has a block to announce
News(p) == p \in Announces /\ PeerTip[p] \notin {peer[p].best, peer[p].unknown}

\* ProcessInvMessage for the tip of p; AlreadyHave asks whether the header is known
ProcessInvMessage(p) ==
    /\ Handles(p) /\ CsMainFree /\ News(p)
    /\ UNCHANGED <<index, conn, track, received, checking>>
    /\ peer' = [peer EXCEPT ![p] = UpdateBlockAvailability(@, PeerTip[p], index.header)]
    /\ asked' = IF PeerTip[p] \in index.header \/ track.flight[PeerTip[p]] # <<>>
                THEN asked ELSE asked \cup {p}

\* AcceptBlockHeader refuses b: it is known to be invalid, or is new and its parent is
RefusesHeader(header, b) ==
    IF b \in header THEN b \in index.failed
    ELSE b # Genesis => Parent[b] \in index.failed

\* The blocks on the way to b that are neither here nor in flight, with a message that
\* ends in b; after MaxInTransit + 1 of them the walk back to the active chain gives up
ToFetch(b) ==
    LET missing == {d \in Chain[b] \ Chain[index.tip] : d \notin index.data /\ track.flight[d] = <<>>}
        n == Cardinality(missing) - (MaxInTransit + 1)
    IN  IF \E d \in Lowest(missing, n + 1) \ Lowest(missing, n) : Parent[d] \notin Chain[index.tip]
        THEN {} ELSE missing

\* "If this set of headers is valid and ends in a block with at least as much work as our
\* tip, download as much as possible"
DirectFetch(b, p) ==
    IF index.tip \notin Recent \/ b \in index.failed \/ Work[b] < Work[index.tip] THEN track
    ELSE MarkBlockAsInFlight(track, Lowest(ToFetch(b), MaxInTransit - track.count[p]), p, FALSE)

\* ProcessHeadersMessage for the headers from block `after' to the tip of p.  Headers
\* that do not connect are an announcement, and are answered by another getheaders.
ProcessHeaders(p, after, owing) ==
    LET sent == Known(p) \ Chain[after]
        refused == {b \in sent : RefusesHeader(index.header, b)}
        new == {b \in sent : Chain[b] \cap refused = {}}
    IN
    \/ /\ sent = {}
       /\ asked' = owing
       /\ UNCHANGED <<index, peer, track>>
    \/ /\ sent # {} /\ after \notin index.header
       /\ asked' = owing \cup {p}
       /\ peer' = [peer EXCEPT ![p] = UpdateBlockAvailability(@, PeerTip[p], index.header)]
       /\ UNCHANGED <<index, track>>
    \/ /\ sent # {} /\ after \in index.header
       /\ asked' = owing
       /\ index' = [index EXCEPT !.header = @ \cup new]
       /\ IF refused = {}
          THEN /\ peer' = [peer EXCEPT ![p] = UpdateBlockAvailability(@, PeerTip[p], index'.header)]
               /\ track' = DirectFetch(PeerTip[p], p)
          ELSE /\ peer' = [peer EXCEPT ![p].ban = @ \/ refused \cap index.header = {}]
               /\ UNCHANGED track

\* The answer to getheaders starts at a block of our locator that p has
HeadersAnswer(p) ==
    /\ Handles(p) /\ CsMainFree /\ p \in asked
    /\ UNCHANGED <<conn, received, checking>>
    /\ \E after \in Known(p) \cap index.header : ProcessHeaders(p, after, asked \ {p})

\* A peer that was sent `sendheaders' announces its tip by a headers message
HeadersAnnouncement(p) ==
    /\ Handles(p) /\ CsMainFree /\ News(p) /\ PeerTip[p] # Genesis
    /\ ProcessHeaders(p, Parent[PeerTip[p]], asked)
    /\ UNCHANGED <<conn, received, checking>>

-----------------------------------------------------------------------------
(***************************************************************************)
(* The message thread: messages that bring a block.                        *)
(***************************************************************************)

\* FindPreviousBlockIndex: a block without a valid parent goes no further
Hand(b, p, forced) ==
    IF Parent[b] \in index.header \ index.failed
    THEN [block |-> b, from |-> p, forced |-> forced] ELSE Idle

\* ProcessBlockMessage, up to the hand-over to validation
ProcessBlockMessage(p, b) ==
    /\ Handles(p)
    /\ InFlightFrom(track, b, p) \/ (b \in Unasked[p] /\ Len(track.sender[b]) < MaxSent)
    /\ UNCHANGED <<index, conn, peer, asked, checking>>
    /\ track' = MarkBlockAsReceived(track, b, p, TRUE)
    /\ received' = Hand(b, p, \/ p \in Whitelisted /\ ~IsInitialBlockDownload
                              \/ InFlightFrom(track, b, p))

Partial(p, b) == [hash |-> b, partial |-> TRUE]

\* ProcessBlockTxnMessage: the missing transactions of a compact block; the call that
\* ProcessCompactBlockMessage makes when nothing is missing is the same
ProcessBlockTxnMessage(p, b) ==
    /\ Handles(p) /\ Contains(track.queue[p], Partial(p, b))
    /\ UNCHANGED <<index, conn, asked, checking>>
    /\ \/ /\ track' = MarkBlockAsReceived(track, b, p, FALSE)
          /\ received' = Hand(b, p, TRUE)
          /\ UNCHANGED peer
       \/ /\ p \notin Good
          /\ track' = removeFromBlockMapNL(track, {b}, p)
          /\ peer' = [peer EXCEPT ![p].ban = TRUE]
          /\ UNCHANGED received

SetPartial(t, b, p) ==
    [t EXCEPT !.queue[p] = [i \in DOMAIN @ |->
        IF @[i].hash = b THEN Partial(p, b) ELSE @[i]]]

\* ProcessCompactBlockMessage
ProcessCompactBlockMessage(p, b) ==
    /\ Handles(p) /\ CsMainFree /\ b \in Compact[p]
    /\ UNCHANGED <<conn, checking>>
    /\ \/ /\ Parent[b] \notin index.header
          /\ asked' = IF IsInitialBlockDownload THEN asked ELSE asked \cup {p}
          /\ UNCHANGED <<index, peer, track, received>>
       \/ /\ Parent[b] \in index.header /\ RefusesHeader(index.header, b)
          /\ peer' = [peer EXCEPT ![p].ban = @ \/ b \notin index.header]
          /\ UNCHANGED <<index, track, asked, received>>
       \/ /\ Parent[b] \in index.header /\ ~RefusesHeader(index.header, b)
          /\ index' = [index EXCEPT !.header = @ \cup {b}]
          /\ UNCHANGED asked
          /\ LET told == [peer EXCEPT ![p] = UpdateBlockAvailability(@, b, index'.header)]
                 inFlight == track.flight[b] # <<>>
                 mine == InFlightFrom(track, b, p)
                 useful == /\ b \notin index.data /\ Work[b] > Work[index.tip]
                           /\ inFlight \/ index.tip \in Recent
                 near == Height[b] <= Height[index.tip] + CompactAhead
                 take == mine \/ (~inFlight /\ track.count[p] < MaxInTransit)
                 marked == MarkBlockAsInFlight(track, {b}, p, TRUE)
             IN
             \/ /\ ~useful \/ (near /\ ~take) \/ (~near /\ inFlight)
                /\ peer' = told
                /\ UNCHANGED <<track, received>>
             \/ /\ useful /\ near /\ take
                /\ peer' = told /\ track' = SetPartial(marked, b, p)
                /\ UNCHANGED received
             \/ /\ useful /\ near /\ take
                /\ p \notin Good /\ ~Contains(track.queue[p], Partial(p, b))
                /\ peer' = [told EXCEPT ![p].ban = TRUE]
                /\ track' = removeFromBlockMapNL(marked, {b}, p)
                /\ UNCHANGED received
             \/ /\ useful /\ near /\ ~take
                /\ Len(track.sender[b]) < MaxSent
                /\ peer' = told /\ track' = MarkBlockAsReceived(track, b, p, FALSE)
                /\ received' = Hand(b, p, TRUE)
             \/ /\ useful /\ ~near /\ ~inFlight
                /\ peer' = told /\ track' = DirectFetch(b, p)
                /\ UNCHANGED received

\* ProcessRejectMessage with REJECT_TOOBUSY, when its log category is on
ProcessRejectMessage(p) ==
    /\ Handles(p) /\ p \notin Good /\ track.queue[p] # <<>>
    /\ UNCHANGED <<index, conn, asked, received, checking>>
    /\ track' = PeerTooBusy(track, p)
    /\ peer' = [peer EXCEPT ![p].busy = TRUE]

-----------------------------------------------------------------------------
(***************************************************************************)
(* Validation: ProcessNewBlockWithAsyncBestChainActivation, the activation *)
(* task, and what both report to the tracker.                              *)
(***************************************************************************)

\* The report starts by collecting the senders of the block
Report(b, verdict, old, target) ==
    [block |-> b, verdict |-> verdict, todo |-> getAllSourcesForBlockNL(track, b),
     old |-> old, target |-> target]

\* CheckBlock, and AcceptBlock under cs_main
AcceptBlock ==
    /\ received # Idle /\ CsMainFree
    /\ UNCHANGED <<conn, peer, track, asked>>
    /\ received' = Idle
    /\ LET b == received.block
           Fail(verdict) == checking' = Report(b, verdict, NoBlock, NoBlock)
           known == [index EXCEPT !.header = @ \cup {b}]
       IN
       IF Fault[b] = "check" THEN Fail("invalid") /\ UNCHANGED index
       ELSE IF RefusesHeader(index.header, b)
            THEN Fail(IF b \in index.header THEN "duplicate" ELSE "invalid") /\ UNCHANGED index
       ELSE IF \/ b \in index.data
               \/ ~received.forced /\ Work[b] <= Work[index.tip]
            THEN index' = [known EXCEPT !.pending = TRUE] /\ UNCHANGED checking
       ELSE IF Fault[b] = "context"
            THEN Fail("invalid")
                 /\ index' = [known EXCEPT !.failed = @ \cup {d \in known.header : b \in Chain[d]}]
       ELSE index' = [known EXCEPT !.data = @ \cup {b}, !.pending = TRUE] /\ UNCHANGED checking

\* FindMostWorkChain
Candidates == {b \in index.data \ index.failed : HaveChain(b) /\ Work[b] > Work[index.tip]}
MostWork == {b \in Candidates : \A d \in Candidates : Work[d] <= Work[b]}

\* ConnectTip for the block after `from' on the way to `target', up to its report
ConnectTip(from, old, target) ==
    LET b == AncestorAt(target, Height[from] + 1)
    IN  Report(b, IF Fault[b] = "connect" THEN "invalid" ELSE "valid", old, target)

ActivateBestChain ==
    /\ index.pending /\ CsMainFree
    /\ UNCHANGED <<conn, peer, track, asked, received>>
    /\ \/ /\ Candidates = {}
          /\ index' = [index EXCEPT !.pending = FALSE]
          /\ UNCHANGED checking
       \/ \E b \in MostWork :
             /\ checking' = ConnectTip(Highest(Chain[b] \cap Chain[index.tip]), index.tip, b)
             /\ UNCHANGED index

\* The position of the first report entry of block b for node p, 0 if there is none
EntryOf(b, p) == SelectInSeq(track.sender[b], LAMBDA e : e.node = p)

\* Only a peer whose block arrives while the same block, and no other, is still in flight
MayAnnounce(b) ==
    /\ ~IsInitialBlockDownload
    /\ InFlightBlocks(track) = {b}

\* One round of the loop of BlockChecked, under the node's state and the tracker's mutex
BlockChecked ==
    /\ ~CsMainFree
    /\ checking.todo # <<>>
    /\ UNCHANGED <<index, conn, asked, received>>
    /\ checking' = [checking EXCEPT !.todo = Tail(@)]
    /\ LET b == checking.block
           p == Head(checking.todo)
           i == EntryOf(b, p)
       IN
       IF i = 0 THEN UNCHANGED <<track, peer>>
       ELSE LET done == [track EXCEPT !.sender[b] = RemoveAt(@, i)]
            IN  /\ track' = IF checking.verdict = "valid" /\ MayAnnounce(b)
                            THEN maybeSetPeerAsAnnouncingHeaderAndIDsNL(done, p) ELSE done
                /\ peer' = IF checking.verdict = "invalid" /\ track.sender[b][i].punish
                           THEN [peer EXCEPT ![p].ban = TRUE] ELSE peer

\* The report is complete: cs_main is released, or the next block is connected.  It is
\* kept until the new chain has more work than the old one.
Reported ==
    /\ ~CsMainFree
    /\ checking.todo = <<>>
    /\ UNCHANGED <<conn, peer, track, asked, received>>
    /\ LET b == checking.block
           bad == {d \in index.header : b \in Chain[d]}
       IN
       IF checking.target = NoBlock THEN checking' = Idle /\ UNCHANGED index
       ELSE IF checking.verdict = "valid"
            THEN /\ index' = [index EXCEPT !.tip = b, !.synced = @ \/ b \in Recent]
                 /\ checking' = IF Work[b] > Work[checking.old] \/ b = checking.target THEN Idle
                                ELSE ConnectTip(b, checking.old, checking.target)
       ELSE /\ index' = [index EXCEPT !.tip = Parent[b], !.failed = @ \cup bad]
            /\ checking' = Idle

-----------------------------------------------------------------------------
(***************************************************************************)
(* The message thread: SendMessages, which gives up when cs_main is taken. *)
(***************************************************************************)

Syncing == {p \in Peer : HasState(p) /\ peer[p].sync}
Fetches(p) == p \in Preferred \/ \A q \in Preferred : ~HasState(q)

\* SendBlockSync: ask one peer for headers, or every peer once headers are recent
StartsSync(p) ==
    /\ ~peer[p].sync
    /\ (Syncing = {} /\ Fetches(p)) \/ index.header \cap Recent # {}

SendBlockSync(p) ==
    asked' = IF StartsSync(p) THEN asked \cup {p} ELSE asked

\* SendRejectsAndCheckIfBanned
SendBanned(p) ==
    /\ Handles(p) /\ CsMainFree /\ peer[p].ban
    /\ UNCHANGED <<index, track, asked, received, checking>>
    /\ peer' = [peer EXCEPT ![p].ban = FALSE]
    /\ conn' = IF p \in Whitelisted THEN conn ELSE [conn EXCEPT ![p] = "drop"]

\* DetectStalling: the window has not moved, or the first block of the queue is late
DetectStalling(p) ==
    /\ Handles(p) /\ CsMainFree /\ ~peer[p].ban
    /\ p \notin Good /\ (p \in track.stalling \/ track.queue[p] # <<>>)
    /\ SendBlockSync(p)
    /\ UNCHANGED <<index, track, received, checking>>
    /\ peer' = [peer EXCEPT ![p].sync = @ \/ StartsSync(p)]
    /\ conn' = [conn EXCEPT ![p] = "drop"]

\* SendGetDataBlocks for a peer that may be asked for more
GetDataBlocks(n, p, late) ==
    \E common \in {LastCommonBlock(n)} :
    \E walk \in {Walk(n, common)} :
    \E flying \in {Flying(walk)} :
    \E wanted \in {Wanted(walk, flying, p, late)} :
    \E blocks \in {Lowest({b \in wanted : Height[b] <= Height[common] + Window},
                         MaxInTransit - track.count[p])} :
        /\ track' = IF track.count[p] = 0 /\ blocks = {} /\ wanted # {}
                    THEN [track EXCEPT !.stalling = @ \cup Staller(flying, p)]
                    ELSE MarkBlockAsInFlight(track, blocks, p, FALSE)
        /\ peer' = [peer EXCEPT ![p] = [n EXCEPT !.common =
                        Highest({common} \cup {b \in walk : HaveChain(b)})]]

SendGetDataBlocks(p) ==
    /\ Handles(p) /\ CsMainFree /\ ~peer[p].ban
    /\ SendBlockSync(p)
    /\ UNCHANGED <<index, conn, received, checking>>
    /\ LET synced == [peer[p] EXCEPT !.sync = @ \/ StartsSync(p)]
       IN  IF /\ ~peer[p].busy
              /\ Fetches(p) \/ ~IsInitialBlockDownload
              /\ track.count[p] < MaxInTransit
           THEN \E n \in {ProcessBlockAvailability(synced, index.header)} :
                IF Interesting(n) THEN \E late \in BOOLEAN : GetDataBlocks(n, p, late)
                ELSE peer' = [peer EXCEPT ![p] = n] /\ UNCHANGED track
           ELSE peer' = [peer EXCEPT ![p] = synced] /\ UNCHANGED track

\* TOOBUSY_RETRY_DELAY has passed
CanSend(p) ==
    /\ HasState(p) /\ peer[p].busy
    /\ UNCHANGED <<index, conn, track, asked, received, checking>>
    /\ peer' = [peer EXCEPT ![p].busy = FALSE]

-----------------------------------------------------------------------------
(***************************************************************************)
(* Connections: the socket thread.                                         *)
(***************************************************************************)

\* AcceptConnection or ConnectNode, InitializeNode and the version handshake
InitializeNode(p) ==
    /\ conn[p] = "out"
    /\ UNCHANGED <<index, peer, track, asked, received, checking>>
    /\ conn' = [conn EXCEPT ![p] = "up"]

\* A socket error or the peer closes the connection
CloseSocket(p) ==
    /\ conn[p] = "up" /\ p \notin Good
    /\ UNCHANGED <<index, peer, track, asked, received, checking>>
    /\ conn' = [conn EXCEPT ![p] = "drop"]

\* ThreadSocketHandler takes the dropped peers out of vNodes
DisconnectNodes ==
    /\ \E p \in Peer : conn[p] = "drop"
    /\ UNCHANGED <<index, peer, track, asked, received, checking>>
    /\ conn' = [p \in Peer |-> IF conn[p] = "drop" THEN "held" ELSE conn[p]]

\* DeleteNode and FinalizeNode, once the message thread does not hold the node
FinalizeNode(p) ==
    /\ conn[p] = "held" /\ CsMainFree
    /\ received # Idle => received.from # p
    /\ UNCHANGED <<index, received, checking>>
    /\ conn' = [conn EXCEPT ![p] = "gone"]
    /\ peer' = [peer EXCEPT ![p] = FreshNode]
    /\ track' = ClearPeer(track, p)
    /\ asked' = asked \ {p}

Sends(p) == SendBanned(p) \/ DetectStalling(p) \/ SendGetDataBlocks(p)
Tells(p) == ProcessInvMessage(p) \/ HeadersAnnouncement(p)
Brings(p, b) ==
    \/ ProcessBlockMessage(p, b)
    \/ ProcessBlockTxnMessage(p, b)
    \/ ProcessCompactBlockMessage(p, b)

Next ==
    \/ \E p \in Peer :
        \/ Tells(p) \/ HeadersAnswer(p) \/ ProcessRejectMessage(p) \/ Sends(p) \/ CanSend(p)
        \/ InitializeNode(p) \/ CloseSocket(p) \/ FinalizeNode(p)
        \/ \E b \in Known(p) \ {Genesis} : Brings(p, b)
    \/ AcceptBlock \/ ActivateBestChain \/ BlockChecked \/ Reported
    \/ DisconnectNodes

Spec == Init /\ [][Next]_vars

\* A peer sends a block that it was asked for
BringsAsked(p) ==
    \E b \in Known(p) \ {Genesis} : InFlightFrom(track, b, p) /\ ProcessBlockMessage(p, b)

\* A good peer answers and announces; the threads go on; a peer that owes a block is
\* timed out.  SendMessages and FinalizeNode only try cs_main, and try again.
Fairness ==
    /\ \A p \in Good :
        /\ WF_vars(InitializeNode(p))
        /\ WF_vars(Tells(p))
        /\ WF_vars(HeadersAnswer(p))
        /\ SF_vars(SendGetDataBlocks(p))
        /\ WF_vars(BringsAsked(p))
    /\ \A p \in Peer \ Good :
        /\ SF_vars(SendBanned(p) \/ DetectStalling(p))
        /\ SF_vars(FinalizeNode(p))
    /\ WF_vars(AcceptBlock)
    /\ WF_vars(BlockChecked \/ Reported)
    /\ SF_vars(ActivateBestChain)
    /\ WF_vars(DisconnectNodes)

FairSpec == Spec /\ Fairness

-----------------------------------------------------------------------------
(***************************************************************************)
(* Properties.                                                             *)
(***************************************************************************)

\* The tracker's map, the nodes' queues and counters agree; what it holds belongs to
\* nodes that have a state, so that a staller has one (the assertion in
\* SendGetDataBlocks) and nothing is left when the last peer goes (the ones in ClearPeer).
TrackerConsistent ==
    /\ \A p \in Peer :
        /\ track.count[p] = Len(track.queue[p])
        /\ track.count[p] <= MaxInTransit
        /\ \A b \in Block :
            Cardinality({i \in DOMAIN track.flight[b] : track.flight[b][i] = p})
            = Cardinality({i \in DOMAIN track.queue[p] : track.queue[p][i].hash = b})
        /\ \/ track.queue[p] # <<>> \/ p \in track.stalling
           \/ \E b \in Block : \E e \in Range(track.sender[b]) : e.node = p
           => HasState(p)
    /\ track.downloading = Cardinality({p \in Peer : track.count[p] > 0})
    /\ received # Idle => HasState(received.from)

\* The chain of every peer that answers, or one with as much work, is ours
Synced == \A p \in Good : Work[index.tip] >= Work[PeerTip[p]]

\* The sender of a valid block becomes an announcer if it can: the third condition of
\* BlockChecked is "that there are currently no other blocks in flight".
AnnouncerChosen ==
    [][ /\ checking # checking' /\ checking # Idle /\ checking.todo # <<>>
        /\ checking.verdict = "valid" /\ ~IsInitialBlockDownload
        /\ InFlightBlocks(track) \subseteq {checking.block}
        /\ Compact[Head(checking.todo)] # {} /\ conn[Head(checking.todo)] = "up"
        /\ EntryOf(checking.block, Head(checking.todo)) # 0
        => Contains(track'.announcing, Head(checking.todo)) ]_vars

\* The chain of a peer that answers becomes ours, whatever the other peers do: no block
\* stays asked for from a peer that has gone, is too busy or never sends it.
Fetched == []<>Synced
=============================================================================
