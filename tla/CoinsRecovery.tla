--------------------------- MODULE CoinsRecovery ---------------------------
(***************************************************************************)
(* Writing the coins cache to leveldb in several batches, a crash at any   *)
(* point, and ReplayBlocks at the next start (src/src/txdb.cpp,            *)
(* validation.cpp).  A coin is fixed by its outpoint, so a set of unspent  *)
(* coins is a set of outpoints.                                            *)
(***************************************************************************)
EXTENDS Sequences, FiniteSets

CONSTANTS
  Outpoint,
  Block,
  Genesis,
  Null,        \* the null hash
  Parent,      \* the previous block, Null for the genesis block
  Ancestors,   \* the blocks of the chain that ends in a block
  Created,     \* outputs that a block creates and leaves unspent
  Used,        \* outputs of earlier blocks that it spends
  Passing,     \* outputs that it creates and spends itself
  UtxoOf       \* the unspent outputs after a block

Tip == Block \cup {Null}

(* UpdateCoins over the transactions of a block, and RollforwardBlock.      *)
Apply(b, u) == (u \ (Used[b] \cup Passing[b])) \cup Created[b]

(* ApplyBlockUndo: outputs spent, inputs restored, last transaction first.  *)
Undo(b, u) == (u \ (Created[b] \cup Passing[b])) \cup Used[b]

(* Valid blocks, without the duplicate coinbases from before BIP30.  The    *)
(* coinbase of the genesis block cannot be spent and is no coin.            *)
ASSUME RecoveryAssumption ==
  /\ Genesis \in Block /\ Null \notin Block
  /\ Parent \in [Block -> Tip] /\ \A b \in Block : Parent[b] = Null <=> b = Genesis
  /\ Ancestors \in [Block -> SUBSET Block]
  /\ \A b \in Block : Ancestors[b] = {b} \cup IF b = Genesis THEN {} ELSE Ancestors[Parent[b]]
  /\ \A b \in Block : Genesis \in Ancestors[b]
  /\ Created \in [Block -> SUBSET Outpoint] /\ Used \in [Block -> SUBSET Outpoint]
  /\ Passing \in [Block -> SUBSET Outpoint] /\ UtxoOf \in [Tip -> SUBSET Outpoint]
  /\ UtxoOf[Null] = {} /\ UtxoOf[Genesis] = {}
  /\ \A b \in Block :
       LET u == UtxoOf[Parent[b]] IN
       /\ Used[b] \subseteq u /\ Created[b] \cap u = {} /\ Passing[b] \cap u = {}
       /\ Created[b] \cap Passing[b] = {}
       /\ UtxoOf[b] = Apply(b, u)

VARIABLES
  db,          \* coin records in leveldb
  best,        \* DB_BEST_BLOCK
  heads,       \* DB_HEAD_BLOCKS: << >>, or the new and the old tip
  indexDisk,   \* blocks in the block index database, their data in the files
  undoDisk,    \* ... those with undo data
  phase,       \* what the node is doing
  index, undo, \* mapBlockIndex, and the blocks with undo data
  tip,         \* the best block of the coins cache
  view,        \* the coins that cache and leveldb show together
  dirty        \* entries that DBBatchWrite has still to write

vars == <<db, best, heads, indexDisk, undoDisk, phase, index, undo, tip, view, dirty>>

Phase == {"down", "rollback", "rollforward", "loaded", "run", "flush"}

TypeOK ==
  /\ db \subseteq Outpoint
  /\ best \in Tip
  /\ heads \in {<< >>} \cup Block \X Tip
  /\ indexDisk \subseteq Block /\ undoDisk \subseteq Block
  /\ phase \in Phase
  /\ index \subseteq Block /\ undo \subseteq Block
  /\ tip \in Tip
  /\ view \subseteq Outpoint
  /\ dirty \subseteq Outpoint

Init ==
  /\ db = {} /\ best = Null /\ heads = << >>
  /\ indexDisk = {} /\ undoDisk = {}
  /\ phase = "down"
  /\ index = {} /\ undo = {}
  /\ tip = Null /\ view = {} /\ dirty = {}

disk == <<db, best, heads, indexDisk, undoDisk>>

-----------------------------------------------------------------------------
(* Start.                                                                   *)

(* LoadBlockIndex, and the beginning of ReplayBlocks.  Here tip is the      *)
(* block up to which the branches have been undone or redone.               *)
Load ==
  /\ phase = "down"
  /\ index' = indexDisk /\ undo' = undoDisk
  /\ IF heads = << >>
     THEN phase' = "loaded" /\ tip' = best
     ELSE phase' = "rollback" /\ tip' = IF heads[2] = Null THEN Genesis ELSE heads[2]
  /\ view' = db
  /\ UNCHANGED <<disk, dirty>>

(* A mutant: a block that is not fully applied is not undone.               *)
RollbackClean ==
  /\ phase = "rollback"
  /\ IF tip \in Ancestors[heads[1]]
     THEN phase' = "rollforward" /\ UNCHANGED <<tip, view>>
     ELSE /\ tip \in undo
          /\ view' = IF Created[tip] \subseteq view THEN Undo(tip, view) ELSE view
          /\ tip' = Parent[tip]
          /\ UNCHANGED phase
  /\ UNCHANGED <<disk, index, undo, dirty>>

(* Rollback along the old branch, until LastCommonAncestor.                 *)
Rollback ==
  /\ phase = "rollback"
  /\ IF tip \in Ancestors[heads[1]]
     THEN phase' = "rollforward" /\ UNCHANGED <<tip, view>>
     ELSE /\ tip \in undo
          /\ view' = Undo(tip, view)
          /\ tip' = Parent[tip]
          /\ UNCHANGED phase
  /\ UNCHANGED <<disk, index, undo, dirty>>

(* Roll forward from the fork to the new tip, then TryFlush into the cache. *)
Rollforward ==
  /\ phase = "rollforward"
  /\ IF tip = heads[1]
     THEN phase' = "loaded" /\ UNCHANGED <<tip, view>>
     ELSE \E b \in Ancestors[heads[1]] \cap index :
            /\ Parent[b] = tip
            /\ view' = Apply(b, view)
            /\ tip' = b
            /\ UNCHANGED phase
  /\ UNCHANGED <<disk, index, undo, dirty>>

(* LoadChainTip finds nothing: InitBlockIndex and an empty coins database.  *)
StartEmpty ==
  /\ phase = "loaded" /\ tip = Null
  /\ phase' = "run"
  /\ UNCHANGED <<disk, index, undo, tip, view, dirty>>

-----------------------------------------------------------------------------
(* Running.                                                                 *)

(* AcceptBlock.                                                             *)
Receive(b) ==
  /\ phase = "run"
  /\ b \notin index
  /\ Parent[b] \in index \cup {Null}
  /\ index' = index \cup {b}
  /\ UNCHANGED <<disk, phase, undo, tip, view, dirty>>

ConnectTip(b) ==
  /\ phase = "run" /\ b \in index
  /\ tip = Parent[b]
  /\ undo' = undo \cup {b}
  /\ view' = Apply(b, view)
  /\ tip' = b
  /\ UNCHANGED <<disk, phase, index, dirty>>

DisconnectTip ==
  /\ phase = "run" /\ tip \in undo \ {Genesis}
  /\ view' = Undo(tip, view)
  /\ tip' = Parent[tip]
  /\ UNCHANGED <<disk, phase, index, undo, dirty>>

(* The first part of FlushStateToDisk, alone when only fPeriodicWrite.      *)
WriteIndex ==
  /\ indexDisk' = index
  /\ undoDisk' = undo

PeriodicWrite ==
  /\ phase = "run"
  /\ WriteIndex
  /\ UNCHANGED <<db, best, heads, phase, index, undo, tip, view, dirty>>

(* A mutant: the coins are written without the block index.                 *)
FlushCoinsFirst(d) ==
  /\ phase \in {"run", "loaded"} /\ tip # Null
  /\ \A o \in Outpoint : (o \in db) # (o \in view) => o \in d
  /\ dirty' = d
  /\ phase' = "flush"
  /\ UNCHANGED <<indexDisk, undoDisk, db, best, heads, index, undo, tip, view>>

(* A full flush: the index first, then DBBatchWrite begins.  RewindBlock-   *)
(* Index flushes at the start, before any block is connected.               *)
FlushStateToDisk(d) ==
  /\ phase \in {"run", "loaded"} /\ tip # Null
  /\ \A o \in Outpoint : (o \in db) # (o \in view) => o \in d
  /\ WriteIndex
  /\ dirty' = d
  /\ phase' = "flush"
  /\ UNCHANGED <<db, best, heads, index, undo, tip, view>>

(* A mutant: DB_HEAD_BLOCKS is not consulted when there is no best block.   *)
BestOnly == best

(* old_tip of DBBatchWrite.                                                 *)
OldTip == IF best = Null /\ heads # << >> THEN heads[2] ELSE best

Written(s) == (db \ s) \cup (view \cap s)

(* A partial batch.  The first one marks the transition.                    *)
WritePartial(s) ==
  /\ phase = "flush" /\ s # dirty
  /\ db' = Written(s)
  /\ heads' = <<tip, OldTip>> /\ best' = Null
  /\ dirty' = dirty \ s
  /\ UNCHANGED <<indexDisk, undoDisk, phase, index, undo, tip, view>>

(* The final batch.                                                         *)
WriteFinal ==
  /\ phase = "flush"
  /\ db' = Written(dirty)
  /\ heads' = << >> /\ best' = tip
  /\ dirty' = {}
  /\ phase' = "run"
  /\ UNCHANGED <<indexDisk, undoDisk, index, undo, tip, view>>

-----------------------------------------------------------------------------
(* The process ends at any moment: only what was written remains.           *)
Crash ==
  /\ phase # "down"
  /\ phase' = "down"
  /\ index' = {} /\ undo' = {} /\ tip' = Null /\ view' = {} /\ dirty' = {}
  /\ UNCHANGED disk

Recover ==
  \/ Load
  \/ Rollback
  \/ Rollforward
  \/ StartEmpty
  \/ phase = "loaded" /\ \E d \in SUBSET Outpoint : FlushStateToDisk(d)
  \/ WriteFinal

Next ==
  \/ Load
  \/ Rollback
  \/ Rollforward
  \/ StartEmpty
  \/ \E b \in Block : Receive(b) \/ ConnectTip(b)
  \/ DisconnectTip
  \/ PeriodicWrite
  \/ \E d \in SUBSET Outpoint : FlushStateToDisk(d)
  \/ \E s \in SUBSET dirty : WritePartial(s)
  \/ WriteFinal
  \/ Crash

Safety == Init /\ [][Next]_vars

(* A start that is not interrupted goes on.                                 *)
Spec == Safety /\ WF_vars(Recover)

-----------------------------------------------------------------------------
(* Properties.                                                              *)

(* The database that a crash leaves behind is the set of the best block it  *)
(* names; in the middle of a transition every coin is as before or as after *)
(* it, also when the flush that follows a replay is itself interrupted.     *)
DiskConsistent ==
  IF heads = << >>
  THEN db = UtxoOf[best]
  ELSE /\ best = Null
       /\ \A o \in Outpoint :
            (o \in db) = (o \in UtxoOf[heads[1]]) \/ (o \in db) = (o \in UtxoOf[heads[2]])

(* The coins that the running node works with are those of its tip: replay  *)
(* repairs whatever mixture the crash left, although undo and redo may be   *)
(* applied to coins they have already been applied to.                      *)
ViewIsTip == phase \in {"loaded", "run", "flush"} => view = UtxoOf[tip]

(* The block index that a crash leaves behind knows every block that the    *)
(* coins database names, with the undo data that a rollback needs:          *)
(* ReplayBlocks never fails.                                                *)
Replayable ==
  \A b \in IF heads = << >> THEN {best} ELSE {heads[1], heads[2]} :
    b # Null => Ancestors[b] \subseteq indexDisk \cap undoDisk

(* The assertion of DBBatchWrite, and its meaning: a flush in the middle of *)
(* a transition completes that transition and starts no other.              *)
SameTarget == phase = "flush" /\ heads # << >> => heads[1] = tip

=============================================================================
