------------------------------- MODULE MCStorage -------------------------------
(* What the node keeps on disk, for TLC: the coins, the mempool database, the Merkle   *)
(* trees and the block files, side by side.  `part' says which of them a behaviour is  *)
(* about, and the others stay as they are; the state space is the sum of theirs.       *)
EXTENDS CoinsCache, Integers, TLC

CONSTANTS b1, b2, c1, c2,
          Parts

(* Two blocks: in the first the outputs are unspent, in the second a coinbase          *)
(* overwrote one and the other is spent.                                               *)
MCUtxoOf ==
  (b1 :> [o \in Outpoint |-> c1]) @@
  (b2 :> [o \in Outpoint |-> IF o = CHOOSE p \in Outpoint : TRUE THEN c2 ELSE Spent])

Symmetry == Permutations(Span)

VARIABLES part,
  main, mapTx, owned, wrappers, todo, seen, queue, tasks, adds, removes, written, worker,
  mempoolDb, mempoolDat, stops,
  diskPositionMap, nextDiskPosition, fileInfoMap, diskUsage, writeIndexToDatabase,
  indexNotLoaded, storing, tree, chainHeight, cursor, removed, buffer, data, treeIndex,
  thrown, treeFaults,
  pos, vinfoBlockFile, nLastBlockFile, dirtyBlocks, setDirtyFileInfo, tip, best,
  fCheckForPruning, flushing, full, setFilesToPrune, blk, unsynced, blockIndex, coins,
  prunedAt, blockFaults

M == INSTANCE MempoolTxDB WITH Txn <- {"x"}, QueueCap <- 2, MaxWrappers <- 3,
       MaxDumps <- 1, MaxStops <- 2, db <- mempoolDb, file <- mempoolDat

R == INSTANCE MerkleTreeStore WITH Block <- {"t1", "t2", "t3"},
       Size <- [t1 |-> 1, t2 |-> 2, t3 |-> 1], Height <- [t1 |-> 0, t2 |-> 1, t3 |-> 3],
       Suffix <- 0..3, MaxSpace <- 3, FileSize <- 2, Keep <- 1,
       Faults <- {"crash", "file", "database"}, MaxFaults <- 2,
       step <- storing, index <- treeIndex, faults <- treeFaults

F == INSTANCE BlockFiles WITH MaxHeight <- 4, FileSize <- 3, Target <- 4, Buffer <- 1,
       PruneAfter <- 2, Keep <- 1, MaxFaults <- 1,
       step <- flushing, db <- blockIndex, faults <- blockFaults

ms == <<main, mapTx, owned, wrappers, todo, seen, queue, tasks, adds, removes, written,
        worker, mempoolDb, mempoolDat, stops>>
rs == <<diskPositionMap, nextDiskPosition, fileInfoMap, diskUsage, writeIndexToDatabase,
        indexNotLoaded, storing, tree, chainHeight, cursor, removed, buffer, data, treeIndex,
        thrown, treeFaults>>
fs == <<pos, vinfoBlockFile, nLastBlockFile, dirtyBlocks, setDirtyFileInfo, tip, best,
        fCheckForPruning, flushing, full, setFilesToPrune, blk, unsynced, blockIndex, coins,
        prunedAt, blockFaults>>
all == <<part, vars, ms, rs, fs>>

MCInit ==
  /\ part \in Parts /\ Init /\ M!Init /\ R!Init /\ F!Init
  /\ part # "coins" => dbBest = b1

Coins == part = "coins" /\ Next /\ UNCHANGED <<part, ms, rs, fs>>
Mempool == part = "mempool" /\ M!Next /\ UNCHANGED <<part, vars, rs, fs>>
Trees == part = "trees" /\ R!Next /\ UNCHANGED <<part, vars, ms, fs>>
Blocks == part = "blocks" /\ F!Next /\ UNCHANGED <<part, vars, ms, rs>>

MCNext == Coins \/ Mempool \/ Trees \/ Blocks

MCSpec == MCInit /\ [][MCNext]_all

-------------------------------------------------------------------------------
(* A mempool transaction is always found, in memory or in the database.                *)
Retrievable == M!Retrievable

(* A mempool.dat that the next start accepts comes with the transactions it leaves to  *)
(* the database.                                                                       *)
DumpMatches == M!DumpMatches

(* The disk space of the Merkle trees is accounted for and bounded.                    *)
SpaceKept == R!SpaceKept

(* An index of Merkle trees that is not marked as out of date is the one in memory.    *)
IndexCopy == R!IndexCopy

(* ... and corresponds with the data files (merkletreedb.h).                           *)
IndexMatchesFiles == R!IndexMatchesFiles

(* A block that the block index says is on disk is read back from its position.        *)
DataReadable == F!DataReadable

(* The blocks near the tip are never pruned.                                           *)
RecentKept == F!RecentKept
================================================================================
