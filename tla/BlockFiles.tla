------------------------------ MODULE BlockFiles ------------------------------
(* The block files of a pruned node: where AcceptBlock puts a block                    *)
(* (blockfileinfostore.cpp), how FlushStateToDisk removes old files, writes the block  *)
(* index and flushes the coins, one after the other (validation.cpp), and what a       *)
(* restart finds after a crash between two of these.  One chain; a block is its        *)
(* height; every block takes one unit of its file.                                     *)
EXTENDS Integers, Sequences, FiniteSets, FiniteSetsExt, SequencesExt

CONSTANTS MaxHeight,
          FileSize,    \* GetPreferredBlockFileSize
          Target,      \* nPruneTarget
          Buffer,      \* BLOCKFILE_CHUNK_SIZE + UNDOFILE_CHUNK_SIZE
          PruneAfter,  \* PruneAfterHeight
          Keep,        \* MIN_BLOCKS_TO_KEEP
          MaxFaults    \* crashes and files that cannot be removed

VARIABLES pos,        \* [Height -> position, NoPos without data]: mapBlockIndex
          vinfoBlockFile, nLastBlockFile,
          dirtyBlocks, setDirtyFileInfo,
          tip,        \* the height of chainActive
          best,       \* the height of the coins in memory
          fCheckForPruning,
          step,       \* what is being done under cs_main
          full,       \* fDoFullFlush
          setFilesToPrune,
          blk,        \* on disk: [File -> sequence of blocks, NoFile]
          unsynced,   \* blocks in their file and not yet synchronised with the disk
          db,         \* on disk: the block index, [pos, info, last]
          coins,      \* on disk: the height of the coins
          prunedAt,   \* the highest tip at which files were chosen to be removed
          faults

index == <<pos, vinfoBlockFile, nLastBlockFile, dirtyBlocks, setDirtyFileInfo>>
disk == <<blk, unsynced, db, coins>>
vars == <<pos, vinfoBlockFile, nLastBlockFile, dirtyBlocks, setDirtyFileInfo, tip, best,
          fCheckForPruning, step, full, setFilesToPrune, blk, unsynced, db, coins,
          prunedAt, faults>>

Height == 1..MaxHeight
File == 0..MaxHeight
NoPos == [file |-> -1, at |-> 0]
NoFile == <<-1>>
Empty == [size |-> 0, heightLast |-> 0]
Lost == 0

Init ==
  /\ pos = [b \in Height |-> NoPos] /\ vinfoBlockFile = [f \in File |-> Empty]
  /\ nLastBlockFile = 0 /\ dirtyBlocks = {} /\ setDirtyFileInfo = {}
  /\ tip = 0 /\ best = 0 /\ fCheckForPruning = FALSE
  /\ step = "idle" /\ full = FALSE /\ setFilesToPrune = {}
  /\ blk = [f \in File |-> NoFile] /\ unsynced = {}
  /\ db = [pos |-> pos, info |-> vinfoBlockFile, last |-> 0]
  /\ coins = 0 /\ prunedAt = 0 /\ faults = 0

(* FindNextFileWithEnoughEmptySpace.                                                   *)
NextFile ==
  Min({f \in File : f >= nLastBlockFile /\ (vinfoBlockFile[f].size = 0
                                            \/ vinfoBlockFile[f].size + 1 < FileSize)})

(* WriteBlockToDisk: a position after the end leaves a hole.                           *)
Written(file, at, b) ==
  LET old == IF file = NoFile THEN <<>> ELSE file
  IN [i \in 1..Max({Len(old), at + 1}) |->
        IF i = at + 1 THEN b ELSE IF i <= Len(old) THEN old[i] ELSE Lost]

(* CBlockFileInfoStore::FlushBlockFile: the last file is synchronised, no other.       *)
NotIn(f) == {b \in unsynced : pos[b].file # f}

(* A mutant: blocks are taken to come in the order of their heights.                   *)
AddNewBlockInOrder(info, b) == [size |-> info.size + 1, heightLast |-> b]

(* CBlockFileInfo::AddNewBlock.                                                        *)
AddNewBlock(info, b) == [size |-> info.size + 1, heightLast |-> Max({b, info.heightLast})]

(* AcceptBlock: FindBlockPos, WriteBlockToDisk and the entry of the block index.  The  *)
(* block may start a new chunk of its file.                                            *)
AcceptBlock(b, chunk) ==
  /\ step = "idle" /\ pos[b] = NoPos
  /\ LET at == vinfoBlockFile[NextFile].size
     IN /\ pos' = [pos EXCEPT ![b] = [file |-> NextFile, at |-> at]]
        /\ blk' = [blk EXCEPT ![NextFile] = Written(@, at, b)]
        /\ vinfoBlockFile' =
             [vinfoBlockFile EXCEPT ![NextFile] = AddNewBlock(@, b)]
  /\ unsynced' = {b} \cup (IF NextFile # nLastBlockFile THEN NotIn(nLastBlockFile)
                            ELSE unsynced)
  /\ nLastBlockFile' = NextFile
  /\ dirtyBlocks' = dirtyBlocks \cup {b} /\ setDirtyFileInfo' = setDirtyFileInfo \cup {NextFile}
  /\ fCheckForPruning' = chunk /\ step' = IF chunk THEN "accepted" ELSE "idle"
  /\ UNCHANGED <<tip, best, full, setFilesToPrune, db, coins, prunedAt, faults>>

(* ConnectTip and DisconnectTip read the block from its file and move the coins in     *)
(* memory; FlushStateToDisk runs before UpdateTip.  ConnectTip may start a new chunk   *)
(* of the undo file.                                                                   *)
Move(to, chunk) ==
  /\ step = "idle" /\ best' = to /\ fCheckForPruning' = chunk /\ step' = "moved"
  /\ UNCHANGED <<index, tip, full, setFilesToPrune, disk, prunedAt, faults>>
ConnectTip(chunk) == tip < MaxHeight /\ pos[tip + 1] # NoPos /\ Move(tip + 1, chunk)
DisconnectTip == tip > 0 /\ pos[tip] # NoPos /\ Move(tip - 1, FALSE)

(* FindFilesToPrune goes through the files until the usage is below the target; one    *)
(* that may have a block near the tip is passed over.                                  *)
Usage == MapThenSumSet(LAMBDA f : vinfoBlockFile[f].size, File)
Prunable(lastBlock) ==
  {f \in File : /\ f < nLastBlockFile /\ vinfoBlockFile[f].size # 0
                /\ vinfoBlockFile[f].heightLast <= lastBlock}
FindFilesToPrune ==
  LET candidates == Prunable(tip - Keep)
      before(f) == MapThenSumSet(LAMBDA g : vinfoBlockFile[g].size,
                                 {g \in candidates : g < f})
  IN IF tip <= PruneAfter THEN {}
     ELSE {f \in candidates : Usage - before(f) + Buffer >= Target}

(* FindFilesToPruneManual.                                                             *)
FindFilesToPruneManual(height) ==
  Prunable(IF tip < Keep THEN height ELSE Min({height, tip - Keep}))

(* FlushStateToDisk returns; ConnectTip and DisconnectTip go on with UpdateTip.        *)
Return == step' = "idle" /\ tip' = best

(* A mutant: the index is written before the last file is synchronised.                *)
DecideUnsynced(files, all, write) ==
  /\ setFilesToPrune' = files
  /\ prunedAt' = IF files # {} THEN Max({tip, prunedAt}) ELSE prunedAt
  /\ full' = (all \/ files # {})
  /\ IF full' \/ write THEN step' = "unlink" /\ UNCHANGED tip ELSE Return
  /\ UNCHANGED <<index, best, blk, unsynced, db, coins, faults>>

(* FlushStateToDisk, up to FlushBlockFile: which files to remove, and whether to write *)
(* the index (write) and the coins too (all).                                          *)
Decide(files, all, write) ==
  /\ setFilesToPrune' = files
  /\ prunedAt' = IF files # {} THEN Max({tip, prunedAt}) ELSE prunedAt
  /\ full' = (all \/ files # {})
  /\ IF full' \/ write
     THEN step' = "unlink" /\ unsynced' = NotIn(nLastBlockFile) /\ UNCHANGED tip
     ELSE Return /\ UNCHANGED unsynced
  /\ UNCHANGED <<index, best, blk, db, coins, faults>>

AutoPrune == IF fCheckForPruning THEN FindFilesToPrune ELSE {}
FlushStateToDisk(all, write) ==
  /\ CASE step = "accepted" -> ~all /\ ~write  \* FLUSH_STATE_NONE
       [] step = "moved" -> ~write              \* FLUSH_STATE_IF_NEEDED
       [] step = "idle" -> all \/ write         \* FLUSH_STATE_PERIODIC, FLUSH_STATE_ALWAYS
       [] OTHER -> FALSE
  /\ fCheckForPruning' = FALSE
  /\ Decide(AutoPrune, all, write)

(* The command pruneblockchain.                                                        *)
PruneBlockFilesManual(height) ==
  /\ step = "idle" /\ tip >= PruneAfter /\ height <= tip
  /\ UNCHANGED fCheckForPruning
  /\ Decide(FindFilesToPruneManual(height), FALSE, FALSE)

(* UnlinkPrunedFiles, the next file.  A file that cannot be removed is left as it is.  *)
UnlinkPrunedFile(removed) ==
  /\ step = "unlink" /\ setFilesToPrune # {}
  /\ LET f == Min(setFilesToPrune)
         pruned == {b \in Height : pos[b].file = f}
     IN /\ setFilesToPrune' = setFilesToPrune \ {f}
        /\ IF removed
           THEN /\ blk' = [blk EXCEPT ![f] = NoFile]
                /\ pos' = [b \in Height |-> IF b \in pruned THEN NoPos ELSE pos[b]]
                /\ vinfoBlockFile' = [vinfoBlockFile EXCEPT ![f] = Empty]
                /\ dirtyBlocks' = dirtyBlocks \cup pruned
                /\ setDirtyFileInfo' = setDirtyFileInfo \cup {f}
                /\ unsynced' = unsynced \ pruned
                /\ UNCHANGED faults
           ELSE /\ faults < MaxFaults /\ faults' = faults + 1
                /\ UNCHANGED <<blk, pos, vinfoBlockFile, dirtyBlocks, setDirtyFileInfo,
                               unsynced>>
  /\ UNCHANGED <<nLastBlockFile, tip, best, fCheckForPruning, step, full, db, coins,
                 prunedAt>>

(* WriteBatchSync: everything that is dirty, in one batch.                             *)
WriteBatchSync ==
  /\ step = "unlink" /\ setFilesToPrune = {}
  /\ db' = [pos |-> [b \in Height |-> IF b \in dirtyBlocks THEN pos[b] ELSE db.pos[b]],
            info |-> [f \in File |-> IF f \in setDirtyFileInfo THEN vinfoBlockFile[f]
                                     ELSE db.info[f]],
            last |-> nLastBlockFile]
  /\ dirtyBlocks' = {} /\ setDirtyFileInfo' = {}
  /\ IF full THEN step' = "coins" /\ UNCHANGED tip ELSE Return
  /\ UNCHANGED <<pos, vinfoBlockFile, nLastBlockFile, best, fCheckForPruning, full,
                 setFilesToPrune, blk, unsynced, coins, prunedAt, faults>>

(* The coins, and with them the tip that the next start finds.                         *)
FlushCoins ==
  /\ step = "coins" /\ coins' = best /\ full' = FALSE /\ Return
  /\ UNCHANGED <<index, best, fCheckForPruning, setFilesToPrune, blk, unsynced, db,
                 prunedAt, faults>>

(* The machine stops: what a file holds and was not synchronised may be lost.          *)
Crash ==
  /\ step \notin {"down", "reindex"} /\ faults < MaxFaults /\ faults' = faults + 1
  /\ step' = "down" /\ full' = FALSE /\ setFilesToPrune' = {} /\ fCheckForPruning' = FALSE
  /\ \E lost \in SUBSET unsynced :
       blk' = [f \in File |-> [i \in DOMAIN blk[f] |->
                 IF \E b \in lost : pos[b] = [file |-> f, at |-> i - 1] THEN Lost ELSE blk[f][i]]]
  /\ pos' = db.pos /\ vinfoBlockFile' = db.info /\ nLastBlockFile' = db.last
  /\ dirtyBlocks' = {} /\ setDirtyFileInfo' = {} /\ unsynced' = {}
  /\ tip' = coins /\ best' = coins
  /\ UNCHANGED <<db, coins, prunedAt>>

(* The next start reads what Crash left (LoadBlockIndexDB, LoadChainTip) and prunes    *)
(* (PruneAndFlush); a block file that the index names and that is not there stops it   *)
(* until the node is started with -reindex.                                            *)
LoadBlockIndexDB ==
  /\ step = "down"
  /\ IF \A b \in Height : pos[b] # NoPos => blk[pos[b].file] # NoFile
     THEN step' = "accepted" /\ fCheckForPruning' = TRUE
     ELSE step' = "reindex" /\ UNCHANGED fCheckForPruning
  /\ UNCHANGED <<index, tip, best, full, setFilesToPrune, disk, prunedAt, faults>>

(* -reindex with -prune: CleanupBlockRevFiles removes the files after a gap,           *)
(* ReindexAllBlockFiles reads the others and accepts every block whose parents are     *)
(* there, so the highest one last; the index and the coins start from nothing.         *)
Contiguous == {f \in File : \A g \in 0..f : blk[g] # NoFile}
Found(b) ==
  LET places == {p \in [file : Contiguous, at : 0..MaxHeight] :
                   p.at < Len(blk[p.file]) /\ blk[p.file][p.at + 1] = b}
  IN IF places = {} THEN NoPos
     ELSE CHOOSE p \in places :
            \A q \in places : p.file < q.file \/ (p.file = q.file /\ p.at <= q.at)

Reindex ==
  /\ step = "reindex" /\ step' = "idle"
  /\ blk' = [f \in File |-> IF f \in Contiguous THEN blk[f] ELSE NoFile]
  /\ pos' = [b \in Height |-> IF \A c \in 1..b : Found(c) # NoPos THEN Found(b) ELSE NoPos]
  /\ LET in(f) == {b \in Height : pos'[b].file = f}
     IN /\ vinfoBlockFile' =
             [f \in File |-> IF in(f) = {} THEN Empty
                             ELSE [size |-> Max({pos'[b].at + 1 : b \in in(f)}),
                                   heightLast |-> Max(in(f))]]
        /\ nLastBlockFile' = IF pos'[1] = NoPos THEN 0
                             ELSE pos'[Max({b \in Height : pos'[b] # NoPos})].file
        /\ setDirtyFileInfo' = {f \in File : in(f) # {}}
  /\ dirtyBlocks' = {b \in Height : pos'[b] # NoPos}
  /\ db' = [pos |-> [b \in Height |-> NoPos], info |-> [f \in File |-> Empty], last |-> 0]
  /\ tip' = 0 /\ best' = 0 /\ coins' = 0
  /\ UNCHANGED <<unsynced, prunedAt, fCheckForPruning, full, setFilesToPrune, faults>>

Next ==
  \/ \E b \in Height, chunk \in BOOLEAN : AcceptBlock(b, chunk)
  \/ \E chunk \in BOOLEAN : ConnectTip(chunk)
  \/ DisconnectTip
  \/ \E all, write \in BOOLEAN : FlushStateToDisk(all, write)
  \/ \E h \in Height : PruneBlockFilesManual(h)
  \/ \E removed \in BOOLEAN : UnlinkPrunedFile(removed)
  \/ WriteBatchSync \/ FlushCoins
  \/ Crash \/ LoadBlockIndexDB \/ Reindex

Spec == Init /\ [][Next]_vars

(* While the node runs, a block that the index says is on disk is read back from its   *)
(* position: no prune, overwrite, crash, restart or reindex leaves an entry that       *)
(* names a removed file or another block.                                              *)
DataReadable ==
  step \notin {"down", "reindex"} =>
    \A b \in Height : pos[b] # NoPos =>
      /\ blk[pos[b].file] # NoFile /\ pos[b].at < Len(blk[pos[b].file])
      /\ blk[pos[b].file][pos[b].at + 1] = b

(* The blocks of the active chain near the highest tip that files were removed at are  *)
(* still on disk, whatever order the blocks came in and whatever a crash undid.        *)
RecentKept ==
  step \notin {"down", "reindex"} =>
    \A b \in Height : b <= tip /\ b > prunedAt - Keep => pos[b] # NoPos
================================================================================
