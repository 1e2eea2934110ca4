---------------------------- MODULE MerkleTreeStore ----------------------------
(* CMerkleTreeStore (merkletreestore.cpp, merkletreedb.cpp): Merkle trees appended to  *)
(* data files, an index of them in memory, a copy of the index in a database and a     *)
(* flag in the database that says that the copy is out of date.  Every operation runs  *)
(* under cs_merkleTreeStore; what interrupts it is a crash or an I/O error.            *)
EXTENDS Integers, Sequences, FiniteSets, FiniteSetsExt, Functions

CONSTANTS Block,
          Size,       \* [Block -> size of its tree]
          Height,     \* [Block -> Int]
          Suffix,     \* suffixes of the data files: 0..n
          MaxSpace,   \* -maxmerkletreediskspace
          FileSize,   \* GetPreferredMerkleTreeFileSize
          Keep,       \* MIN_BLOCKS_TO_KEEP
          Faults,     \* kinds of faults: "crash", "file", "database"
          MaxFaults

VARIABLES diskPositionMap,   \* [Block -> position or NoPosition]
          nextDiskPosition,
          fileInfoMap,       \* [Suffix -> [height, size], NoInfo without a file]
          diskUsage, writeIndexToDatabase, indexNotLoaded,
          step,              \* where StoreMerkleTree is
          tree,              \* the block of the tree being stored, NoBlock
          chainHeight,
          cursor,            \* PruneDataFilesNL: the next candidate
          removed,           \* PruneDataFilesNL: suffixes of the files removed
          buffer,            \* cells of the tree that stdio has not written yet
          data,              \* on disk: [Suffix -> sequence of cells, NoData]
          index,             \* on disk: [positions, next, infos, usage, outOfSync]
          thrown,            \* history: an exception of the database left StoreMerkleTree
          faults

memory == <<diskPositionMap, nextDiskPosition, fileInfoMap, diskUsage, writeIndexToDatabase,
            indexNotLoaded>>
locals == <<tree, chainHeight, cursor, removed, buffer>>
vars == <<diskPositionMap, nextDiskPosition, fileInfoMap, diskUsage, writeIndexToDatabase,
          indexNotLoaded, step, tree, chainHeight, cursor, removed, buffer, data, index,
          thrown, faults>>

NoBlock == "none"
NoPosition == [suffix |-> -1, offset |-> 0]
NoInfo == [height |-> -1, size |-> 0]
NoData == <<"absent">>
Zero == "zero"

Start0 == [suffix |-> 0, offset |-> 0]
EmptyIndex == [positions |-> [b \in Block |-> NoPosition], next |-> Start0,
               infos |-> [s \in Suffix |-> NoInfo], usage |-> 0, outOfSync |-> TRUE]
Stored == {b \in Block : diskPositionMap[b] # NoPosition}
Cells(b) == [i \in 1..Size[b] |-> <<b, i>>]

Init ==
  /\ diskPositionMap = EmptyIndex.positions /\ nextDiskPosition = Start0
  /\ fileInfoMap = EmptyIndex.infos /\ diskUsage = 0
  /\ writeIndexToDatabase = FALSE /\ indexNotLoaded = TRUE
  /\ step = "down" /\ tree = NoBlock /\ chainHeight = 0 /\ cursor = 0 /\ removed = {}
  /\ buffer = <<>>
  /\ data = [s \in Suffix |-> NoData] /\ index = EmptyIndex
  /\ thrown = FALSE /\ faults = 0

(* What deserialising a tree at an offset of a data file gives: the block of a         *)
(* complete tree, an empty tree where the file has a hole, NoBlock for an error.       *)
TreeAt(cells, offset) ==
  IF cells = NoData \/ offset >= Len(cells) THEN NoBlock
  ELSE IF cells[offset + 1] = Zero THEN Zero
  ELSE LET c == cells[offset + 1]
       IN IF /\ c[2] = 1 /\ offset + Size[c[1]] <= Len(cells)
             /\ \A i \in 1..Size[c[1]] : cells[offset + i] = <<c[1], i>>
          THEN c[1] ELSE NoBlock

(* GetMerkleTree.                                                                      *)
GetMerkleTree(b) == TreeAt(data[diskPositionMap[b].suffix], diskPositionMap[b].offset)

(* fseek and fwrite: a gap before the offset reads as zeros.                           *)
WriteAt(cells, offset, new) ==
  LET old == IF cells = NoData THEN <<>> ELSE cells
      end == IF offset + Len(new) > Len(old) THEN offset + Len(new) ELSE Len(old)
  IN IF new = <<>> THEN old
     ELSE [i \in 1..end |-> IF i > offset /\ i <= offset + Len(new) THEN new[i - offset]
                            ELSE IF i <= Len(old) THEN old[i] ELSE Zero]

(* AddNewDataNL, on a record of the index.                                             *)
AddNewData(x, b, position) ==
  LET end == position.offset + Size[b]
      info == x.infos[position.suffix]
  IN [x EXCEPT !.positions[b] = position,
               !.next = [position EXCEPT !.offset = end],
               !.infos[position.suffix] =
                  [height |-> IF info.height < Height[b] THEN Height[b] ELSE info.height,
                   size |-> end],
               !.usage = x.usage + Size[b]]

Memory == [positions |-> diskPositionMap, next |-> nextDiskPosition, infos |-> fileInfoMap,
           usage |-> diskUsage, outOfSync |-> index.outOfSync]
SetMemory(x) ==
  /\ diskPositionMap' = x.positions /\ nextDiskPosition' = x.next
  /\ fileInfoMap' = x.infos /\ diskUsage' = x.usage

Fault(kind) == kind \in Faults /\ faults < MaxFaults /\ faults' = faults + 1
Return == step' = "idle" /\ tree' = NoBlock /\ chainHeight' = 0 /\ cursor' = 0 /\ removed' = {}
          /\ buffer' = <<>>
NotYet == UNCHANGED <<tree, chainHeight>>

(* SetIndexOutOfSync, with the index of the database otherwise as it is.               *)
SetIndexOutOfSync(flag) ==
  index' = IF writeIndexToDatabase THEN [index EXCEPT !.outOfSync = flag] ELSE index

Over == diskUsage + Size[tree] > MaxSpace

(* StoreMerkleTree, up to the decision whether to prune.                               *)
StoreMerkleTree(b, h) ==
  /\ step = "idle" /\ ~indexNotLoaded /\ b \notin Stored /\ Size[b] <= MaxSpace
  /\ nextDiskPosition.suffix + 1 \in Suffix  \* the bound on the data files
  /\ tree' = b /\ chainHeight' = h
  /\ IF diskUsage + Size[b] <= MaxSpace
     THEN step' = "mark" /\ UNCHANGED index
     ELSE step' = "prune" /\ SetIndexOutOfSync(TRUE)
  /\ UNCHANGED <<memory, cursor, removed, buffer, data, thrown, faults>>

(* One candidate of PruneDataFilesNL; a file that cannot be removed is passed over.    *)
PruneFile ==
  /\ step = "prune" /\ Over /\ cursor \in Suffix
  /\ cursor' = cursor + 1
  /\ IF fileInfoMap[cursor] # NoInfo /\ chainHeight - fileInfoMap[cursor].height > Keep
     THEN \/ /\ data' = [data EXCEPT ![cursor] = NoData]
             /\ diskUsage' = diskUsage - fileInfoMap[cursor].size
             /\ fileInfoMap' = [fileInfoMap EXCEPT ![cursor] = NoInfo]
             /\ diskPositionMap' =
                  [b \in Block |-> IF diskPositionMap[b].suffix = cursor THEN NoPosition
                                   ELSE diskPositionMap[b]]
             /\ nextDiskPosition' = IF nextDiskPosition.suffix = cursor
                                    THEN [nextDiskPosition EXCEPT !.offset = 0]
                                    ELSE nextDiskPosition
             /\ removed' = removed \cup {cursor}
             /\ UNCHANGED faults
          \/ Fault("file") /\ UNCHANGED <<diskPositionMap, nextDiskPosition, fileInfoMap, diskUsage,
                                  removed, data>>
     ELSE UNCHANGED <<diskPositionMap, nextDiskPosition, fileInfoMap, diskUsage, removed, data,
                      faults>>
  /\ UNCHANGED <<writeIndexToDatabase, indexNotLoaded, step, tree, chainHeight, buffer, index,
                 thrown>>

(* RemoveMerkleTreeData, one synchronous batch: the trees that were in the removed     *)
(* files leave the index of the database.                                              *)
PruneIndex ==
  /\ step = "prune" /\ ~(Over /\ cursor \in Suffix)
  /\ index' = IF writeIndexToDatabase /\ removed # {}
              THEN [Memory EXCEPT !.positions = [b \in Block |->
                                    IF index.positions[b].suffix \in removed THEN NoPosition
                                    ELSE index.positions[b]],
                                  !.infos = [s \in Suffix |-> IF s \in removed THEN NoInfo
                                                              ELSE index.infos[s]]]
              ELSE index
  /\ step' = "pruned"
  /\ UNCHANGED <<memory, locals, data, thrown, faults>>

(* A mutant: the tree is stored although it still does not fit.                        *)
PruneEndRegardless ==
  /\ step = "pruned" /\ SetIndexOutOfSync(FALSE)
  /\ step' = "mark" /\ cursor' = 0 /\ removed' = {} /\ NotYet /\ UNCHANGED buffer
  /\ UNCHANGED <<memory, data, thrown, faults>>

(* ResetIndexOutOfSyncNL; then the tree is given up when it still does not fit.        *)
PruneEnd ==
  /\ step = "pruned" /\ SetIndexOutOfSync(FALSE)
  /\ IF Over THEN Return
     ELSE /\ step' = "mark" /\ cursor' = 0 /\ removed' = {} /\ NotYet /\ UNCHANGED buffer
  /\ UNCHANGED <<memory, data, thrown, faults>>

(* Too little space on the disk, or the flag that a write is about to happen.          *)
Mark ==
  /\ step = "mark"
  /\ \/ step' = "write" /\ SetIndexOutOfSync(TRUE) /\ UNCHANGED <<locals, faults>>
     \/ Fault("file") /\ Return /\ UNCHANGED index
  /\ UNCHANGED <<memory, data, thrown>>

WritePosition ==
  IF nextDiskPosition.offset # 0 /\ nextDiskPosition.offset + Size[tree] > FileSize
  THEN [suffix |-> nextDiskPosition.suffix + 1, offset |-> 0] ELSE nextDiskPosition

(* The data file is opened, or created, and the tree written to it; what stdio still   *)
(* buffers is written when the file is closed.  AddNewDataNL follows.                  *)
WriteTree(written) ==
  /\ step = "write" /\ WritePosition.suffix \in Suffix /\ written \in 0..Size[tree]
  /\ data' = [data EXCEPT ![WritePosition.suffix] =
                WriteAt(@, WritePosition.offset, SubSeq(Cells(tree), 1, written))]
  /\ buffer' = SubSeq(Cells(tree), written + 1, Size[tree])
  /\ SetMemory(AddNewData(Memory, tree, WritePosition))
  /\ step' = "index"
  /\ UNCHANGED <<writeIndexToDatabase, indexNotLoaded, tree, chainHeight, cursor, removed,
                 index, thrown, faults>>

(* The file cannot be opened, or only a part of the tree can be written.               *)
WriteFails(written) ==
  /\ step = "write" /\ WritePosition.suffix \in Suffix /\ written \in 0..(Size[tree] - 1)
  /\ Fault("file") /\ Return
  /\ \/ UNCHANGED data
     \/ data' = [data EXCEPT ![WritePosition.suffix] =
                   WriteAt(@, WritePosition.offset, SubSeq(Cells(tree), 1, written))]
  /\ UNCHANGED <<memory, index, thrown>>

(* A mutant: what is known of the data file is not written.                            *)
IndexTreeOnly ==
  /\ step = "index" /\ step' = "reset"
  /\ index' = IF writeIndexToDatabase
              THEN [Memory EXCEPT
                      !.positions = [index.positions EXCEPT ![tree] = diskPositionMap[tree]],
                      !.infos = index.infos]
              ELSE index
  /\ UNCHANGED <<memory, locals, data, thrown, faults>>

(* AddMerkleTreeData, one synchronous batch.                                           *)
IndexTree ==
  /\ step = "index" /\ step' = "reset"
  /\ index' = IF writeIndexToDatabase
              THEN [Memory EXCEPT
                      !.positions = [index.positions EXCEPT ![tree] = diskPositionMap[tree]],
                      !.infos = [index.infos EXCEPT ![diskPositionMap[tree].suffix] =
                                   fileInfoMap[diskPositionMap[tree].suffix]]]
              ELSE index
  /\ UNCHANGED <<memory, locals, data, thrown, faults>>

ResetIndexOutOfSync ==
  /\ step = "reset" /\ step' = "close" /\ SetIndexOutOfSync(FALSE)
  /\ UNCHANGED <<memory, locals, data, thrown, faults>>

Flush ==
  data' = IF buffer = <<>> THEN data
          ELSE [data EXCEPT ![diskPositionMap[tree].suffix] =
                  WriteAt(@, diskPositionMap[tree].offset + Size[tree] - Len(buffer), buffer)]

(* The data file is closed at the end of StoreMerkleTree.                              *)
CloseFile == step = "close" /\ Flush /\ Return /\ UNCHANGED <<memory, index, thrown, faults>>

(* A write to the database throws: the exception leaves StoreMerkleTree, and the data  *)
(* file is closed on the way.                                                          *)
DatabaseThrows ==
  /\ \/ step = "pruned" /\ UNCHANGED data
     \/ step = "prune" /\ ~(Over /\ cursor \in Suffix) /\ removed # {} /\ UNCHANGED data
     \/ step \in {"index", "reset"} /\ Flush
  /\ writeIndexToDatabase /\ Fault("database") /\ Return /\ thrown' = TRUE
  /\ UNCHANGED <<memory, index>>

Crash ==
  /\ step # "down" /\ Fault("crash") /\ step' = "down"
  /\ SetMemory(EmptyIndex) /\ writeIndexToDatabase' = FALSE /\ indexNotLoaded' = TRUE
  /\ tree' = NoBlock /\ chainHeight' = 0 /\ cursor' = 0 /\ removed' = {} /\ buffer' = <<>>
  /\ UNCHANGED <<data, index, thrown>>

(* ReindexMerkleTreeStoreNL: the trees of one data file; the last copy of a tree wins.  *)
ReadFile(x, s) ==
  LET trees == {o \in 0..Len(data[s]) - 1 : TreeAt(data[s], o) \in Block}
      positions == [b \in Block |->
                      IF \E o \in trees : TreeAt(data[s], o) = b
                      THEN [suffix |-> s, offset |-> Max({o \in trees : TreeAt(data[s], o) = b})]
                      ELSE x.positions[b]]
      heights == {Height[TreeAt(data[s], o)] : o \in trees}
  IN [x EXCEPT !.positions = positions,
               !.next = [suffix |-> s, offset |-> Len(data[s])],
               !.infos[s] = [height |-> Max(heights), size |-> Len(data[s])],
               !.usage = @ + Len(data[s])]

(* Every byte of the file belongs to a complete tree.  Otherwise, and when the file is  *)
(* empty, reading it ends in an error.                                                 *)
Readable(s) ==
  /\ Len(data[s]) > 0
  /\ \A i \in 1..Len(data[s]) :
       \E o \in 0..(i - 1) : TreeAt(data[s], o) \in Block /\ i <= o + Size[TreeAt(data[s], o)]

Files == {s \in Suffix : data[s] # NoData}

(* The files in the order of their suffixes.                                           *)
Reindexed ==
  LET upTo[n \in Suffix \cup {-1}] ==
        IF n = -1 THEN [EmptyIndex EXCEPT !.outOfSync = FALSE]
        ELSE IF n \in Files THEN ReadFile(upTo[n - 1], n) ELSE upTo[n - 1]
  IN upTo[Max(Suffix)]

(* LoadMerkleTreeIndexDB.                                                              *)
LoadMerkleTreeIndexDB ==
  /\ step = "down" /\ step' = "idle"
  /\ IF ~index.outOfSync
     THEN SetMemory(index) /\ writeIndexToDatabase' = TRUE /\ indexNotLoaded' = FALSE
          /\ UNCHANGED index
     ELSE IF \A s \in Files : Readable(s)
     THEN /\ SetMemory(Reindexed) /\ index' = Reindexed
          /\ writeIndexToDatabase' = TRUE /\ indexNotLoaded' = FALSE
     ELSE /\ SetMemory(EmptyIndex) /\ index' = EmptyIndex
          /\ writeIndexToDatabase' = FALSE /\ indexNotLoaded' = TRUE
  /\ UNCHANGED <<locals, data, thrown, faults>>

Next ==
  \/ \E b \in Block, h \in Range(Height) : h >= Height[b] /\ StoreMerkleTree(b, h)
  \/ PruneFile \/ PruneIndex \/ PruneEnd \/ Mark
  \/ \E k \in 0..Max(Range(Size)) : WriteTree(k) \/ WriteFails(k)
  \/ IndexTree \/ ResetIndexOutOfSync \/ CloseFile \/ DatabaseThrows
  \/ Crash \/ LoadMerkleTreeIndexDB

Spec == Init /\ [][Next]_vars

(* The space that pruning and storing account for is that of the files the index       *)
(* lists, and it stays within -maxmerkletreediskspace, over failed writes, removals    *)
(* that fail, crashes and reindexing.  An exception of the database is excepted: it    *)
(* leaves files and index apart (README).                                              *)
SpaceKept ==
  ~thrown => /\ diskUsage = MapThenSumSet(LAMBDA s : fileInfoMap[s].size, Suffix)
             /\ diskUsage <= MaxSpace

(* Between two stores, an index in the database that is not marked as out of date is   *)
(* the one in memory: the marks around pruning and writing leave no window in which a  *)
(* part of it was written.                                                             *)
IndexCopy ==
  ~thrown /\ ~index.outOfSync /\ step = "idle" /\ writeIndexToDatabase => index = Memory

(* merkletreedb.h: "Index is not out of sync only when it corresponds with the written *)
(* data files."  A tree that such an index lists is in its file.                       *)
IndexMatchesFiles ==
  step = "idle" /\ ~index.outOfSync =>
    \A b \in Block : index.positions[b] # NoPosition =>
       TreeAt(data[index.positions[b].suffix], index.positions[b].offset) = b
================================================================================
