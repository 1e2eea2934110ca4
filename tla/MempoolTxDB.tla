------------------------------ MODULE MempoolTxDB ------------------------------
(* The database of the mempool transactions that were moved out of memory             *)
(* (mempooltxdb.cpp, tx_mempool_info.cpp) and what survives a restart: mempool.dat and *)
(* the cross-reference key that says that the file and the database belong together    *)
(* (txmempool.cpp).  Callers push tasks; one worker merges them into batches and       *)
(* commits the batches.                                                                *)
EXTENDS Integers, Sequences, FiniteSets

CONSTANTS Txn,
          QueueCap,     \* size of the task queue
          MaxWrappers,  \* CTransactionWrapper objects made in one run of the node
          MaxDumps,     \* mempool.dat files written
          MaxStops      \* starts of the node after the first

VARIABLES main,      \* what the thread that starts and stops the node is doing
          mapTx,     \* [Txn -> wrapper of the entry, NoEntry when not in the mempool]
          owned,     \* wrappers that still hold their transaction in memory
          wrappers,  \* wrappers made so far
          todo,      \* entries of mempool.dat that LoadMempool has still to read
          seen,      \* the keys GetTxKeys returned to CheckMempoolTxDBNL
          queue,     \* tasks pushed by the callers
          tasks,     \* tasks the worker has popped and not yet visited
          adds, removes,  \* the coalescing batch: [Txn -> wrapper or NoEntry], set of Txn
          written,   \* wrappers to reset, their transactions having been written
          worker,    \* FALSE once an exception has ended the thread and closed the queue
          db,        \* on disk: [keys, count, xref]
          file,      \* on disk: mempool.dat, NoFile or [id, entry]
          stops

pvars == <<mapTx, owned, wrappers>>
wvars == <<tasks, adds, removes, written, worker>>
vars == <<main, mapTx, owned, wrappers, todo, seen, queue, tasks, adds, removes, written,
          worker, db, file, stops>>

NoEntry == 0
NoFile == [id |-> 0, entry |-> [t \in Txn |-> "none"]]
EmptyDb == [keys |-> {}, count |-> 0, xref |-> 0]
NoAdds == [t \in Txn |-> NoEntry]

InPool == {t \in Txn : mapTx[t] # NoEntry}
IsInMemory(t) == mapTx[t] \in owned
OnDisk == {t \in InPool : ~IsInMemory(t)}
LastDump == IF file.id > db.xref THEN file.id ELSE db.xref

(* smtx is held, shared or not, by the thread that waits for the worker; the entries   *)
(* of the mempool change under the unique lock only.                                   *)
Unlocked == main \in {"loading", "up"}

Init ==
  /\ main = "down"
  /\ mapTx = [t \in Txn |-> NoEntry] /\ owned = {} /\ wrappers = 0
  /\ todo = {} /\ seen = {}
  /\ queue = <<>> /\ tasks = <<>> /\ adds = NoAdds /\ removes = {} /\ written = {}
  /\ worker = TRUE
  /\ db = EmptyDb /\ file = NoFile /\ stops = 0

(* PushWait: the caller waits for space; the push fails, and the assertion after it    *)
(* ends the process, once the worker has closed the queue.                             *)
Push(new) == worker /\ Len(queue) + Len(new) <= QueueCap /\ queue' = queue \o new

(* AddUncheckedNL of a transaction that is in memory.                                  *)
AddUnchecked(t) ==
  /\ Unlocked /\ mapTx[t] = NoEntry /\ wrappers < MaxWrappers
  /\ wrappers' = wrappers + 1
  /\ mapTx' = [mapTx EXCEPT ![t] = wrappers'] /\ owned' = owned \cup {wrappers'}
  /\ UNCHANGED <<main, todo, seen, queue, wvars, db, file, stops>>

(* removeUncheckedNL: whether the transaction is to be removed from the database is    *)
(* decided by where its wrapper says that it is now.                                   *)
RemoveUnchecked(t) ==
  /\ Unlocked /\ mapTx[t] # NoEntry
  /\ IF IsInMemory(t) THEN UNCHANGED queue ELSE Push(<<[op |-> "remove", tx |-> t]>>)
  /\ mapTx' = [mapTx EXCEPT ![t] = NoEntry]
  /\ UNCHANGED <<main, owned, wrappers, todo, seen, wvars, db, file, stops>>

(* One round of the loop of SaveTxsToDisk, under the shared lock.                      *)
SaveTxsToDisk(t) ==
  /\ Unlocked \/ main \in {"syncing", "checking"}
  /\ mapTx[t] # NoEntry /\ IsInMemory(t)
  /\ Push(<<[op |-> "add", tx |-> t, w |-> mapTx[t]]>>)
  /\ UNCHANGED <<main, pvars, todo, seen, wvars, db, file, stops>>

(* One round of ResubmitEntriesToMempoolNL: the entry gets a new wrapper that has the  *)
(* transaction where the old one has it.                                               *)
Resubmit(t) ==
  /\ Unlocked /\ mapTx[t] # NoEntry /\ wrappers < MaxWrappers
  /\ wrappers' = wrappers + 1
  /\ mapTx' = [mapTx EXCEPT ![t] = wrappers']
  /\ owned' = IF IsInMemory(t) THEN owned \cup {wrappers'} ELSE owned
  /\ UNCHANGED <<main, todo, seen, queue, wvars, db, file, stops>>

(* ----- the worker ----- *)

(* A mutant: the removal that is in the batch stays there.                             *)
BatchAddOnly(t, w) ==
  /\ adds' = IF adds[t] = NoEntry THEN [adds EXCEPT ![t] = w] ELSE adds
  /\ UNCHANGED removes

(* Batch::Add and Batch::Remove: one undoes the other.                                 *)
BatchAdd(t, w) ==
  IF t \in removes THEN removes' = removes \ {t} /\ UNCHANGED adds
  ELSE /\ adds' = IF adds[t] = NoEntry THEN [adds EXCEPT ![t] = w] ELSE adds
       /\ UNCHANGED removes

BatchRemove(t) ==
  IF adds[t] # NoEntry THEN adds' = [adds EXCEPT ![t] = NoEntry] /\ UNCHANGED removes
  ELSE removes' = removes \cup {t} /\ UNCHANGED adds

BatchEmpty == adds = NoAdds /\ removes = {}

(* PopAllWait.                                                                         *)
PopAll ==
  /\ main # "down" /\ worker /\ tasks = <<>> /\ BatchEmpty /\ written = {} /\ queue # <<>>
  /\ tasks' = queue /\ queue' = <<>>
  /\ UNCHANGED <<main, pvars, todo, seen, adds, removes, written, worker, db, file, stops>>

(* The batch is committed before a sync or an invoke task and after the last task.     *)
MustCommit ==
  /\ main # "down" /\ worker /\ written = {} /\ ~BatchEmpty
  /\ tasks # <<>> => Head(tasks).op \in {"sync", "setxref", "rmxref"}

(* Commit, up to the synchronous write of the batch.                                   *)
Commit ==
  /\ MustCommit
  /\ LET added == {t \in Txn : adds[t] # NoEntry}
     IN /\ db' = [keys |-> (db.keys \cup added) \ removes,
                  count |-> db.count + Cardinality(added) - Cardinality(removes),
                  xref |-> 0]
        /\ written' = {adds[t] : t \in added}
  /\ adds' = NoAdds /\ removes' = {}
  /\ UNCHANGED <<main, pvars, todo, seen, queue, tasks, worker, file, stops>>

(* A mutant: the batch that was not written is taken for written.                      *)
WriteFailsUnnoticed ==
  /\ MustCommit
  /\ written' = {adds[t] : t \in {u \in Txn : adds[u] # NoEntry}}
  /\ adds' = NoAdds /\ removes' = {}
  /\ UNCHANGED <<main, pvars, todo, seen, queue, tasks, worker, db, file, stops>>

(* WriteBatch throws: the worker drops the batch, closes the queue and ends.           *)
WriteFails ==
  /\ MustCommit
  /\ worker' = FALSE
  /\ tasks' = <<>> /\ adds' = NoAdds /\ removes' = {} /\ written' = {}
  /\ UNCHANGED <<main, pvars, todo, seen, queue, db, file, stops>>

(* Commit, its updates: ResetTransaction on one of the wrappers.                       *)
ResetTransaction ==
  /\ main # "down"
  /\ \E w \in written : written' = written \ {w} /\ owned' = owned \ {w}
  /\ UNCHANGED <<main, mapTx, wrappers, todo, seen, queue, tasks, adds, removes, worker, db,
                 file, stops>>

(* What the task that has been waited for lets its caller do.                          *)
Synchronized ==
  CASE main = "clearing" -> "up"
    [] main = "syncing"  -> "checking"
    [] main = "dumping"  -> "marked"
    [] OTHER             -> main

Visit ==
  /\ main # "down" /\ worker /\ tasks # <<>> /\ written = {}
  /\ LET task == Head(tasks)
     IN /\ task.op \in {"sync", "setxref", "rmxref"} => BatchEmpty
        /\ CASE task.op = "add" ->
                  /\ IF task.w \in owned THEN BatchAdd(task.tx, task.w)
                     ELSE UNCHANGED <<adds, removes>>
                  /\ UNCHANGED <<main, db>>
             [] task.op = "remove" -> BatchRemove(task.tx) /\ UNCHANGED <<main, db>>
             [] task.op = "clear"  -> /\ adds' = NoAdds /\ removes' = {} /\ db' = EmptyDb
                                      /\ UNCHANGED main
             [] task.op = "setxref" -> /\ db' = [db EXCEPT !.xref = task.id]
                                       /\ UNCHANGED <<main, adds, removes>>
             [] task.op = "rmxref" -> /\ db' = [db EXCEPT !.xref = 0]
                                      /\ UNCHANGED <<main, adds, removes>>
             [] task.op = "sync"   -> main' = Synchronized /\ UNCHANGED <<db, adds, removes>>
  /\ tasks' = Tail(tasks)
  /\ UNCHANGED <<pvars, todo, seen, queue, written, worker, file, stops>>

(* ----- start, load, dump, crash ----- *)

(* DoInitMempoolTxDB.  Without a file, or with one that the database does not name,    *)
(* the database is wiped; otherwise its key is removed until the next dump.            *)
Start(persist) ==
  /\ main = "down"
  /\ worker' = TRUE
  /\ db' = IF persist /\ file # NoFile /\ db.xref = file.id THEN [db EXCEPT !.xref = 0]
           ELSE EmptyDb
  /\ IF persist /\ file # NoFile
     THEN main' = "loading" /\ todo' = {t \in Txn : file.entry[t] # "none"}
     ELSE main' = "up" /\ UNCHANGED todo
  /\ UNCHANGED <<pvars, seen, queue, tasks, adds, removes, written, file, stops>>

(* CTxMemPool::Clear: the mempool is emptied, the tasks that are still queued are      *)
(* replaced, and the caller waits.                                                     *)
Clear ==
  /\ worker
  /\ mapTx' = [t \in Txn |-> NoEntry]
  /\ queue' = <<[op |-> "clear"], [op |-> "sync"]>>
  /\ main' = "clearing" /\ todo' = {}
  /\ UNCHANGED <<owned, wrappers, seen, wvars, db, file, stops>>

(* One entry of LoadMempool.  A transaction that is valid enters the mempool with the  *)
(* storage it had; one that is not, or that has expired, is removed from the database. *)
LoadEntry(t, valid) ==
  /\ main = "loading" /\ t \in todo
  /\ IF file.entry[t] = "txdb" /\ t \notin db.keys THEN Clear
     ELSE /\ todo' = todo \ {t}
          /\ IF valid
             THEN /\ mapTx[t] = NoEntry /\ wrappers < MaxWrappers
                  /\ wrappers' = wrappers + 1
                  /\ mapTx' = [mapTx EXCEPT ![t] = wrappers']
                  /\ owned' = IF file.entry[t] = "memory" THEN owned \cup {wrappers'} ELSE owned
                  /\ UNCHANGED queue
             ELSE /\ IF file.entry[t] = "txdb" THEN Push(<<[op |-> "remove", tx |-> t]>>)
                     ELSE UNCHANGED queue
                  /\ UNCHANGED pvars
          /\ UNCHANGED <<main, seen, wvars, db, file, stops>>

(* The end of LoadMempool: CheckMempoolTxDBNL waits for the worker, ...                *)
LoadSync ==
  /\ main = "loading" /\ todo = {} /\ Push(<<[op |-> "sync"]>>)
  /\ main' = "syncing"
  /\ UNCHANGED <<pvars, todo, seen, wvars, db, file, stops>>

(* ... reads the keys, ...                                                             *)
GetTxKeys ==
  /\ main = "checking" /\ seen' = db.keys /\ main' = "comparing"
  /\ UNCHANGED <<pvars, todo, queue, wvars, db, file, stops>>

(* ... and compares them with the mempool.                                             *)
CheckMempoolTxDB ==
  /\ main = "comparing" /\ seen' = {}
  /\ IF Cardinality(seen) = db.count /\ OnDisk = seen
     THEN main' = "up" /\ UNCHANGED <<mapTx, queue, todo>>
     ELSE /\ worker /\ mapTx' = [t \in Txn |-> NoEntry] /\ todo' = {}
          /\ queue' = <<[op |-> "clear"], [op |-> "sync"]>> /\ main' = "clearing"
  /\ UNCHANGED <<owned, wrappers, wvars, db, file, stops>>

(* DumpMempool, in Shutdown, when only the worker is left: the key first, ...          *)
DumpMempool ==
  /\ main = "up" /\ LastDump < MaxDumps
  /\ Push(<<[op |-> "setxref", id |-> LastDump + 1], [op |-> "sync"]>>)
  /\ main' = "dumping"
  /\ UNCHANGED <<pvars, todo, seen, wvars, db, file, stops>>

Halt ==
  /\ main' = "down" /\ stops < MaxStops /\ stops' = stops + 1
  /\ mapTx' = [t \in Txn |-> NoEntry] /\ owned' = {} /\ wrappers' = 0
  /\ todo' = {} /\ seen' = {} /\ queue' = <<>>
  /\ tasks' = <<>> /\ adds' = NoAdds /\ removes' = {} /\ written' = {} /\ worker' = TRUE

(* ... then the file, which replaces the old one by a rename ...                       *)
DumpRename ==
  /\ main = "marked" /\ Halt
  /\ file' = [id |-> db.xref,
              entry |-> [t \in Txn |-> IF mapTx[t] = NoEntry THEN "none"
                                       ELSE IF IsInMemory(t) THEN "memory" ELSE "txdb"]]
  /\ UNCHANGED db

(* ... or, after an exception, not; then the key is removed again.                     *)
DumpFails ==
  /\ main = "marked" /\ Halt /\ db' = [db EXCEPT !.xref = 0] /\ UNCHANGED file

(* The process ends anywhere: a crash, a failed assertion, or a shutdown that does not *)
(* dump because the mempool was still being loaded.                                    *)
Crash == main # "down" /\ Halt /\ UNCHANGED <<db, file>>

Next ==
  \/ \E t \in Txn : AddUnchecked(t) \/ RemoveUnchecked(t) \/ SaveTxsToDisk(t) \/ Resubmit(t)
  \/ PopAll \/ Commit \/ WriteFails \/ ResetTransaction \/ Visit
  \/ \E persist \in BOOLEAN : Start(persist)
  \/ \E t \in Txn, valid \in BOOLEAN : LoadEntry(t, valid)
  \/ LoadSync \/ GetTxKeys \/ CheckMempoolTxDB
  \/ DumpMempool \/ DumpRename \/ DumpFails \/ Crash

Spec == Init /\ [][Next]_vars

(* Once mempool.dat has been loaded, every entry of the mempool that is not in memory  *)
(* can be read from the database: ResetTransaction drops the only copy of a            *)
(* transaction, whatever saves, removals and resubmissions are queued, merged or       *)
(* committed at the time.                                                              *)
Retrievable == main \notin {"loading", "syncing", "checking", "comparing"} => OnDisk \subseteq db.keys

(* A mempool.dat that the database names is complete: every transaction it leaves to   *)
(* the database is there, after any crash, failed write or failed dump.                *)
DumpMatches ==
  db.xref # 0 /\ file.id = db.xref => {t \in Txn : file.entry[t] = "txdb"} \subseteq db.keys

(* CheckMempoolTxDBNL at a moment when the worker has nothing to do: the database has  *)
(* the transactions of the mempool that are not in memory and no other.                *)
Idle == queue = <<>> /\ tasks = <<>> /\ BatchEmpty /\ written = {} /\ worker
InSync == main = "up" /\ Idle => db.keys = OnDisk /\ db.count = Cardinality(db.keys)
================================================================================
