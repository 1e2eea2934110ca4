----------------------------- MODULE TxnValidator -----------------------------
(* The transaction pipeline: the queues and the loop of CTxnValidator, the       *)
(* parallel validation tasks, the double spend detector, the orphan pool, the    *)
(* pool of time-locked transactions and the set of transactions the mempool      *)
(* holds (txn_validator.cpp, txn_double_spend_detector.cpp, orphan_txns.cpp,     *)
(* time_locked_mempool.cpp, validation.cpp).                                     *)
(*                                                                               *)
(* A transaction is a model value; CONSTANT functions give the outpoints it      *)
(* spends and creates, its lock time and the sequence number of each input.      *)
(* `clock' stands for height and median time past of the tip: it only moves      *)
(* while cs_main is held by someone other than the validator.                    *)
EXTENDS Integers, Sequences, FiniteSets, Functions

CONSTANTS Txn,        \* transactions
          Coins,      \* unspent outpoints of the chain
          Spends,     \* [Txn -> SUBSET outpoints]
          Makes,      \* [Txn -> SUBSET outpoints]
          Lock,       \* [Txn -> Nat], nLockTime, 0 for none
          Seq_,       \* [Txn -> [outpoint -> 0..SequenceFinal]]
          SequenceFinal,
          Bad,        \* transactions the script or policy checks refuse
          Peer,       \* [Txn -> peer the transaction comes from]
          Scenarios,  \* sets of transactions that may arrive in one behaviour
          SyncTxn,    \* transactions that may be submitted synchronously
          QueueCap,   \* mMaxQueueMemSize, in transactions
          Batch,      \* nMax...TxnsToSchedule of each queue
          OrphanCap,  \* GetMaxOrphanTxSize, in transactions
          OrphanBatch,\* limit of orphans in a batch
          LockedCap,  \* mMaxMemory of the time-locked pool, in transactions
          MaxArrivals, MaxClock,
          MaxFaults   \* bound on elapsed times, timeouts, trimmings and exceptions

VARIABLES arriving,   \* [Txn -> how often it may still arrive]
          mStdTxns, mNonStdTxns, mProcessingQueue,
          low,        \* transactions whose input data has low priority
          orphanFlag, \* transactions whose input data is marked as orphan
          finalised,  \* transactions whose input data has source TxSource::finalised
          mOrphanTxns, mCollectedTxData, rejects,
          mKnownSpends,     \* transactions whose inputs the detector holds
          mapTx,            \* transactions of the mempool
          mTransactionMap,  \* transactions of the time-locked pool
          csMain,     \* holder of cs_main: "none", "validator", "sync", "chain"
          phase,      \* validator thread: "wait", "run", "post"
          kind,       \* who runs the batch: "async" or "sync"
          batch,      \* the transactions being validated; a position is an index of it
          chain,      \* [position -> number of the task it belongs to]
          stage, out, \* [position -> how far it is], [position -> its result]
          late,       \* the time for asynchronous tasks has elapsed
          sync,       \* the synchronous call, NoSync when there is none
          clock,
          left,       \* what is left of MaxFaults
          gone,       \* history: finalised transactions whose resubmission was dropped
          silent,     \* history: accepted without an orphan handler
          abandoned,  \* history: given up by a full queue or pool, or an exception
          twice       \* history: some transaction was queued twice

queues == <<mStdTxns, mNonStdTxns, mProcessingQueue>>
data == <<low, orphanFlag, finalised>>
orphanVars == <<mOrphanTxns, mCollectedTxData, rejects>>
pools == <<mKnownSpends, mapTx, mTransactionMap>>
tasks == <<batch, chain, stage, out, late>>
history == <<gone, silent, abandoned, twice>>
vars == <<arriving, queues, data, orphanVars, pools, csMain, phase, kind, tasks,
          sync, clock, left, history>>

(* Finitely many transactions, each with an input; limits are unsigned.             *)
TxnAssumption ==
  /\ IsFiniteSet(Txn)
  /\ \A t \in Txn : Spends[t] # {}
  /\ QueueCap \in Nat /\ Batch \in Nat /\ LockedCap \in Nat /\ MaxFaults \in Nat
  /\ MaxArrivals \in Nat /\ SyncTxn \subseteq Txn

NoSync == [txn |-> {}, stored |-> FALSE]

Init ==
  /\ \E S \in Scenarios : arriving = [t \in Txn |-> IF t \in S THEN MaxArrivals ELSE 0]
  /\ mStdTxns = <<>> /\ mNonStdTxns = <<>> /\ mProcessingQueue = <<>>
  /\ low = {} /\ orphanFlag = {} /\ finalised = {}
  /\ mOrphanTxns = {} /\ mCollectedTxData = {} /\ rejects = {}
  /\ mKnownSpends = {} /\ mapTx = {} /\ mTransactionMap = {}
  /\ csMain = "none" /\ phase = "wait" /\ kind = "async"
  /\ batch = <<>> /\ chain = <<>> /\ stage = <<>> /\ out = <<>> /\ late = FALSE
  /\ sync = NoSync /\ clock = 1
  /\ left = MaxFaults
  /\ gone = {} /\ silent = {} /\ abandoned = {} /\ twice = FALSE

-------------------------------------------------------------------------------
(* Reading transactions and pools.                                             *)

(* The members of a finite set, one after the other.                                *)
Orders(S) == Bijection(1..Cardinality(S), S)

NonFinal(t) ==
  Lock[t] # 0 /\ Lock[t] >= clock /\ \E o \in Spends[t] : Seq_[t][o] # SequenceFinal

SpendersIn(pool, t) == {u \in pool : Spends[u] \cap Spends[t] # {}}

finalisesExistingTransaction(t) ==
  /\ \A o \in Spends[t] : \E u \in mTransactionMap : o \in Spends[u]
  /\ \E u \in mTransactionMap : SpendersIn(mTransactionMap, t) = {u}
  /\ \A o \in Spends[t] : Seq_[t][o] = SequenceFinal

CheckTxConflicts(t) ==
  SpendersIn(mapTx, t)
    \cup IF ~NonFinal(t) /\ ~finalisesExistingTransaction(t)
         THEN SpendersIn(mTransactionMap, t) ELSE {}

HaveInputs(t) == Spends[t] \subseteq Coins \cup UNION {Makes[u] : u \in mapTx}

(* CTxIdTracker: an id is held as long as the input data object that stored it is  *)
(* referenced: from a queue, a batch, the orphan pool or a synchronous call.        *)
Tracked ==
  Range(mStdTxns) \cup Range(mNonStdTxns) \cup Range(mProcessingQueue)
    \cup mOrphanTxns \cup (IF sync.stored THEN sync.txn ELSE {})

DoesNonFinalSpendNonFinal(t) ==
  \E u \in mTransactionMap : Makes[u] \cap Spends[t] # {}

(* Chains of transactions that spend each other, in the order of the batch; a   *)
(* chain is known by its last member, which the next one takes over.            *)
ScheduleChains(q) ==
  {c \in [1..Len(q) -> 1..Len(q)] : \A i \in 1..Len(q) :
     LET found == {c[j] : j \in {j \in 1..(i - 1) :
                     /\ Makes[q[j]] \cap Spends[q[i]] # {}
                     /\ \A k \in (j + 1)..(i - 1) : c[k] # c[j]}}
     IN  IF found = {} THEN c[i] = Cardinality({c[j] : j \in 1..(i - 1)}) + 1
         ELSE c[i] \in found}

-------------------------------------------------------------------------------
(* Arrivals.                                                                    *)

First(s, n) == SubSeq(s, 1, IF n < Len(s) THEN n ELSE Len(s))

(* enqueueStdTxnNL and enqueueNonStdTxnNL for one transaction after the other: what   *)
(* a full queue has no room for is dropped.                                           *)
Enqueue(q, s) == q \o First(s, IF Len(q) < QueueCap THEN QueueCap - Len(q) ELSE 0)

(* A peer's transaction whose id the tracker does not hold; IsTxnKnown is an      *)
(* earlier look at the pools, which may be out of date by now.                    *)
Receive(t) ==
  /\ arriving[t] > 0 /\ t \notin Tracked
  /\ arriving' = [arriving EXCEPT ![t] = @ - 1]
  /\ mStdTxns' = Enqueue(mStdTxns, <<t>>)
  /\ low' = low \ {t} /\ orphanFlag' = orphanFlag \ {t} /\ finalised' = finalised \ {t}
  /\ UNCHANGED <<mNonStdTxns, mProcessingQueue, orphanVars, pools, csMain, phase,
                 kind, tasks, sync, clock, left, history>>

-------------------------------------------------------------------------------
(* The validator thread.                                                        *)

StartTasks(q) ==
  /\ batch' = q
  /\ chain' \in ScheduleChains(q)
  /\ stage' = [i \in 1..Len(q) |-> "start"]
  /\ out' = [i \in 1..Len(q) |-> "none"]
  /\ late' = FALSE

NoTasks ==
  /\ batch' = <<>> /\ chain' = <<>> /\ stage' = <<>> /\ out' = <<>> /\ late' = FALSE

collectTxns(src) == First(src, Batch)

(* One round of threadNewTxnHandler up to the start of the tasks.  TRY_LOCK fails  *)
(* when anyone holds cs_main: the round is then skipped.                           *)
StartBatch ==
  /\ phase = "wait" /\ csMain = "none"
  /\ LET room(q) == Len(q) < 2 * Batch
         s == IF room(mProcessingQueue) THEN collectTxns(mStdTxns) ELSE <<>>
         q1 == mProcessingQueue \o s
         n == IF room(q1) THEN collectTxns(mNonStdTxns) ELSE <<>>
         q2 == q1 \o n
     IN  /\ q2 # <<>>
         /\ mProcessingQueue' = q2
         /\ mStdTxns' = SubSeq(mStdTxns, Len(s) + 1, Len(mStdTxns))
         /\ mNonStdTxns' = SubSeq(mNonStdTxns, Len(n) + 1, Len(mNonStdTxns))
         /\ StartTasks(q2)
  /\ csMain' = "validator" /\ phase' = "run" /\ kind' = "async"
  /\ UNCHANGED <<arriving, data, orphanVars, pools, sync, clock, left, history>>

(* A round that finds no transaction changes nothing.                              *)
EmptyRound ==
  /\ phase = "wait" /\ csMain = "none"
  /\ mStdTxns = <<>> /\ mNonStdTxns = <<>> /\ mProcessingQueue = <<>>
  /\ UNCHANGED vars

(* The end of the time given to asynchronous tasks.                               *)
TimeElapses ==
  /\ phase = "run" /\ kind = "async" /\ ~late /\ left > 0
  /\ late' = TRUE /\ left' = left - 1
  /\ UNCHANGED <<arriving, queues, data, orphanVars, pools, csMain, phase, kind,
                 batch, chain, stage, out, sync, clock, history>>

-------------------------------------------------------------------------------
(* One transaction in one task: TxnValidation, then ProcessValidatedTxn.          *)

Running(i, s) == phase = "run" /\ i \in DOMAIN stage /\ stage[i] = s
HasOrphanHandler == kind = "async"

(* The positions before i in its task; a task takes its transactions in order.     *)
Before(i) == {j \in DOMAIN stage : j < i /\ chain[j] = chain[i]}
Starts(i) == Running(i, "start") /\ \A j \in Before(i) : stage[j] = "done"
ValidSoFar(i) ==
  \A j \in Before(i) :
    (\A k \in Before(i) : k <= j) => out[j] \in {"valid", "resubmitted", "cancelled"}

SetStage(i, s) == stage' = [stage EXCEPT ![i] = s]

(* The result is recorded and the task moves to its next transaction.             *)
Finish(i, result) == out' = [out EXCEPT ![i] = result] /\ SetStage(i, "done")

Cancel(i) ==
  /\ Starts(i) /\ late /\ ValidSoFar(i)
  /\ Finish(i, "cancelled")
  /\ UNCHANGED <<arriving, queues, data, orphanVars, pools, csMain, phase, kind,
                 batch, chain, late, sync, clock, left, history>>

(* Orphans over the limit are evicted, in no particular order.                     *)
limitTxnsSize(os) ==
  \E kept \in SUBSET os :
     /\ IF Cardinality(os) <= OrphanCap THEN kept = os ELSE Cardinality(kept) = OrphanCap
     /\ mOrphanTxns' = kept

(* Missing inputs: a peer's transaction becomes an orphan unless it is one already   *)
(* or a parent was rejected; one that a tip made final always does.                  *)
KeepOrphan(t) ==
  LET rejected == \E u \in rejects : Makes[u] \cap Spends[t] # {} IN
  \/ /\ t \in finalised
     /\ orphanFlag' = orphanFlag \cup {t} /\ mOrphanTxns' = mOrphanTxns \cup {t}
     /\ UNCHANGED rejects
  \/ t \notin finalised /\ t \in orphanFlag /\ UNCHANGED <<orphanFlag, mOrphanTxns, rejects>>
  \/ /\ t \notin finalised /\ t \notin orphanFlag /\ rejected
     /\ rejects' = rejects \cup {t}
     /\ UNCHANGED <<orphanFlag, mOrphanTxns>>
  \/ /\ t \notin finalised /\ t \notin orphanFlag /\ ~rejected
     /\ orphanFlag' = orphanFlag \cup {t}
     /\ limitTxnsSize(mOrphanTxns \cup {t})
     /\ UNCHANGED rejects

(* Any other reason: an orphan is erased, with all of its peer's if it is bad, and a  *)
(* transaction that will not be tried again is remembered.                            *)
DropOrphan(t, why) ==
  LET processed == why # "timeout" \/ t \in low IN
  /\ mOrphanTxns' =
       IF t \notin orphanFlag THEN mOrphanTxns
       ELSE IF why = "bad" THEN {u \in mOrphanTxns : Peer[u] # Peer[t]}
       ELSE IF processed THEN mOrphanTxns \ {t}
       ELSE mOrphanTxns
  /\ rejects' = IF processed THEN rejects \cup {t} ELSE rejects
  /\ UNCHANGED orphanFlag

(* What ProcessValidatedTxn does with a transaction that is not valid; a           *)
(* transaction submitted synchronously is not a peer's and has no orphan handler.  *)
Refuse(i, why) ==
  /\ SetStage(i, why)
  /\ \/ /\ ~HasOrphanHandler \/ (why # "missing" /\ batch[i] \in finalised)
        /\ UNCHANGED <<mOrphanTxns, rejects, orphanFlag>>
     \/ HasOrphanHandler /\ why = "missing" /\ KeepOrphan(batch[i])
     \/ HasOrphanHandler /\ why # "missing" /\ batch[i] \notin finalised /\ DropOrphan(batch[i], why)
  /\ UNCHANGED mCollectedTxData

(* The checks of TxnValidation up to the scripts.                                 *)
CheckTxn(i) ==
  LET t == batch[i] IN
  /\ Starts(i) /\ ~(late /\ ValidSoFar(i))
  /\ \/ /\ \/ t \in mapTx
           \/ CheckTxConflicts(t) # {}
           \/ NonFinal(t) /\ DoesNonFinalSpendNonFinal(t)
        /\ Refuse(i, "conflict") /\ UNCHANGED left
     \/ /\ t \notin mapTx /\ CheckTxConflicts(t) = {}
        /\ ~(NonFinal(t) /\ DoesNonFinalSpendNonFinal(t))
        /\ \/ ~HaveInputs(t) /\ Refuse(i, "missing") /\ UNCHANGED left
           \/ /\ HaveInputs(t)
              /\ \/ /\ kind = "async" /\ left > 0 /\ left' = left - 1
                    /\ Refuse(i, "timeout")
                 \/ t \in Bad /\ Refuse(i, "bad") /\ UNCHANGED left
                 \/ /\ t \notin Bad /\ SetStage(i, "checked")
                    /\ UNCHANGED <<orphanVars, orphanFlag, left>>
  /\ UNCHANGED <<arriving, queues, low, finalised, pools, csMain, phase, kind,
                 batch, chain, out, late, sync, clock, history>>

(* A mutant: the inputs that other tasks hold are not looked at.                   *)
insertTxnInputsBlindly(i) ==
  LET t == batch[i] IN
  /\ Running(i, "checked")
  /\ IF CheckTxConflicts(t) = {}
     THEN /\ mKnownSpends' = mKnownSpends \cup {t}
          /\ SetStage(i, "reserved") /\ UNCHANGED <<orphanVars, orphanFlag>>
     ELSE Refuse(i, "conflict") /\ UNCHANGED mKnownSpends
  /\ UNCHANGED <<arriving, queues, low, finalised, mapTx, mTransactionMap, csMain,
                 phase, kind, batch, chain, out, late, sync, clock, left, history>>

(* Under the detector's mutex: no conflict with the pools, no input already held. *)
insertTxnInputs(i) ==
  LET t == batch[i] IN
  /\ Running(i, "checked")
  /\ IF CheckTxConflicts(t) = {} /\ SpendersIn(mKnownSpends, t) = {}
     THEN /\ mKnownSpends' = mKnownSpends \cup {t}
          /\ SetStage(i, "reserved") /\ UNCHANGED <<orphanVars, orphanFlag>>
     ELSE Refuse(i, "conflict") /\ UNCHANGED mKnownSpends
  /\ UNCHANGED <<arriving, queues, low, finalised, mapTx, mTransactionMap, csMain,
                 phase, kind, batch, chain, out, late, sync, clock, left, history>>

(* A mutant: the exception leaves the inputs with the detector.                    *)
ThrowHolding(i) ==
  /\ Running(i, "reserved") /\ left > 0 /\ left' = left - 1
  /\ Finish(i, "faulted")
  /\ abandoned' = abandoned \cup {batch[i]}
  /\ UNCHANGED <<arriving, queues, data, orphanVars, pools, csMain,
                 phase, kind, batch, chain, late, sync, clock, gone, silent, twice>>

(* HandleTxnProcessingException: an exception after the inputs were reserved.     *)
Throw(i) ==
  /\ Running(i, "reserved") /\ left > 0 /\ left' = left - 1
  /\ mKnownSpends' = mKnownSpends \ {batch[i]}
  /\ Finish(i, "faulted")
  /\ abandoned' = abandoned \cup {batch[i]}
  /\ UNCHANGED <<arriving, queues, data, orphanVars, mapTx, mTransactionMap, csMain,
                 phase, kind, batch, chain, late, sync, clock, gone, silent, twice>>

(* The least set with t and every transaction of the pool that spends an output of a *)
(* member.                                                                           *)
Descendants(pool, t) ==
  {u \in pool : \A D \in SUBSET pool :
     (/\ t \in D
      /\ \A v \in D, w \in pool : Makes[v] \cap Spends[w] # {} => w \in D) => u \in D}

(* A mutant: the transaction goes alone.                                             *)
LimitMempoolSizeAlone(pool, removed) ==
  \/ removed = {} /\ UNCHANGED left
  \/ /\ left > 0 /\ left' = left - 1
     /\ \E t \in pool : removed = {t}

(* LimitMempoolSize: what may be trimmed from the pool, a transaction always with    *)
(* its descendants.                                                                  *)
LimitMempoolSize(pool, removed) ==
  \/ removed = {} /\ UNCHANGED left
  \/ /\ left > 0 /\ left' = left - 1
     /\ \E t \in pool : removed = Descendants(pool, t)

(* CommitTxToMempool: to the time-locked pool or to the mempool.                  *)
Commit(i) ==
  LET t == batch[i] IN
  /\ Running(i, "reserved")
  /\ IF NonFinal(t) \/ finalisesExistingTransaction(t)
     THEN SetStage(i, "locking") /\ UNCHANGED <<mapTx, left>>
     ELSE \E removed \in SUBSET (mapTx \cup {t}) :
            /\ IF kind = "sync" THEN LimitMempoolSize(mapTx \cup {t}, removed)
               ELSE removed = {} /\ UNCHANGED left
            /\ mapTx' = (mapTx \cup {t}) \ removed
            /\ SetStage(i, IF t \in removed THEN "full" ELSE "valid")
  /\ UNCHANGED <<arriving, queues, data, orphanVars, mKnownSpends, mTransactionMap,
                 csMain, phase, kind, batch, chain, out, late, sync, clock, history>>

validateUpdate(t, old) ==
  /\ Spends[t] = Spends[old]
  /\ \A o \in Spends[t] : Seq_[t][o] >= Seq_[old][o]
  /\ \E o \in Spends[t] : Seq_[t][o] > Seq_[old][o]

Finalised(t, old) ==
  \A o \in Spends[t] : Seq_[t][o] > Seq_[old][o] => Seq_[t][o] = SequenceFinal

(* insertNL: a transaction that does not fit is taken out again.                  *)
insertNL(i, t, others) ==
  IF Cardinality(others) < LockedCap
  THEN mTransactionMap' = others \cup {t} /\ SetStage(i, "valid")
  ELSE mTransactionMap' = others /\ SetStage(i, "full")

addOrUpdateTransaction(i) ==
  LET t == batch[i]
      updated == SpendersIn(mTransactionMap, t)
  IN
  /\ Running(i, "locking")
  /\ \/ /\ updated = {} /\ NonFinal(t) /\ insertNL(i, t, mTransactionMap)
     \/ /\ updated = {} /\ ~NonFinal(t)
        /\ SetStage(i, "valid") /\ UNCHANGED mTransactionMap
     \/ \E old \in updated :
          /\ updated = {old} /\ validateUpdate(t, old)
          /\ IF Finalised(t, old)
             THEN mTransactionMap' = mTransactionMap \ {old} /\ SetStage(i, "resubmitted")
             ELSE insertNL(i, t, mTransactionMap \ {old})
     \/ /\ Cardinality(updated) > 1 \/ \E old \in updated : ~validateUpdate(t, old)
        /\ SetStage(i, "full") /\ UNCHANGED mTransactionMap
  /\ UNCHANGED <<arriving, queues, data, orphanVars, mKnownSpends, mapTx, csMain,
                 phase, kind, batch, chain, out, late, sync, clock, left, history>>

(* The last steps of ProcessValidatedTxn: the orphans that wait for an accepted    *)
(* transaction can be found, it is no orphan any more, and the detector lets go.   *)
CollectTxData(i) ==
  /\ phase = "run" /\ i \in DOMAIN stage /\ stage[i] \in {"valid", "resubmitted"}
  /\ IF HasOrphanHandler
     THEN /\ mCollectedTxData' = mCollectedTxData \cup {batch[i]}
          /\ mOrphanTxns' = mOrphanTxns \ {batch[i]}
          /\ UNCHANGED silent
     ELSE silent' = silent \cup {batch[i]} /\ UNCHANGED <<mOrphanTxns, mCollectedTxData>>
  /\ SetStage(i, IF stage[i] = "valid" THEN "accepted" ELSE "again")
  /\ UNCHANGED <<arriving, queues, data, rejects, pools, csMain, phase, kind, batch,
                 chain, out, late, sync, clock, left, gone, abandoned, twice>>

Outcome(s) ==
  CASE s = "accepted" -> "valid"
    [] s = "again" -> "resubmitted"
    [] OTHER -> s

removeTxnInputs(i) ==
  /\ phase = "run" /\ i \in DOMAIN stage
  /\ stage[i] \in {"accepted", "again", "conflict", "missing",
                   "timeout", "bad", "full"}
  /\ mKnownSpends' = mKnownSpends \ {batch[i]}
  /\ Finish(i, Outcome(stage[i]))
  /\ abandoned' = IF stage[i] = "full" THEN abandoned \cup {batch[i]} ELSE abandoned
  /\ UNCHANGED <<arriving, queues, data, orphanVars, mapTx, mTransactionMap, csMain,
                 phase, kind, batch, chain, late, sync, clock, left, gone, silent, twice>>

-------------------------------------------------------------------------------
(* The end of a batch.                                                            *)

AllDone == phase = "run" /\ \A i \in DOMAIN stage : stage[i] = "done"

(* The transactions at these positions, in the order of the tasks.                 *)
InTaskOrder(I) ==
  LET n == Cardinality(I)
      Earlier(i, j) == chain[i] < chain[j] \/ (chain[i] = chain[j] /\ i < j)
  IN  {[k \in 1..n |-> batch[f[k]]] :
         f \in {f \in [1..n -> I] : \A k, l \in 1..n : k < l => Earlier(f[k], f[l])}}

WithResult(r) == {i \in DOMAIN out : out[i] = r}

(* Trimming and notification under cs_main, which is then released.                *)
EndBatch ==
  /\ AllDone /\ kind = "async"
  /\ \E removed \in SUBSET mapTx :
       /\ LimitMempoolSize(mapTx, removed)
       /\ mapTx' = mapTx \ removed
       /\ mCollectedTxData' = mCollectedTxData \ removed
  /\ csMain' = "none" /\ phase' = "post"
  /\ UNCHANGED <<arriving, queues, data, mOrphanTxns, rejects, mKnownSpends,
                 mTransactionMap, kind, tasks, sync, clock, history>>

OrphanChildren(S) == {o \in mOrphanTxns : \E t \in S : Makes[t] \cap Spends[o] # {}}

(* Children in deeper layers, except where several orphans spend the outpoint.      *)
SoleChildren(S) ==
  {o \in mOrphanTxns : \E t \in S : \E p \in Makes[t] :
     {u \in mOrphanTxns : p \in Spends[u]} = {o}}

(* The least set with S and the children of its members.                            *)
DeeperLayers(S) ==
  {o \in mOrphanTxns : \A D \in SUBSET mOrphanTxns :
     S \cup SoleChildren(D) \subseteq D => o \in D}

(* A mutant: only the first orphan of a batch that is full already is taken.         *)
collectFirstTxnForRetry ==
  LET first == OrphanChildren(mCollectedTxData)
  IN {S \in SUBSET first : Cardinality(S) <= OrphanBatch - 1}

(* Every orphan that spends an outpoint of a collected transaction, and, as far as   *)
(* the batch has room for them, the orphans below those.                            *)
collectDependentTxnsForRetry ==
  LET first == OrphanChildren(mCollectedTxData)
      all == DeeperLayers(first)
  IN  IF mCollectedTxData = {} THEN {{}}
      ELSE IF Cardinality(first) >= OrphanBatch THEN {first}
      ELSE {S \in SUBSET all : first \subseteq S
                               /\ (S = all \/ Cardinality(S) >= OrphanBatch)}

(* A mutant: what was looked at is looked at again in the next round.                *)
keepCollectedTxData == UNCHANGED mCollectedTxData

(* collectDependentTxnsForRetry forgets the transactions it looked at.               *)
forgetCollectedTxData == mCollectedTxData' = {}

(* No transaction is in the queues twice.                                            *)
Distinct(std, nonStd, processing) ==
  /\ \A q \in {std, nonStd, processing} : IsInjective(q)
  /\ Range(std) \cap Range(nonStd) = {}
  /\ (Range(std) \cup Range(nonStd)) \cap Range(processing) = {}

(* What the loop does after cs_main is released: timed out transactions go to the    *)
(* queue of low priority; resubmitted ones, orphans to retry and cancelled ones make *)
(* the next processing queue.                                                        *)
SwapQueues ==
  /\ phase = "post"
  /\ \E slow \in InTaskOrder({i \in WithResult("timeout") : batch[i] \notin low}),
       again \in InTaskOrder(WithResult("resubmitted")),
       cancelled \in InTaskOrder(WithResult("cancelled")),
       S \in collectDependentTxnsForRetry :
     \E os \in Orders(S \ Range(cancelled)) :
       LET nonStd == Enqueue(mNonStdTxns, slow)
           next == again \o os \o cancelled
       IN  /\ mNonStdTxns' = nonStd
           /\ mProcessingQueue' = next
           /\ low' = low \cup Range(slow)
           /\ finalised' = finalised \cup Range(again)
           /\ abandoned' = abandoned \cup (Range(slow) \ Range(nonStd))
           /\ twice' = (twice \/ ~Distinct(mStdTxns, nonStd, next))
  /\ forgetCollectedTxData
  /\ phase' = "wait" /\ NoTasks
  /\ UNCHANGED <<arriving, mStdTxns, orphanFlag, mOrphanTxns, rejects, pools, csMain,
                 kind, sync, clock, left, gone, silent>>

-------------------------------------------------------------------------------
(* The other holders of cs_main, and the scheduler.                               *)

(* processValidation for one transaction: cs_main first, then mMainMtx.            *)
SyncLock(t) ==
  /\ t \in SyncTxn /\ arriving[t] > 0 /\ csMain = "none" /\ sync = NoSync
  /\ arriving' = [arriving EXCEPT ![t] = @ - 1]
  /\ csMain' = "sync"
  /\ sync' = [txn |-> {t}, stored |-> t \notin Tracked]
  /\ UNCHANGED <<queues, data, orphanVars, pools, phase, kind, tasks, clock, left,
                 history>>

SyncValidate ==
  /\ csMain = "sync" /\ phase = "wait"
  /\ \E t \in sync.txn : StartTasks(<<t>>)
  /\ phase' = "run" /\ kind' = "sync"
  /\ UNCHANGED <<arriving, queues, data, orphanVars, pools, csMain, sync, clock, left,
                 history>>

(* A transaction that finalises a time-locked one is validated a second time.       *)
SyncAgain ==
  /\ AllDone /\ kind = "sync" /\ out = <<"resubmitted">>
  /\ StartTasks(batch)
  /\ UNCHANGED <<arriving, queues, data, orphanVars, pools, csMain, phase, kind, sync,
                 clock, left, history>>

SyncEnd ==
  /\ AllDone /\ kind = "sync" /\ out # <<"resubmitted">>
  /\ csMain' = "none" /\ phase' = "wait" /\ sync' = NoSync
  /\ NoTasks
  /\ UNCHANGED <<arriving, queues, data, orphanVars, pools, kind, clock, left, history>>

(* Block processing: holds cs_main for a while and moves the tip.                   *)
ChainLock ==
  /\ csMain = "none" /\ clock < MaxClock
  /\ csMain' = "chain"
  /\ UNCHANGED <<arriving, queues, data, orphanVars, pools, phase, kind, tasks, sync,
                 clock, left, history>>

ChainUnlock ==
  /\ csMain = "chain"
  /\ csMain' = "none" /\ clock' = clock + 1
  /\ UNCHANGED <<arriving, queues, data, orphanVars, pools, phase, kind, tasks, sync,
                 left, history>>

(* periodicChecks: what the tip made final leaves the pool and is resubmitted with a  *)
(* new input data object; what is too old is purged.                                  *)
periodicChecks ==
  LET due == {t \in mTransactionMap : ~NonFinal(t)} IN
  \E order \in Orders(due \ Tracked) : \E purged \in SUBSET (mTransactionMap \ due) :
    LET q == Enqueue(mStdTxns, order)
        kept == {t \in due \ Tracked : t \in Range(q)}
    IN
    /\ due \cup purged # {}
    /\ mTransactionMap' = mTransactionMap \ (due \cup purged)
    /\ mStdTxns' = q
    /\ low' = low \ kept /\ orphanFlag' = orphanFlag \ kept
    /\ finalised' = finalised \cup kept
    /\ gone' = gone \cup (due \ kept)
    /\ UNCHANGED <<arriving, mNonStdTxns, mProcessingQueue, orphanVars, mKnownSpends,
                   mapTx, csMain, phase, kind, tasks, sync, clock, left, silent,
                   abandoned, twice>>

-------------------------------------------------------------------------------
TaskStep(i) ==
  \/ Cancel(i) \/ CheckTxn(i) \/ insertTxnInputs(i) \/ Throw(i) \/ Commit(i)
  \/ addOrUpdateTransaction(i) \/ CollectTxData(i) \/ removeTxnInputs(i)

Validator ==
  \/ StartBatch \/ EmptyRound \/ TimeElapses \/ EndBatch \/ SwapQueues
  \/ \E i \in DOMAIN stage : TaskStep(i)

Synchronous == (\E t \in Txn : SyncLock(t)) \/ SyncValidate \/ SyncAgain \/ SyncEnd

Next ==
  \/ \E t \in Txn : Receive(t)
  \/ Validator \/ Synchronous \/ ChainLock \/ ChainUnlock \/ periodicChecks

(* A batch, a synchronous call and a holder of cs_main get to their end.              *)
Work ==
  \/ \E i \in DOMAIN stage : TaskStep(i)
  \/ EndBatch \/ SwapQueues \/ SyncValidate \/ SyncAgain \/ SyncEnd \/ ChainUnlock

(* Rounds of the loop are tried again and again, and cs_main is free again and       *)
(* again: TRY_LOCK needs strong fairness.                                            *)
Fairness == SF_vars(StartBatch) /\ WF_vars(Work)

Spec == Init /\ [][Next]_vars /\ Fairness

-------------------------------------------------------------------------------
(* Properties.                                                                     *)

Idle == phase = "wait" /\ mProcessingQueue = <<>>

(* No outpoint is spent by two transactions of the mempool, or by one of the mempool  *)
(* and one of the time-locked pool, however the tasks of a batch interleave -- as     *)
(* long as no transaction is queued twice (CheckTxConflicts, insertTxnInputs).        *)
NoDoubleSpend ==
  ~twice => \A t, u \in mapTx \cup mTransactionMap :
              t # u => Spends[t] \cap Spends[u] = {}

(* The detector holds inputs only for transactions of tasks that are under way: every *)
(* path of a task, the exception included, gives them back (removeTxnInputs).         *)
DetectorReleased ==
  \A t \in mKnownSpends : \E i \in DOMAIN stage : stage[i] # "done" /\ batch[i] = t

(* Every input of a mempool transaction is a coin or an output of the mempool.        *)
InputsPresent == \A t \in mapTx : HaveInputs(t)

(* Between batches no orphan waits for nothing: one whose inputs are all present is   *)
(* queued, or its parent came without an orphan handler, or it was given up by a full *)
(* queue, a refused commit or an exception (collectDependentTxnsForRetry).            *)
NoStrandedOrphan ==
  Idle => \A o \in mOrphanTxns :
    \/ ~HaveInputs(o)
    \/ o \in Range(mNonStdTxns) \cup Range(mStdTxns) \cup abandoned
    \/ \E p \in silent : Makes[p] \cap Spends[o] # {}

(* A transaction is in the queues at most once: "it was not detected before and       *)
(* scheduled as a non-standard txn" (scheduleOrphanP2PTxnsForReprocessing).           *)
QueuedOnce == ~twice

(* A transaction that became final is resubmitted, not lost (periodicChecks).         *)
Resubmitted == gone = {}

(* What arrives is decided in the end, accepted, refused or kept as an orphan: the     *)
(* queues drain again and again, although each round only starts when TRY_LOCK gets    *)
(* cs_main, and timed out and cancelled transactions are queued again.                 *)
Drains == []<>(mStdTxns = <<>> /\ mNonStdTxns = <<>> /\ mProcessingQueue = <<>>)
===============================================================================
