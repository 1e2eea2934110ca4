---------------------------- MODULE TxnTasksProofs ----------------------------
(* The invariant of the transaction pipeline, and that the steps of the validation *)
(* tasks keep it.                                                                  *)
EXTENDS TxnValidator, TLAPS

(* The invariant.                                                                  *)

Position == 1..Len(batch)

Stage == {"start", "checked", "reserved", "locking", "valid", "resubmitted", "accepted",
          "again", "full", "conflict", "missing", "timeout", "bad", "done"}

QueueType ==
  /\ mStdTxns \in Seq(Txn) /\ mNonStdTxns \in Seq(Txn) /\ mProcessingQueue \in Seq(Txn)
  /\ mOrphanTxns \subseteq Txn /\ twice \in BOOLEAN
  /\ sync.txn \subseteq Txn

TaskType ==
  /\ batch \in Seq(Txn) /\ chain \in [Position -> Nat] /\ DOMAIN out = Position
  /\ stage \in [Position -> Stage]

PoolType == mKnownSpends \subseteq Txn /\ mapTx \subseteq Txn /\ mTransactionMap \subseteq Txn

(* Who is validating, and what.                                                    *)
Control ==
  /\ phase \in {"wait", "run", "post"} /\ kind \in {"async", "sync"}
  /\ phase = "wait" => batch = <<>>
  /\ phase = "post" => \A i \in Position : stage[i] = "done"
  /\ phase = "run" /\ kind = "async" => csMain = "validator" /\ batch = mProcessingQueue
  /\ phase = "run" /\ kind = "sync" => csMain = "sync" /\ Len(batch) = 1

Once == ~twice => Distinct(mStdTxns, mNonStdTxns, mProcessingQueue)

(* The detector holds inputs for tasks that have reserved them, for all those that  *)
(* are still to commit, and no outpoint twice.                                      *)
Holding(i) ==
  stage[i] \in {"reserved", "locking", "valid", "resubmitted", "accepted", "again", "full"}
ToCommit(i) == stage[i] \in {"reserved", "locking"}

Held == \A t \in mKnownSpends : \E i \in Position : Holding(i) /\ batch[i] = t
Reserved == ~twice => \A i \in Position : ToCommit(i) => batch[i] \in mKnownSpends
Apart(S) == \A t, u \in S : t # u => Spends[t] \cap Spends[u] = {}

(* What was found before the inputs were reserved still holds at the commit.        *)
NoRival(t) == \A u \in mapTx : Spends[u] \cap Spends[t] = {}
NoLockedRival(t) == \A u \in mTransactionMap : Spends[u] \cap Spends[t] = {}

Unrivalled ==
  ~twice => \A i \in Position :
    /\ ToCommit(i) => NoRival(batch[i])
    /\ stage[i] = "reserved" => \/ NonFinal(batch[i]) \/ finalisesExistingTransaction(batch[i])
                                \/ NoLockedRival(batch[i])

Funded == \A i \in Position : stage[i] \in {"checked", "reserved"} => HaveInputs(batch[i])

TaskInv ==
  /\ TaskType /\ PoolType
  /\ Held /\ Reserved /\ Apart(mKnownSpends) /\ Unrivalled /\ NoDoubleSpend
  /\ Funded /\ InputsPresent

TxnInv == QueueType /\ Control /\ Once /\ TaskInv

LEMMA TxnInitially ==
  ASSUME TxnAssumption
  PROVE  Init => TxnInv
<1> SUFFICES ASSUME Init PROVE TxnInv
  OBVIOUS
<1>1. QueueType /\ Control
  <2>1. sync.txn = {} /\ <<>> \in Seq(Txn)
    BY DEF Init, NoSync
  <2> QED BY <2>1 DEF Init, QueueType, Control
<1>2. TaskType /\ Position = {}
  BY DEF Init, TaskType, Position
<1>3. Once
  BY DEF Init, Once, Distinct, IsInjective, Range
<1>4. /\ PoolType /\ Held /\ Reserved /\ Apart(mKnownSpends) /\ Unrivalled /\ NoDoubleSpend
      /\ Funded /\ InputsPresent
  BY <1>2 DEF Init, PoolType, Held, Reserved, Apart, Unrivalled, NoDoubleSpend, Funded, InputsPresent
<1> QED BY <1>1, <1>2, <1>3, <1>4 DEF TxnInv, TaskInv

(* A transaction of a batch has one position, as long as none is queued twice.      *)
LEMMA OnePosition ==
  ASSUME TxnInv, phase = "run", ~twice
  PROVE  \A i, j \in Position : batch[i] = batch[j] => i = j
<1>1. CASE kind = "async"
  <2>1. batch = mProcessingQueue /\ IsInjective(mProcessingQueue) /\ DOMAIN batch = Position
    BY <1>1 DEF TxnInv, Control, Once, Distinct, TaskInv, TaskType, Position
  <2> QED BY <2>1 DEF IsInjective
<1>2. CASE kind = "sync"
  <2>1. Len(batch) = 1
    BY <1>2 DEF TxnInv, Control
  <2> QED BY <2>1 DEF Position
<1> QED BY <1>1, <1>2 DEF TxnInv, Control

-------------------------------------------------------------------------------
(* Steps of the tasks, by what they do to the pools and the detector.               *)

LEMMA TasksKept ==
  ASSUME TaskInv,
         UNCHANGED <<batch, chain, stage, out, mKnownSpends, mapTx, mTransactionMap, clock, twice>>
  PROVE  TaskInv'
<1>1. UNCHANGED <<batch, chain, stage, out, mKnownSpends, mapTx, mTransactionMap, clock, twice>>
  OBVIOUS
<1>2. /\ TaskType' /\ PoolType' /\ Held' /\ Reserved' /\ Apart(mKnownSpends)'
      /\ NoDoubleSpend' /\ InputsPresent' /\ Funded' /\ Position' = Position
  BY <1>1 DEF TaskInv, TaskType, PoolType, Held, Reserved, Apart, NoDoubleSpend, InputsPresent,
              Funded, HaveInputs, Position, Holding, ToCommit
<1>3. Unrivalled'
  <2>1. \A t : /\ NoRival(t)' = NoRival(t) /\ NoLockedRival(t)' = NoLockedRival(t)
               /\ NonFinal(t)' = NonFinal(t)
               /\ finalisesExistingTransaction(t)' = finalisesExistingTransaction(t)
    BY <1>1 DEF NoRival, NoLockedRival, NonFinal, finalisesExistingTransaction, SpendersIn
  <2> QED BY <1>1, <1>2, <2>1 DEF TaskInv, Unrivalled, ToCommit
<1> QED BY <1>2, <1>3 DEF TaskInv

(* No task holds anything, before and after.                                        *)
LEMMA NoneHolding ==
  ASSUME TaskInv, \A i \in Position : ~Holding(i),
         TaskType', \A i \in Position' : stage'[i] \in {"start", "done"},
         mKnownSpends' = mKnownSpends, mTransactionMap' = mTransactionMap,
         mapTx' \subseteq mapTx, InputsPresent', twice => twice'
  PROVE  TaskInv'
<1>1. mKnownSpends' = {}
  BY DEF TaskInv, Held
<1>2. PoolType' /\ Held' /\ Apart(mKnownSpends)'
  BY <1>1 DEF TaskInv, PoolType, Held, Apart
<1>3. Reserved' /\ Unrivalled' /\ Funded'
  BY DEF Reserved, Unrivalled, Funded, ToCommit
<1>4. NoDoubleSpend'
  BY DEF TaskInv, NoDoubleSpend
<1> QED BY <1>2, <1>3, <1>4 DEF TaskInv

Moves(i, s) ==
  /\ stage' = [stage EXCEPT ![i] = s] /\ DOMAIN out' = DOMAIN out
  /\ UNCHANGED <<batch, chain, clock, twice>>

(* What a transaction is tested against only changes with the pools and the tip.     *)
LEMMA SameReading ==
  ASSUME UNCHANGED <<mapTx, mTransactionMap, clock>>
  PROVE  \A t : /\ NoRival(t)' = NoRival(t) /\ NoLockedRival(t)' = NoLockedRival(t)
               /\ NonFinal(t)' = NonFinal(t) /\ HaveInputs(t)' = HaveInputs(t)
               /\ finalisesExistingTransaction(t)' = finalisesExistingTransaction(t)
<1>1. \A t : /\ NoRival(t)' = NoRival(t) /\ NoLockedRival(t)' = NoLockedRival(t)
            /\ NonFinal(t)' = NonFinal(t) /\ HaveInputs(t)' = HaveInputs(t)
  BY DEF NoRival, NoLockedRival, NonFinal, HaveInputs
<1>2. \A t : finalisesExistingTransaction(t)' = finalisesExistingTransaction(t)
  BY DEF finalisesExistingTransaction, SpendersIn
<1> QED BY <1>1, <1>2

(* A task moves on and neither takes nor gives back inputs.                         *)
LEMMA Moved ==
  ASSUME TaskInv, NEW i \in Position, NEW s \in Stage \ {"reserved", "locking"},
         Moves(i, s), UNCHANGED <<mKnownSpends, mapTx, mTransactionMap>>,
         Holding(i) => s \in {"valid", "resubmitted", "accepted", "again", "full"},
         s = "checked" => HaveInputs(batch[i])
  PROVE  TaskInv'
<1>1. Position' = Position
  BY DEF Moves, Position
<1>2. TaskType' /\ PoolType'
  BY <1>1 DEF Moves, TaskInv, TaskType, PoolType
<1>3. \A j \in Position : stage'[j] = IF j = i THEN s ELSE stage[j]
  BY DEF Moves, TaskInv, TaskType
<1>4. Held'
  BY <1>1, <1>3 DEF TaskInv, Held, Holding, Moves
<1>5. Reserved'
  BY <1>1, <1>3 DEF TaskInv, Reserved, ToCommit, Moves
<1>6. Unrivalled' /\ Funded'
  <2>1. UNCHANGED <<mapTx, mTransactionMap, clock, twice, batch>>
    BY DEF Moves
  <2> QED BY <1>1, <1>3, <2>1, SameReading DEF TaskInv, Unrivalled, Funded, ToCommit
<1>7. Apart(mKnownSpends)' /\ NoDoubleSpend' /\ InputsPresent'
  BY DEF TaskInv, Apart, NoDoubleSpend, InputsPresent, HaveInputs, Moves
<1> QED BY <1>2, <1>4, <1>5, <1>6, <1>7 DEF TaskInv

(* A task is done and the detector lets go of its transaction.                       *)
LEMMA Released ==
  ASSUME TxnInv, phase = "run", NEW i \in Position, Moves(i, "done"),
         mKnownSpends' = mKnownSpends \ {batch[i]}, UNCHANGED <<mapTx, mTransactionMap>>
  PROVE  TaskInv'
<1>1. Position' = Position
  BY DEF Moves, Position
<1>2. TaskType' /\ PoolType'
  BY <1>1 DEF Moves, TxnInv, TaskInv, TaskType, PoolType, Stage
<1>3. \A j \in Position : stage'[j] = IF j = i THEN "done" ELSE stage[j]
  BY DEF Moves, TxnInv, TaskInv, TaskType
<1>4. Held'
  BY <1>1, <1>3 DEF TxnInv, TaskInv, Held, Holding, Moves
<1>5. Reserved'
  BY <1>1, <1>3, OnePosition DEF TxnInv, TaskInv, Reserved, ToCommit, Moves
<1>6. Unrivalled' /\ Funded'
  <2>1. UNCHANGED <<mapTx, mTransactionMap, clock, twice, batch>>
    BY DEF Moves
  <2> QED BY <1>1, <1>3, <2>1, SameReading DEF TxnInv, TaskInv, Unrivalled, Funded, ToCommit
<1>7. Apart(mKnownSpends)' /\ NoDoubleSpend' /\ InputsPresent'
  BY DEF TxnInv, TaskInv, Apart, NoDoubleSpend, InputsPresent, HaveInputs, Moves
<1> QED BY <1>2, <1>4, <1>5, <1>6, <1>7 DEF TaskInv

(* The detector registers inputs that nobody else spends or holds.                   *)
LEMMA Registered ==
  ASSUME TxnInv, phase = "run", NEW i \in Position, stage[i] = "checked", Moves(i, "reserved"),
         CheckTxConflicts(batch[i]) = {}, SpendersIn(mKnownSpends, batch[i]) = {},
         mKnownSpends' = mKnownSpends \cup {batch[i]}, UNCHANGED <<mapTx, mTransactionMap>>
  PROVE  TaskInv'
<1> DEFINE t == batch[i]
<1>1. Position' = Position /\ t \in Txn
  BY DEF Moves, Position, TxnInv, TaskInv, TaskType
<1>2. TaskType' /\ PoolType'
  BY <1>1 DEF Moves, TxnInv, TaskInv, TaskType, PoolType, Stage
<1>3. \A j \in Position : stage'[j] = IF j = i THEN "reserved" ELSE stage[j]
  BY DEF Moves, TxnInv, TaskInv, TaskType
<1>4. Held' /\ Reserved'
  BY <1>1, <1>3 DEF TxnInv, TaskInv, Held, Reserved, Holding, ToCommit, Moves
<1>5. Apart(mKnownSpends)'
  BY DEF TxnInv, TaskInv, Apart, SpendersIn
<1>6. NoRival(t) /\ (NonFinal(t) \/ finalisesExistingTransaction(t) \/ NoLockedRival(t))
  BY DEF CheckTxConflicts, SpendersIn, NoRival, NoLockedRival
<1>7. \A u : /\ NoRival(u)' = NoRival(u) /\ NoLockedRival(u)' = NoLockedRival(u)
             /\ NonFinal(u)' = NonFinal(u) /\ HaveInputs(u)' = HaveInputs(u)
             /\ finalisesExistingTransaction(u)' = finalisesExistingTransaction(u)
  BY DEF NoRival, NoLockedRival, NonFinal, finalisesExistingTransaction, SpendersIn, HaveInputs,
         Moves
<1>8. Unrivalled'
  BY <1>1, <1>3, <1>6, <1>7 DEF TxnInv, TaskInv, Unrivalled, ToCommit, Moves
<1>9. Funded' /\ NoDoubleSpend' /\ InputsPresent'
  BY <1>1, <1>3, <1>7 DEF TxnInv, TaskInv, Funded, NoDoubleSpend, InputsPresent, Moves
<1> QED BY <1>2, <1>4, <1>5, <1>8, <1>9 DEF TaskInv

(* Trimming the pool.                                                                *)
LEMMA DescendantsClosed ==
  ASSUME NEW pool, NEW t \in pool
  PROVE  /\ Descendants(pool, t) \subseteq pool
         /\ \A v \in Descendants(pool, t), w \in pool :
              Makes[v] \cap Spends[w] # {} => w \in Descendants(pool, t)
<1> DEFINE Closed(D) == /\ t \in D
                        /\ \A v \in D, w \in pool : Makes[v] \cap Spends[w] # {} => w \in D
<1>1. \A u : u \in Descendants(pool, t)
              <=> u \in pool /\ \A D \in SUBSET pool : Closed(D) => u \in D
  BY DEF Descendants
<1>2. ASSUME NEW v \in Descendants(pool, t), NEW w \in pool, Makes[v] \cap Spends[w] # {}
      PROVE  w \in Descendants(pool, t)
  <2>1. ASSUME NEW D \in SUBSET pool, Closed(D) PROVE w \in D
    BY <1>1, <1>2, <2>1
  <2> HIDE DEF Closed
  <2> QED BY <1>1, <2>1
<1> QED BY <1>1, <1>2

Complete(pool) ==
  \A w \in pool : Spends[w] \subseteq Coins \cup UNION {Makes[u] : u \in pool}

LEMMA Trimmed ==
  ASSUME NEW pool, Complete(pool), NEW removed, LimitMempoolSize(pool, removed)
  PROVE  Complete(pool \ removed)
<1>1. \A v \in removed, w \in pool : Makes[v] \cap Spends[w] # {} => w \in removed
  BY DescendantsClosed DEF LimitMempoolSize
<1>2. ASSUME NEW w \in pool \ removed, NEW o \in Spends[w], o \notin Coins
      PROVE  \E u \in pool \ removed : o \in Makes[u]
  <2>1. PICK u \in pool : o \in Makes[u]
    BY <1>2 DEF Complete
  <2>2. u \notin removed
    BY <1>1, <1>2, <2>1
  <2> QED BY <2>1, <2>2
<1> QED BY <1>2 DEF Complete

LEMMA InputsComplete == InputsPresent <=> Complete(mapTx)
BY DEF InputsPresent, HaveInputs, Complete

(* A transaction enters the mempool.                                                 *)
LEMMA Committed ==
  ASSUME TxnInv, phase = "run", NEW i \in Position, stage[i] = "reserved",
         NEW s \in {"valid", "full"}, Moves(i, s),
         ~NonFinal(batch[i]), ~finalisesExistingTransaction(batch[i]),
         NEW removed, mapTx' = (mapTx \cup {batch[i]}) \ removed,
         removed = {} \/ (kind = "sync" /\ LimitMempoolSize(mapTx \cup {batch[i]}, removed)),
         UNCHANGED <<mKnownSpends, mTransactionMap>>
  PROVE  TaskInv'
<1> DEFINE t == batch[i]
           pool == mapTx \cup {t}
<1>1. Position' = Position /\ t \in Txn
  BY DEF Moves, Position, TxnInv, TaskInv, TaskType
<1>2. TaskType' /\ PoolType'
  BY <1>1 DEF Moves, TxnInv, TaskInv, TaskType, PoolType, Stage
<1>3. \A j \in Position : stage'[j] = IF j = i THEN s ELSE stage[j]
  BY DEF Moves, TxnInv, TaskInv, TaskType
<1>4. Held' /\ Reserved' /\ Apart(mKnownSpends)'
  <2>1. Held'
    BY <1>1, <1>3 DEF TxnInv, TaskInv, Held, Holding, Moves
  <2>2. Reserved' /\ Apart(mKnownSpends)'
    BY <1>1, <1>3 DEF TxnInv, TaskInv, Reserved, Apart, ToCommit, Moves
  <2> QED BY <2>1, <2>2
<1>5. ~twice => NoRival(t) /\ NoLockedRival(t)
  BY DEF TxnInv, TaskInv, Unrivalled, ToCommit
<1>6. NoDoubleSpend'
  <2> SUFFICES ASSUME ~twice, NEW u \in mapTx' \cup mTransactionMap', NEW v \in mapTx' \cup mTransactionMap',
                      u # v
               PROVE  Spends[u] \cap Spends[v] = {}
    BY DEF NoDoubleSpend, Moves
  <2>1. \A x, y \in mapTx \cup mTransactionMap : x # y => Spends[x] \cap Spends[y] = {}
    BY DEF TxnInv, TaskInv, NoDoubleSpend
  <2>2. \A x \in mapTx \cup mTransactionMap : Spends[x] \cap Spends[t] = {}
    BY <1>5 DEF NoRival, NoLockedRival
  <2>3. /\ u = t \/ u \in mapTx \cup mTransactionMap
        /\ v = t \/ v \in mapTx \cup mTransactionMap
    OBVIOUS
  <2> QED BY <2>1, <2>2, <2>3
<1>7. Complete(pool) /\ InputsPresent'
  <2>1. HaveInputs(t) /\ Complete(mapTx)
    BY InputsComplete DEF TxnInv, TaskInv, Funded
  <2>2. Complete(pool)
    BY <2>1 DEF Complete, HaveInputs
  <2>3. Complete(pool \ removed)
    BY <2>2, Trimmed
  <2> QED BY <2>2, <2>3 DEF InputsPresent, HaveInputs, Complete
<1>8. Funded'
  <2>1. CASE removed = {}
    BY <1>1, <1>3, <2>1 DEF TxnInv, TaskInv, Funded, HaveInputs, Moves
  <2>2. CASE kind = "sync"
    <3>1. Position = {i}
      <4>1. Len(batch) = 1
        BY <2>2 DEF TxnInv, Control
      <4> QED BY <4>1 DEF Position
    <3> QED BY <1>1, <1>3, <3>1 DEF Funded
  <2> QED BY <2>1, <2>2
<1>9. Unrivalled'
  <2> SUFFICES ASSUME ~twice, NEW j \in Position, j # i, ToCommit(j)
               PROVE  NoRival(batch[j])'
    <3>1. \A u : /\ NoLockedRival(u)' = NoLockedRival(u) /\ NonFinal(u)' = NonFinal(u)
                 /\ finalisesExistingTransaction(u)' = finalisesExistingTransaction(u)
      BY DEF NoLockedRival, NonFinal, finalisesExistingTransaction, SpendersIn, Moves
    <3>2. \A j \in Position : j = i => ~ToCommit(j)' /\ stage'[j] # "reserved"
      BY <1>3 DEF ToCommit
    <3>3. \A j \in Position : j # i => ToCommit(j)' = ToCommit(j) /\ stage'[j] = stage[j]
      BY <1>3 DEF ToCommit
    <3>4. twice' = twice /\ batch' = batch
      BY DEF Moves
    <3> QED BY <1>1, <3>1, <3>2, <3>3, <3>4 DEF TxnInv, TaskInv, Unrivalled, NoRival
  <2>1. batch[j] # t /\ batch[j] \in mKnownSpends /\ t \in mKnownSpends
    BY OnePosition DEF TxnInv, TaskInv, Reserved, ToCommit
  <2>2. Spends[t] \cap Spends[batch[j]] = {}
    BY <2>1 DEF TxnInv, TaskInv, Apart
  <2>3. NoRival(batch[j])
    BY DEF TxnInv, TaskInv, Unrivalled
  <2> QED BY <2>2, <2>3 DEF NoRival, Moves
<1> QED BY <1>2, <1>4, <1>6, <1>7, <1>8, <1>9 DEF TaskInv

(* The time-locked pool changes: transactions with the same inputs leave it, and the *)
(* one that is committed may take their place.                                       *)
LEMMA LockedReplaced ==
  ASSUME TxnInv, phase = "run", NEW i \in Position, stage[i] = "locking",
         NEW s \in {"valid", "full", "resubmitted"}, Moves(i, s),
         NEW leaving \in SUBSET mTransactionMap, \A u \in leaving : Spends[u] = Spends[batch[i]],
         \/ mTransactionMap' = mTransactionMap \ leaving
         \/ /\ mTransactionMap' = (mTransactionMap \ leaving) \cup {batch[i]}
            /\ \A u \in mTransactionMap \ leaving : Spends[u] \cap Spends[batch[i]] = {},
         UNCHANGED <<mKnownSpends, mapTx>>
  PROVE  TaskInv'
<1> DEFINE t == batch[i]
<1>1. Position' = Position /\ t \in Txn
  BY DEF Moves, Position, TxnInv, TaskInv, TaskType
<1>2. TaskType' /\ PoolType'
  BY <1>1 DEF Moves, TxnInv, TaskInv, TaskType, PoolType, Stage
<1>3. \A j \in Position : stage'[j] = IF j = i THEN s ELSE stage[j]
  BY DEF Moves, TxnInv, TaskInv, TaskType
<1>4. Held' /\ Reserved' /\ Apart(mKnownSpends)'
  BY <1>1, <1>3 DEF TxnInv, TaskInv, Held, Reserved, Apart, Holding, ToCommit, Moves
<1>5. Funded' /\ InputsPresent'
  BY <1>1, <1>3 DEF TxnInv, TaskInv, Funded, InputsPresent, HaveInputs, Moves
<1>6. NoDoubleSpend'
  <2> SUFFICES ASSUME ~twice, NEW u \in mapTx' \cup mTransactionMap', NEW v \in mapTx' \cup mTransactionMap',
                      u # v
               PROVE  Spends[u] \cap Spends[v] = {}
    BY DEF NoDoubleSpend, Moves
  <2>1. \A x, y \in mapTx \cup mTransactionMap : x # y => Spends[x] \cap Spends[y] = {}
    BY DEF TxnInv, TaskInv, NoDoubleSpend
  <2>2. \A x \in mapTx : Spends[x] \cap Spends[t] = {}
    BY DEF TxnInv, TaskInv, Unrivalled, ToCommit, NoRival
  <2> QED BY <2>1, <2>2
<1>7. Unrivalled'
  <2> SUFFICES ASSUME ~twice, NEW j \in Position, j # i, stage[j] = "reserved"
               PROVE  \/ NonFinal(batch[j]) \/ finalisesExistingTransaction(batch[j])'
                      \/ NoLockedRival(batch[j])'
    <3>1. \A u : NoRival(u)' = NoRival(u) /\ NonFinal(u)' = NonFinal(u)
      BY DEF NoRival, NonFinal, Moves
    <3>2. \A j \in Position : j = i => ~ToCommit(j)' /\ stage'[j] # "reserved"
      BY <1>3 DEF ToCommit
    <3>3. \A j \in Position : j # i => ToCommit(j)' = ToCommit(j) /\ stage'[j] = stage[j]
      BY <1>3 DEF ToCommit
    <3>4. twice' = twice /\ batch' = batch
      BY DEF Moves
    <3> QED BY <1>1, <3>1, <3>2, <3>3, <3>4 DEF TxnInv, TaskInv, Unrivalled, NoLockedRival,
              finalisesExistingTransaction, SpendersIn
  <2> DEFINE b == batch[j]
  <2>1. b # t /\ b \in mKnownSpends /\ t \in mKnownSpends
    BY OnePosition DEF TxnInv, TaskInv, Reserved, ToCommit
  <2>2. Spends[t] \cap Spends[b] = {}
    BY <2>1 DEF TxnInv, TaskInv, Apart
  <2>3. NonFinal(b) \/ finalisesExistingTransaction(b) \/ NoLockedRival(b)
    BY DEF TxnInv, TaskInv, Unrivalled
  <2>4. SpendersIn(mTransactionMap', b) = SpendersIn(mTransactionMap, b)
    BY <2>2 DEF SpendersIn
  <2>5. NoLockedRival(b) => NoLockedRival(b)'
    BY <2>2 DEF NoLockedRival, Moves
  <2>6. ASSUME finalisesExistingTransaction(b) PROVE finalisesExistingTransaction(b)'
    <3>1. SpendersIn(mTransactionMap, b)' = SpendersIn(mTransactionMap', b)
      BY DEF SpendersIn, Moves
    <3>2. PICK u \in mTransactionMap : SpendersIn(mTransactionMap, b) = {u}
      BY <2>6 DEF finalisesExistingTransaction
    <3>3. u \in mTransactionMap'
      BY <2>4, <3>2 DEF SpendersIn
    <3>4. \A o \in Spends[b] : \E v \in mTransactionMap' : o \in Spends[v]
      BY <2>2, <2>6 DEF finalisesExistingTransaction
    <3>5. batch'[j] = b
      BY DEF Moves
    <3> QED BY <2>4, <2>6, <3>1, <3>2, <3>3, <3>4, <3>5 DEF finalisesExistingTransaction
  <2> QED BY <2>3, <2>5, <2>6
<1> QED BY <1>2, <1>4, <1>5, <1>6, <1>7 DEF TaskInv

(* A task goes on to the time-locked pool.                                            *)
LEMMA ToLocking ==
  ASSUME TaskInv, NEW i \in Position, stage[i] = "reserved", Moves(i, "locking"),
         UNCHANGED <<mKnownSpends, mapTx, mTransactionMap>>
  PROVE  TaskInv'
<1>1. Position' = Position
  BY DEF Moves, Position
<1>2. TaskType' /\ PoolType'
  BY <1>1 DEF Moves, TaskInv, TaskType, PoolType, Stage
<1>3. \A j \in Position : stage'[j] = IF j = i THEN "locking" ELSE stage[j]
  BY DEF Moves, TaskInv, TaskType
<1>4. Held' /\ Reserved'
  BY <1>1, <1>3 DEF TaskInv, Held, Reserved, Holding, ToCommit, Moves
<1>5. Unrivalled' /\ Funded'
  <2>1. UNCHANGED <<mapTx, mTransactionMap, clock, twice, batch>>
    BY DEF Moves
  <2> QED BY <1>1, <1>3, <2>1, SameReading DEF TaskInv, Unrivalled, Funded, ToCommit
<1>6. Apart(mKnownSpends)' /\ NoDoubleSpend' /\ InputsPresent'
  BY DEF TaskInv, Apart, NoDoubleSpend, InputsPresent, HaveInputs, Moves
<1> QED BY <1>2, <1>4, <1>5, <1>6 DEF TaskInv

(* Transactions leave the time-locked pool at any time.                              *)
LEMMA LockedRemoved ==
  ASSUME TaskInv, UNCHANGED <<batch, chain, stage, out, clock, twice, mKnownSpends, mapTx>>,
         mTransactionMap' \subseteq mTransactionMap
  PROVE  TaskInv'
<1>1. UNCHANGED <<batch, chain, stage, out>> /\ Position' = Position
  BY DEF Position
<1>2. /\ TaskType' /\ PoolType' /\ Held' /\ Reserved' /\ Apart(mKnownSpends)'
      /\ NoDoubleSpend' /\ InputsPresent' /\ Funded'
  BY <1>1 DEF TaskInv, TaskType, PoolType, Held, Reserved, Apart, NoDoubleSpend, InputsPresent,
              Funded, HaveInputs, Holding, ToCommit
<1>3. ASSUME NEW b, finalisesExistingTransaction(b)
      PROVE  finalisesExistingTransaction(b)' \/ NoLockedRival(b)'
  <2>1. PICK u \in mTransactionMap : SpendersIn(mTransactionMap, b) = {u}
    BY <1>3 DEF finalisesExistingTransaction
  <2>2. \A v \in mTransactionMap : v # u => Spends[v] \cap Spends[b] = {}
    BY <2>1 DEF SpendersIn
  <2>3. CASE u \in mTransactionMap'
    <3>1. SpendersIn(mTransactionMap', b) = {u}
      BY <2>1, <2>2, <2>3 DEF SpendersIn
    <3>2. \A o \in Spends[b] : o \in Spends[u]
      BY <1>3, <2>2 DEF finalisesExistingTransaction
    <3> QED BY <1>3, <2>3, <3>1, <3>2 DEF finalisesExistingTransaction, SpendersIn
  <2>4. CASE u \notin mTransactionMap'
    BY <2>2, <2>4 DEF NoLockedRival
  <2> QED BY <2>3, <2>4
<1>4. \A b : /\ NoRival(b)' = NoRival(b) /\ NonFinal(b)' = NonFinal(b)
             /\ NoLockedRival(b) => NoLockedRival(b)'
  BY DEF NoRival, NonFinal, NoLockedRival
<1>5. Unrivalled'
  BY <1>1, <1>3, <1>4 DEF TaskInv, Unrivalled, ToCommit
<1> QED BY <1>2, <1>5 DEF TaskInv

-------------------------------------------------------------------------------
(* Every step keeps the invariant.                                                   *)

LEMMA OrphansTyped ==
  ASSUME TxnInv, NEW i \in Position, NEW why, Refuse(i, why)
  PROVE  mOrphanTxns' \subseteq Txn
<1>1. batch[i] \in Txn /\ mOrphanTxns \subseteq Txn
  BY DEF TxnInv, QueueType, TaskInv, TaskType, Position
<1> QED BY <1>1 DEF Refuse, KeepOrphan, DropOrphan, limitTxnsSize

LEMMA TaskSteps ==
  ASSUME TxnInv, NEW i \in DOMAIN stage, TaskStep(i)
  PROVE  TxnInv'
<1>1. i \in Position /\ DOMAIN stage = Position /\ DOMAIN out = Position /\ batch[i] \in Txn
  BY DEF TxnInv, TaskInv, TaskType, Position
<1>2. phase = "run"
  BY DEF TaskStep, Cancel, CheckTxn, insertTxnInputs, Throw, Commit, addOrUpdateTransaction,
         CollectTxData, removeTxnInputs, Starts, Running
<1>3. UNCHANGED <<mStdTxns, mNonStdTxns, mProcessingQueue, phase, kind, csMain, sync, batch,
                  chain, clock, twice>>
  BY DEF TaskStep, Cancel, CheckTxn, insertTxnInputs, Throw, Commit, addOrUpdateTransaction,
         CollectTxData, removeTxnInputs, queues, history
<1>4. ASSUME Cancel(i) PROVE TaskInv' /\ mOrphanTxns' \subseteq Txn
  <2>1. Moves(i, "done") /\ ~Holding(i) /\ mOrphanTxns' = mOrphanTxns
        /\ UNCHANGED <<mKnownSpends, mapTx, mTransactionMap>>
    BY <1>1, <1>3, <1>4 DEF Cancel, Finish, SetStage, Moves, Holding, Starts, Running, pools, orphanVars
  <2> QED BY <1>1, <2>1, Moved DEF TxnInv, QueueType, Stage
<1>5. ASSUME CheckTxn(i) PROVE TaskInv' /\ mOrphanTxns' \subseteq Txn
  <2>1. PICK s \in {"conflict", "missing", "timeout", "bad", "checked"} :
          /\ stage' = [stage EXCEPT ![i] = s]
          /\ s = "checked" => HaveInputs(batch[i])
    BY <1>5 DEF CheckTxn, Refuse, SetStage
  <2>2. Moves(i, s) /\ ~Holding(i) /\ UNCHANGED <<mKnownSpends, mapTx, mTransactionMap>>
    BY <1>3, <1>5, <2>1 DEF CheckTxn, Moves, Holding, Starts, Running, pools
  <2>3. mOrphanTxns' \subseteq Txn
    BY <1>1, <1>5, OrphansTyped DEF CheckTxn, orphanVars, TxnInv, QueueType
  <2> QED BY <1>1, <2>1, <2>2, <2>3, Moved DEF TxnInv, Stage
<1>6. ASSUME insertTxnInputs(i) PROVE TaskInv' /\ mOrphanTxns' \subseteq Txn
  <2>0. /\ stage[i] = "checked" /\ DOMAIN out' = DOMAIN out
        /\ UNCHANGED <<mapTx, mTransactionMap>>
    BY <1>6 DEF insertTxnInputs, Running
  <2>1. CASE CheckTxConflicts(batch[i]) = {} /\ SpendersIn(mKnownSpends, batch[i]) = {}
    <3>1. /\ Moves(i, "reserved") /\ mKnownSpends' = mKnownSpends \cup {batch[i]}
          /\ mOrphanTxns' = mOrphanTxns
      BY <1>3, <1>6, <2>0, <2>1 DEF insertTxnInputs, SetStage, Moves, orphanVars
    <3> QED BY <1>1, <1>2, <2>0, <2>1, <3>1, Registered DEF TxnInv, QueueType
  <2>2. CASE ~(CheckTxConflicts(batch[i]) = {} /\ SpendersIn(mKnownSpends, batch[i]) = {})
    <3>1. Refuse(i, "conflict") /\ mKnownSpends' = mKnownSpends
      BY <1>6, <2>2 DEF insertTxnInputs
    <3>2. Moves(i, "conflict") /\ ~Holding(i)
      BY <1>3, <2>0, <3>1 DEF Refuse, SetStage, Moves, Holding
    <3> QED BY <1>1, <2>0, <3>1, <3>2, Moved, OrphansTyped DEF TxnInv, Stage
  <2> QED BY <2>1, <2>2
<1>7. ASSUME Throw(i) PROVE TaskInv' /\ mOrphanTxns' \subseteq Txn
  <2>1. /\ Moves(i, "done") /\ mKnownSpends' = mKnownSpends \ {batch[i]}
        /\ UNCHANGED <<mapTx, mTransactionMap, mOrphanTxns>>
    BY <1>1, <1>3, <1>7 DEF Throw, Finish, SetStage, Moves, orphanVars
  <2> QED BY <1>1, <1>2, <2>1, Released DEF TxnInv, QueueType
<1>8. ASSUME Commit(i) PROVE TaskInv' /\ mOrphanTxns' \subseteq Txn
  <2>0. /\ stage[i] = "reserved" /\ DOMAIN out' = DOMAIN out
        /\ UNCHANGED <<mKnownSpends, mTransactionMap, mOrphanTxns>>
    BY <1>8 DEF Commit, Running, orphanVars
  <2>1. CASE NonFinal(batch[i]) \/ finalisesExistingTransaction(batch[i])
    <3>1. Moves(i, "locking") /\ mapTx' = mapTx
      BY <1>3, <1>8, <2>0, <2>1 DEF Commit, SetStage, Moves
    <3> QED BY <1>1, <2>0, <3>1, ToLocking DEF TxnInv, QueueType
  <2>2. CASE ~(NonFinal(batch[i]) \/ finalisesExistingTransaction(batch[i]))
    <3>1. PICK removed \in SUBSET (mapTx \cup {batch[i]}) :
            /\ IF kind = "sync" THEN LimitMempoolSize(mapTx \cup {batch[i]}, removed)
               ELSE removed = {} /\ UNCHANGED left
            /\ mapTx' = (mapTx \cup {batch[i]}) \ removed
            /\ stage' = [stage EXCEPT ![i] = IF batch[i] \in removed THEN "full" ELSE "valid"]
      BY <1>8, <2>2 DEF Commit, SetStage
    <3>2. \E s \in {"valid", "full"} : Moves(i, s)
      BY <1>3, <2>0, <3>1 DEF Moves
    <3> QED BY <1>1, <1>2, <2>0, <2>2, <3>1, <3>2, Committed DEF TxnInv, QueueType
  <2> QED BY <2>1, <2>2
<1>9. ASSUME addOrUpdateTransaction(i) PROVE TaskInv' /\ mOrphanTxns' \subseteq Txn
  <2> DEFINE t == batch[i]
             updated == SpendersIn(mTransactionMap, t)
  <2>0. /\ stage[i] = "locking" /\ DOMAIN out' = DOMAIN out
        /\ UNCHANGED <<mKnownSpends, mapTx, mOrphanTxns>>
    BY <1>9 DEF addOrUpdateTransaction, Running, orphanVars
  <2>1. \A u \in mTransactionMap : u \notin updated => Spends[u] \cap Spends[t] = {}
    BY DEF SpendersIn
  <2>2. \E leaving \in SUBSET mTransactionMap, s \in {"valid", "full", "resubmitted"} :
          /\ stage' = [stage EXCEPT ![i] = s] /\ \A u \in leaving : Spends[u] = Spends[t]
          /\ \/ mTransactionMap' = mTransactionMap \ leaving
             \/ /\ mTransactionMap' = (mTransactionMap \ leaving) \cup {t}
                /\ \A u \in mTransactionMap \ leaving : Spends[u] \cap Spends[t] = {}
    <3>1. CASE updated = {} /\ NonFinal(t) /\ insertNL(i, t, mTransactionMap)
      BY <2>1, <3>1 DEF insertNL, SetStage
    <3>2. CASE SetStage(i, "valid") /\ UNCHANGED mTransactionMap
      BY <3>2 DEF SetStage
    <3>3. ASSUME NEW old \in updated, updated = {old}, validateUpdate(t, old),
                 IF Finalised(t, old)
                 THEN mTransactionMap' = mTransactionMap \ {old} /\ SetStage(i, "resubmitted")
                 ELSE insertNL(i, t, mTransactionMap \ {old})
          PROVE  \E s \in {"valid", "full", "resubmitted"} :
                   /\ stage' = [stage EXCEPT ![i] = s] /\ \A u \in {old} : Spends[u] = Spends[t]
                   /\ \/ mTransactionMap' = mTransactionMap \ {old}
                      \/ /\ mTransactionMap' = (mTransactionMap \ {old}) \cup {t}
                         /\ \A u \in mTransactionMap \ {old} : Spends[u] \cap Spends[t] = {}
      BY <2>1, <3>3 DEF insertNL, SetStage, validateUpdate
    <3>4. CASE SetStage(i, "full") /\ UNCHANGED mTransactionMap
      BY <3>4 DEF SetStage
    <3>5. updated \subseteq mTransactionMap
      BY DEF SpendersIn
    <3> HIDE DEF updated
    <3> QED BY <1>9, <3>1, <3>2, <3>3, <3>4, <3>5 DEF addOrUpdateTransaction, updated
  <2>3. PICK leaving \in SUBSET mTransactionMap, s \in {"valid", "full", "resubmitted"} :
          /\ Moves(i, s) /\ \A u \in leaving : Spends[u] = Spends[t]
          /\ \/ mTransactionMap' = mTransactionMap \ leaving
             \/ /\ mTransactionMap' = (mTransactionMap \ leaving) \cup {t}
                /\ \A u \in mTransactionMap \ leaving : Spends[u] \cap Spends[t] = {}
    BY <1>3, <2>0, <2>2 DEF Moves
  <2>4. TaskInv'
    BY <1>1, <1>2, <2>0, <2>3, LockedReplaced
  <2> QED BY <2>0, <2>4 DEF TxnInv, QueueType
<1>10. ASSUME CollectTxData(i) PROVE TaskInv' /\ mOrphanTxns' \subseteq Txn
  <2>1. PICK s \in {"accepted", "again"} : stage' = [stage EXCEPT ![i] = s]
    BY <1>10 DEF CollectTxData, SetStage
  <2>2. /\ Moves(i, s) /\ UNCHANGED <<mKnownSpends, mapTx, mTransactionMap>>
        /\ mOrphanTxns' \subseteq mOrphanTxns
    BY <1>3, <1>10, <2>1 DEF CollectTxData, Moves, pools
  <2> QED BY <1>1, <2>2, Moved DEF TxnInv, QueueType, Stage
<1>11. ASSUME removeTxnInputs(i) PROVE TaskInv' /\ mOrphanTxns' \subseteq Txn
  <2>1. /\ Moves(i, "done") /\ mKnownSpends' = mKnownSpends \ {batch[i]}
        /\ UNCHANGED <<mapTx, mTransactionMap, mOrphanTxns>>
    BY <1>1, <1>3, <1>11 DEF removeTxnInputs, Finish, SetStage, Moves, orphanVars
  <2> QED BY <1>1, <1>2, <2>1, Released DEF TxnInv, QueueType
<1>12. TaskInv' /\ mOrphanTxns' \subseteq Txn
  BY <1>4, <1>5, <1>6, <1>7, <1>8, <1>9, <1>10, <1>11 DEF TaskStep
<1>13. QueueType' /\ Control' /\ Once'
  BY <1>2, <1>3, <1>12 DEF TxnInv, QueueType, Control, Once
<1> QED BY <1>12, <1>13 DEF TxnInv

===============================================================================
