-------------------------- MODULE TxnValidatorProofs --------------------------
(* Any number of transactions, of any shape, in queues and batches of any length:  *)
(* no two spenders of an outpoint are accepted, the detector gives back every      *)
(* input it holds, and every mempool transaction has its inputs.                   *)
EXTENDS TxnTasksProofs, FiniteSetTheorems, TLAPS

(* Sequences: a part of the front, what is left, and two in a row.                  *)

LEMMA FirstOf ==
  ASSUME NEW X, NEW s \in Seq(X), NEW n \in Nat
  PROVE  /\ First(s, n) \in Seq(X) /\ Len(First(s, n)) <= Len(s)
         /\ \A i \in 1..Len(First(s, n)) : i \in 1..Len(s) /\ First(s, n)[i] = s[i]
BY DEF First

LEMMA RestOf ==
  ASSUME NEW X, NEW s \in Seq(X), NEW m \in 0..Len(s)
  PROVE  LET r == SubSeq(s, m + 1, Len(s)) IN
         /\ r \in Seq(X) /\ Len(r) = Len(s) - m
         /\ \A i \in 1..Len(r) : m + i \in 1..Len(s) /\ r[i] = s[m + i]
OBVIOUS

LEMMA Joined ==
  ASSUME NEW X, NEW q \in Seq(X), NEW s \in Seq(X)
  PROVE  /\ q \o s \in Seq(X) /\ Range(q \o s) = Range(q) \cup Range(s)
         /\ IsInjective(q) /\ IsInjective(s) /\ Range(q) \cap Range(s) = {}
              => IsInjective(q \o s)
<1>1. /\ q \o s \in Seq(X) /\ Len(q \o s) = Len(q) + Len(s)
      /\ \A i \in 1..Len(q) : (q \o s)[i] = q[i]
      /\ \A i \in 1..Len(s) : (q \o s)[Len(q) + i] = s[i]
      /\ \A i \in 1..(Len(q) + Len(s)) : i \in 1..Len(q) \/ \E j \in 1..Len(s) : i = Len(q) + j
  <2>1. ASSUME NEW i \in 1..(Len(q) + Len(s)), i \notin 1..Len(q)
        PROVE  \E j \in 1..Len(s) : i = Len(q) + j
    <3>1. i - Len(q) \in 1..Len(s) /\ i = Len(q) + (i - Len(q))
      BY <2>1
    <3> QED BY <3>1
  <2> QED BY <2>1
<1>2. DOMAIN q = 1..Len(q) /\ DOMAIN s = 1..Len(s) /\ DOMAIN (q \o s) = 1..(Len(q) + Len(s))
  BY <1>1
<1>3. ASSUME NEW x PROVE x \in Range(q \o s) <=> x \in Range(q) \/ x \in Range(s)
  <2>1. ASSUME NEW i \in 1..(Len(q) + Len(s)), x = (q \o s)[i]
        PROVE  x \in Range(q) \/ x \in Range(s)
    <3>1. CASE i \in 1..Len(q)
      BY <1>1, <1>2, <2>1, <3>1 DEF Range
    <3>2. CASE i \notin 1..Len(q)
      <4>1. PICK j \in 1..Len(s) : i = Len(q) + j
        BY <1>1, <3>2
      <4> QED BY <1>1, <1>2, <2>1, <4>1 DEF Range
    <3> QED BY <3>1, <3>2
  <2>2. \A i \in 1..Len(q) : i \in 1..(Len(q) + Len(s))
    OBVIOUS
  <2>3. \A i \in 1..Len(s) : Len(q) + i \in 1..(Len(q) + Len(s))
    OBVIOUS
  <2>4. x \in Range(q) => x \in Range(q \o s)
    BY <1>1, <1>2, <2>2 DEF Range
  <2>5. x \in Range(s) => x \in Range(q \o s)
    <3> SUFFICES ASSUME NEW i \in 1..Len(s), x = s[i] PROVE x \in Range(q \o s)
      BY <1>2 DEF Range
    <3>1. Len(q) + i \in DOMAIN (q \o s) /\ (q \o s)[Len(q) + i] = x
      BY <1>1, <1>2, <2>3
    <3> QED BY <3>1 DEF Range
  <2> QED BY <1>2, <2>1, <2>4, <2>5 DEF Range
<1>4. ASSUME IsInjective(q), IsInjective(s), Range(q) \cap Range(s) = {}
      PROVE  IsInjective(q \o s)
  <2> SUFFICES ASSUME NEW i \in DOMAIN (q \o s), NEW j \in DOMAIN (q \o s),
                      (q \o s)[i] = (q \o s)[j]
               PROVE  i = j
    BY DEF IsInjective
  <2>1. \A a \in DOMAIN q, b \in DOMAIN s : q[a] # s[b]
    BY <1>4 DEF Range
  <2>2. CASE i \in 1..Len(q) /\ j \in 1..Len(q)
    BY <1>1, <1>2, <1>4, <2>2 DEF IsInjective
  <2>3. CASE i \notin 1..Len(q) /\ j \notin 1..Len(q)
    <3>1. PICK a \in 1..Len(s) : i = Len(q) + a
      BY <1>1, <1>2, <2>3
    <3>2. PICK b \in 1..Len(s) : j = Len(q) + b
      BY <1>1, <1>2, <2>3
    <3>3. s[a] = s[b]
      BY <1>1, <3>1, <3>2
    <3> QED BY <1>2, <1>4, <3>1, <3>2, <3>3 DEF IsInjective
  <2>4. CASE i \in 1..Len(q) /\ j \notin 1..Len(q)
    <3>1. PICK b \in 1..Len(s) : j = Len(q) + b
      BY <1>1, <1>2, <2>4
    <3>2. q[i] = s[b]
      BY <1>1, <2>4, <3>1
    <3> QED BY <1>2, <2>1, <2>4, <3>2
  <2>5. CASE i \notin 1..Len(q) /\ j \in 1..Len(q)
    <3>1. PICK a \in 1..Len(s) : i = Len(q) + a
      BY <1>1, <1>2, <2>5
    <3>2. q[j] = s[a]
      BY <1>1, <2>5, <3>1
    <3> QED BY <1>2, <2>1, <2>5, <3>2
  <2> QED BY <2>2, <2>3, <2>4, <2>5
<1> QED BY <1>1, <1>3, <1>4

LEMMA Split ==
  ASSUME NEW X, NEW s \in Seq(X), NEW n \in Nat, IsInjective(s)
  PROVE  LET f == First(s, n)
             r == SubSeq(s, Len(f) + 1, Len(s))
         IN  /\ IsInjective(f) /\ IsInjective(r) /\ Range(f) \cap Range(r) = {}
             /\ Range(f) \subseteq Range(s) /\ Range(r) \subseteq Range(s)
<1> DEFINE f == First(s, n)
           m == Len(f)
           r == SubSeq(s, m + 1, Len(s))
<1>1. /\ f \in Seq(X) /\ m <= Len(s) /\ \A i \in 1..m : i \in 1..Len(s) /\ f[i] = s[i]
  BY FirstOf
<1> HIDE DEF f
<1>2. m \in 0..Len(s)
  BY <1>1
<1>3. /\ r \in Seq(X) /\ Len(r) = Len(s) - m
      /\ \A i \in 1..Len(r) : m + i \in 1..Len(s) /\ r[i] = s[m + i]
  BY <1>2, RestOf
<1>4. DOMAIN s = 1..Len(s) /\ DOMAIN f = 1..m /\ DOMAIN r = 1..Len(r) /\ Len(r) \in Nat
  BY <1>1, <1>3
<1> HIDE DEF r
<1>5. IsInjective(f) /\ Range(f) \subseteq Range(s)
  BY <1>1, <1>4 DEF IsInjective, Range
<1>6. IsInjective(r) /\ Range(r) \subseteq Range(s)
  <2>1. ASSUME NEW i \in 1..Len(r), NEW j \in 1..Len(r), r[i] = r[j] PROVE i = j
    <3>1. s[m + i] = s[m + j] /\ m + i \in 1..Len(s) /\ m + j \in 1..Len(s)
      BY <1>3, <2>1
    <3>2. m + i = m + j
      BY <1>4, <3>1 DEF IsInjective
    <3> QED BY <1>2, <3>2
  <2>2. \A i \in DOMAIN r : m + i \in DOMAIN s /\ r[i] = s[m + i]
    BY <1>3, <1>4
  <2>3. Range(r) \subseteq Range(s)
    BY <2>2 DEF Range
  <2> QED BY <1>4, <2>1, <2>3 DEF IsInjective
<1>7. \A i \in 1..m, j \in 1..Len(r) : f[i] # r[j]
  <2> SUFFICES ASSUME NEW i \in 1..m, NEW j \in 1..Len(r), f[i] = r[j] PROVE FALSE
    OBVIOUS
  <2>0. s[i] = s[m + j] /\ i \in DOMAIN s /\ m + j \in DOMAIN s
    BY <1>1, <1>3, <1>4
  <2>1. i = m + j
    BY <2>0 DEF IsInjective
  <2> QED BY <1>2, <1>3, <2>1
<1> QED BY <1>4, <1>5, <1>6, <1>7 DEF Range, f, r

LEMMA Enqueued ==
  ASSUME QueueCap \in Nat, NEW q \in Seq(Txn), NEW s \in Seq(Txn)
  PROVE  /\ Enqueue(q, s) \in Seq(Txn)
         /\ Range(Enqueue(q, s)) \subseteq Range(q) \cup Range(s)
         /\ IsInjective(q) /\ IsInjective(s) /\ Range(q) \cap Range(s) = {}
              => IsInjective(Enqueue(q, s))
<1> DEFINE n == IF Len(q) < QueueCap THEN QueueCap - Len(q) ELSE 0
           f == First(s, n)
<1>1. n \in Nat
  OBVIOUS
<1> HIDE DEF n
<1>2. f \in Seq(Txn) /\ Len(f) <= Len(s) /\ \A i \in 1..Len(f) : i \in 1..Len(s) /\ f[i] = s[i]
  BY <1>1, FirstOf
<1>3. Enqueue(q, s) = q \o f
  BY DEF Enqueue, n
<1> HIDE DEF f
<1>4. Range(f) \subseteq Range(s) /\ (IsInjective(s) => IsInjective(f))
  <2>1. DOMAIN f = 1..Len(f) /\ DOMAIN s = 1..Len(s)
    BY <1>2
  <2> QED BY <1>2, <2>1 DEF Range, IsInjective
<1> QED BY <1>2, <1>3, <1>4, Joined

-------------------------------------------------------------------------------
(* The queues when untracked transactions come to the end of the first one.           *)
LEMMA QueuesGrow ==
  ASSUME TxnAssumption, TxnInv, NEW s \in Seq(Txn), IsInjective(s), Range(s) \cap Tracked = {},
         mStdTxns' = Enqueue(mStdTxns, s), UNCHANGED <<mNonStdTxns, mProcessingQueue, twice>>
  PROVE  mStdTxns' \in Seq(Txn) /\ Once'
<1>1. /\ mStdTxns \in Seq(Txn) /\ QueueCap \in Nat
      /\ Range(s) \cap (Range(mStdTxns) \cup Range(mNonStdTxns) \cup Range(mProcessingQueue)) = {}
  BY DEF TxnInv, QueueType, TxnAssumption, Tracked
<1>2. /\ mStdTxns' \in Seq(Txn) /\ Range(mStdTxns') \subseteq Range(mStdTxns) \cup Range(s)
      /\ IsInjective(mStdTxns) => IsInjective(mStdTxns')
  BY <1>1, Enqueued
<1> QED BY <1>1, <1>2 DEF TxnInv, Once, Distinct

LEMMA Ordered ==
  ASSUME NEW S \in SUBSET Txn, IsFiniteSet(Txn), NEW s \in Orders(S)
  PROVE  s \in Seq(Txn) /\ IsInjective(s) /\ Range(s) \subseteq S
<1>1. Cardinality(S) \in Nat
  BY FS_Subset, FS_CardinalityType
<1>2. /\ s \in [1..Cardinality(S) -> S]
      /\ \A i, j \in 1..Cardinality(S) : i # j => s[i] # s[j]
  BY DEF Orders, Bijection, Injection, Surjection, IsInjective
<1>3. s \in Seq(S)
  BY <1>1, <1>2
<1>4. s \in Seq(Txn)
  BY <1>1, <1>2
<1> QED BY <1>2, <1>4 DEF IsInjective, Range

LEMMA InOrder ==
  ASSUME TaskInv, NEW I \in SUBSET Position, NEW s \in InTaskOrder(I)
  PROVE  s \in Seq(Txn)
<1>1. IsFiniteSet(Position)
  <2>1. Len(batch) \in Nat
    BY DEF TaskInv, TaskType
  <2> QED BY <2>1, FS_Interval DEF Position
<1>2. Cardinality(I) \in Nat
  BY <1>1, FS_Subset, FS_CardinalityType
<1>3. PICK f \in [1..Cardinality(I) -> I] : s = [k \in 1..Cardinality(I) |-> batch[f[k]]]
  BY DEF InTaskOrder
<1>4. ASSUME NEW k \in 1..Cardinality(I) PROVE batch[f[k]] \in Txn
  <2>1. f[k] \in 1..Len(batch)
    BY <1>3 DEF Position
  <2> QED BY <2>1 DEF TaskInv, TaskType
<1> QED BY <1>2, <1>3, <1>4

LEMMA TasksStarted ==
  ASSUME NEW q \in Seq(Txn), StartTasks(q)
  PROVE  TaskType' /\ \A i \in Position' : stage'[i] = "start"
<1>1. batch' = q /\ Position' = 1..Len(q) /\ chain' \in [1..Len(q) -> 1..Len(q)]
  BY DEF StartTasks, ScheduleChains, Position
<1>2. chain' \in [Position' -> Nat]
  BY <1>1
<1> QED BY <1>1, <1>2 DEF StartTasks, TaskType, Stage

LEMMA TasksEnded ==
  ASSUME NoTasks
  PROVE  TaskType' /\ Position' = {}
BY DEF NoTasks, TaskType, Position

LEMMA OtherSteps ==
  ASSUME TxnAssumption, TxnInv, Next, \A i \in DOMAIN stage : ~TaskStep(i)
  PROVE  TxnInv'
<1>1. ASSUME NEW t \in Txn, Receive(t) PROVE TxnInv'
  <2>1. /\ mStdTxns' = Enqueue(mStdTxns, <<t>>) /\ t \notin Tracked
        /\ UNCHANGED <<mNonStdTxns, mProcessingQueue, mOrphanTxns, csMain, phase, kind, sync, twice,
                       tasks, pools, clock>>
    BY <1>1 DEF Receive, history, orphanVars
  <2>2. <<t>> \in Seq(Txn) /\ IsInjective(<<t>>) /\ Range(<<t>>) = {t}
    BY DEF IsInjective, Range
  <2>3. mStdTxns' \in Seq(Txn) /\ Once'
    BY <2>1, <2>2, QueuesGrow
  <2>4. TaskInv'
    BY <2>1, TasksKept DEF TxnInv, tasks, pools
  <2>5. QueueType' /\ Control'
    BY <2>1, <2>3 DEF TxnInv, QueueType, Control, tasks, Position
  <2> QED BY <2>3, <2>4, <2>5 DEF TxnInv
<1>2. ASSUME StartBatch PROVE TxnInv'
  <2> DEFINE room(q) == Len(q) < 2 * Batch
             s == IF room(mProcessingQueue) THEN collectTxns(mStdTxns) ELSE <<>>
             q1 == mProcessingQueue \o s
             n == IF room(q1) THEN collectTxns(mNonStdTxns) ELSE <<>>
             q2 == q1 \o n
  <2>1. /\ phase = "wait" /\ mProcessingQueue' = q2 /\ StartTasks(q2)
        /\ mStdTxns' = SubSeq(mStdTxns, Len(s) + 1, Len(mStdTxns))
        /\ mNonStdTxns' = SubSeq(mNonStdTxns, Len(n) + 1, Len(mNonStdTxns))
        /\ csMain' = "validator" /\ phase' = "run" /\ kind' = "async"
        /\ UNCHANGED <<mOrphanTxns, mKnownSpends, mapTx, mTransactionMap, sync, twice>>
    BY <1>2 DEF StartBatch, orphanVars, pools, history
  <2>2. /\ \E k \in Nat : s = First(mStdTxns, k)
        /\ \E k \in Nat : n = First(mNonStdTxns, k)
    <3>1. Batch \in Nat /\ mStdTxns \in Seq(Txn) /\ mNonStdTxns \in Seq(Txn)
      BY DEF TxnAssumption, TxnInv, QueueType
    <3>2. \A q \in Seq(Txn) : First(q, 0) = <<>>
      BY DEF First
    <3> QED BY <3>1, <3>2 DEF collectTxns
  <2> HIDE DEF s, n
  <2>3. /\ mStdTxns \in Seq(Txn) /\ mNonStdTxns \in Seq(Txn) /\ mProcessingQueue \in Seq(Txn)
        /\ s \in Seq(Txn) /\ n \in Seq(Txn)
        /\ Len(s) \in 0..Len(mStdTxns) /\ Len(n) \in 0..Len(mNonStdTxns)
    BY <2>2, FirstOf DEF TxnInv, QueueType
  <2>4. mStdTxns' \in Seq(Txn) /\ mNonStdTxns' \in Seq(Txn)
    BY <2>1, <2>3, RestOf
  <2>5. q1 \in Seq(Txn) /\ q2 \in Seq(Txn)
    BY <2>3, Joined
  <2>6. Once'
    <3> SUFFICES ASSUME ~twice PROVE Distinct(mStdTxns', mNonStdTxns', q2)
      <4>1. Once' <=> (~twice' => Distinct(mStdTxns', mNonStdTxns', mProcessingQueue'))
        BY DEF Once, Distinct, IsInjective, Range
      <4> QED BY <2>1, <4>1
    <3>1. Distinct(mStdTxns, mNonStdTxns, mProcessingQueue)
      BY DEF TxnInv, Once
    <3>2. /\ IsInjective(s) /\ IsInjective(mStdTxns') /\ Range(s) \cap Range(mStdTxns') = {}
          /\ Range(s) \subseteq Range(mStdTxns) /\ Range(mStdTxns') \subseteq Range(mStdTxns)
      <4>1. PICK k \in Nat : s = First(mStdTxns, k)
        BY <2>2
      <4>2. IsInjective(mStdTxns)
        BY <3>1 DEF Distinct
      <4> HIDE DEF q1, q2
      <4> QED BY <2>1, <2>3, <4>1, <4>2, Split
    <3>3. /\ IsInjective(n) /\ IsInjective(mNonStdTxns') /\ Range(n) \cap Range(mNonStdTxns') = {}
          /\ Range(n) \subseteq Range(mNonStdTxns) /\ Range(mNonStdTxns') \subseteq Range(mNonStdTxns)
      <4>1. PICK k \in Nat : n = First(mNonStdTxns, k)
        BY <2>2
      <4>2. IsInjective(mNonStdTxns)
        BY <3>1 DEF Distinct
      <4> HIDE DEF q1, q2
      <4> QED BY <2>1, <2>3, <4>1, <4>2, Split
    <3>4. IsInjective(q1) /\ Range(q1) = Range(mProcessingQueue) \cup Range(s)
      BY <2>3, <3>1, <3>2, Joined DEF Distinct
    <3>5. IsInjective(q2) /\ Range(q2) = Range(q1) \cup Range(n)
      <4>1. Range(q1) \cap Range(n) = {}
        BY <3>1, <3>2, <3>3, <3>4 DEF Distinct
      <4> HIDE DEF q1
      <4> QED BY <2>3, <2>5, <3>3, <3>4, <4>1, Joined
    <3> QED BY <3>1, <3>2, <3>3, <3>4, <3>5 DEF Distinct
  <2>7. TaskInv'
    <3>1. Position = {}
      BY <2>1 DEF TxnInv, Control, Position
    <3>2. TaskType' /\ \A i \in Position' : stage'[i] = "start"
      BY <2>1, <2>5, TasksStarted
    <3>3. InputsPresent'
      BY <2>1 DEF TxnInv, TaskInv, InputsPresent, HaveInputs
    <3> QED BY <2>1, <3>1, <3>2, <3>3, NoneHolding DEF TxnInv
  <2>8. QueueType' /\ Control'
    BY <2>1, <2>4, <2>5 DEF TxnInv, QueueType, Control, StartTasks
  <2> QED BY <2>6, <2>7, <2>8 DEF TxnInv
<1>3. ASSUME EmptyRound \/ TimeElapses \/ ChainLock PROVE TxnInv'
  <2>1. /\ UNCHANGED <<mStdTxns, mNonStdTxns, mProcessingQueue, mOrphanTxns, phase, kind, sync, clock, twice,
                       mKnownSpends, mapTx, mTransactionMap, batch, chain, stage, out>>
        /\ phase = "run" => csMain' = csMain
    BY <1>3 DEF EmptyRound, TimeElapses, ChainLock, vars, queues, orphanVars, pools, tasks, history,
         TxnInv, Control
  <2>2. TaskInv'
    BY <2>1, TasksKept DEF TxnInv
  <2>3. QueueType' /\ Control' /\ Once'
    BY <2>1 DEF TxnInv, QueueType, Control, Once, Position
  <2> QED BY <2>2, <2>3 DEF TxnInv
<1>4. ASSUME EndBatch PROVE TxnInv'
  <2>1. /\ phase = "run" /\ \A i \in DOMAIN stage : stage[i] = "done"
        /\ phase' = "post"
        /\ UNCHANGED <<queues, mOrphanTxns, mKnownSpends, mTransactionMap, kind, tasks, sync, twice>>
    BY <1>4 DEF EndBatch, AllDone, history
  <2>2. PICK removed \in SUBSET mapTx : LimitMempoolSize(mapTx, removed) /\ mapTx' = mapTx \ removed
    BY <1>4 DEF EndBatch
  <2>3. /\ Position' = Position /\ DOMAIN stage = Position /\ stage' = stage
        /\ UNCHANGED <<mStdTxns, mNonStdTxns, mProcessingQueue, batch, chain, out>>
    BY <2>1 DEF tasks, queues, Position, TxnInv, TaskInv, TaskType
  <2>4. InputsPresent'
    <3>1. Complete(mapTx \ removed)
      BY <2>2, Trimmed, InputsComplete DEF TxnInv, TaskInv
    <3> QED BY <2>2, <3>1 DEF InputsPresent, HaveInputs, Complete
  <2>5. TaskInv'
    <3>1. TaskType' /\ (\A i \in Position : ~Holding(i)) /\ \A i \in Position' : stage'[i] = "done"
      BY <2>1, <2>3 DEF TxnInv, TaskInv, TaskType, Holding
    <3> QED BY <2>1, <2>2, <2>4, <3>1, NoneHolding DEF TxnInv
  <2>6. QueueType' /\ Control' /\ Once'
    BY <2>1, <2>3 DEF TxnInv, QueueType, Control, Once
  <2> QED BY <2>5, <2>6 DEF TxnInv
<1>5. ASSUME SwapQueues PROVE TxnInv'
  <2>1. PICK slow \in InTaskOrder({i \in WithResult("timeout") : batch[i] \notin low}),
             again \in InTaskOrder(WithResult("resubmitted")),
             cancelled \in InTaskOrder(WithResult("cancelled")),
             S \in collectDependentTxnsForRetry :
        \E os \in Orders(S \ Range(cancelled)) :
          /\ mNonStdTxns' = Enqueue(mNonStdTxns, slow)
          /\ mProcessingQueue' = again \o os \o cancelled
          /\ twice' = (twice \/ ~Distinct(mStdTxns, mNonStdTxns', mProcessingQueue'))
    BY <1>5 DEF SwapQueues
  <2>2. PICK os \in Orders(S \ Range(cancelled)) :
          /\ mNonStdTxns' = Enqueue(mNonStdTxns, slow)
          /\ mProcessingQueue' = again \o os \o cancelled
          /\ twice' = (twice \/ ~Distinct(mStdTxns, mNonStdTxns', mProcessingQueue'))
    BY <2>1
  <2>3. /\ phase = "post" /\ phase' = "wait" /\ NoTasks
        /\ UNCHANGED <<mStdTxns, mOrphanTxns, mKnownSpends, mapTx, mTransactionMap, kind, sync>>
    BY <1>5 DEF SwapQueues, pools
  <2>4. S \in SUBSET Txn
    <3>1. mOrphanTxns \subseteq Txn
      BY DEF TxnInv, QueueType
    <3>2. S \subseteq mOrphanTxns
      BY DEF collectDependentTxnsForRetry, OrphanChildren, DeeperLayers
    <3> QED BY <3>1, <3>2
  <2>5. slow \in Seq(Txn) /\ again \in Seq(Txn) /\ cancelled \in Seq(Txn)
    <3>1. DOMAIN out = Position
      BY DEF TxnInv, TaskInv, TaskType
    <3>2. \A r : WithResult(r) \in SUBSET Position
      BY <3>1 DEF WithResult
    <3> QED BY <3>2, InOrder DEF TxnInv
  <2>6. os \in Seq(Txn)
    BY <2>4, Ordered DEF TxnAssumption
  <2>7. mNonStdTxns' \in Seq(Txn)
    BY <2>2, <2>5, Enqueued DEF TxnInv, QueueType, TxnAssumption
  <2>8. mProcessingQueue' \in Seq(Txn)
    <3>1. again \o os \in Seq(Txn)
      BY <2>5, <2>6, Joined
    <3> QED BY <2>2, <2>5, <3>1, Joined
  <2>9. Once'
    <3>1. Once' <=> (~twice' => Distinct(mStdTxns', mNonStdTxns', mProcessingQueue'))
      BY DEF Once, Distinct, IsInjective, Range
    <3> QED BY <2>2, <2>3, <3>1
  <2>10. TaskInv'
    <3>1. \A i \in Position : ~Holding(i)
      BY <2>3 DEF TxnInv, Control, Holding
    <3>2. InputsPresent'
      BY <2>3 DEF TxnInv, TaskInv, InputsPresent, HaveInputs
    <3> QED BY <2>2, <2>3, <3>1, <3>2, TasksEnded, NoneHolding DEF TxnInv
  <2>11. twice' \in BOOLEAN
    BY <2>2 DEF TxnInv, QueueType
  <2>12. QueueType' /\ Control'
    BY <2>3, <2>7, <2>8, <2>11 DEF TxnInv, QueueType, Control, NoTasks
  <2> QED BY <2>9, <2>10, <2>12 DEF TxnInv
<1>6. ASSUME NEW t \in Txn, SyncLock(t) PROVE TxnInv'
  <2>1. /\ UNCHANGED <<mStdTxns, mNonStdTxns, mProcessingQueue, mOrphanTxns, phase, kind, clock, twice,
                       mKnownSpends, mapTx, mTransactionMap, batch, chain, stage, out>>
        /\ phase # "run" /\ sync'.txn = {t}
    BY <1>6 DEF SyncLock, queues, orphanVars, pools, tasks, history, TxnInv, Control
  <2>2. TaskInv'
    BY <2>1, TasksKept DEF TxnInv
  <2>3. QueueType' /\ Control' /\ Once'
    BY <2>1 DEF TxnInv, QueueType, Control, Once, Position
  <2> QED BY <2>2, <2>3 DEF TxnInv
<1>7. ASSUME SyncValidate PROVE TxnInv'
  <2>1. PICK t \in sync.txn : StartTasks(<<t>>)
    BY <1>7 DEF SyncValidate
  <2>2. /\ phase = "wait" /\ csMain = "sync" /\ phase' = "run" /\ kind' = "sync"
        /\ UNCHANGED <<mStdTxns, mNonStdTxns, mProcessingQueue, mOrphanTxns, csMain, sync, twice,
                       mKnownSpends, mapTx, mTransactionMap>>
    BY <1>7 DEF SyncValidate, queues, orphanVars, pools, history
  <2>3. <<t>> \in Seq(Txn) /\ batch' = <<t>> /\ Len(batch') = 1
    BY <2>1 DEF TxnInv, QueueType, StartTasks
  <2>4. TaskInv'
    <3>1. Position = {}
      BY <2>2 DEF TxnInv, Control, Position
    <3>2. TaskType' /\ \A i \in Position' : stage'[i] = "start"
      BY <2>1, <2>3, TasksStarted
    <3>3. InputsPresent'
      BY <2>2 DEF TxnInv, TaskInv, InputsPresent, HaveInputs
    <3> QED BY <2>2, <3>1, <3>2, <3>3, NoneHolding DEF TxnInv
  <2>5. QueueType' /\ Control' /\ Once'
    BY <2>2, <2>3 DEF TxnInv, QueueType, Control, Once
  <2> QED BY <2>4, <2>5 DEF TxnInv
<1>8. ASSUME SyncAgain PROVE TxnInv'
  <2>1. /\ phase = "run" /\ kind = "sync" /\ StartTasks(batch)
        /\ \A i \in DOMAIN stage : stage[i] = "done"
        /\ UNCHANGED <<mStdTxns, mNonStdTxns, mProcessingQueue, mOrphanTxns, csMain, phase, kind, sync,
                       twice, mKnownSpends, mapTx, mTransactionMap>>
    BY <1>8 DEF SyncAgain, AllDone, queues, orphanVars, pools, history
  <2>2. batch \in Seq(Txn) /\ batch' = batch /\ DOMAIN stage = Position
    BY <2>1 DEF StartTasks, TxnInv, TaskInv, TaskType
  <2>3. TaskInv'
    <3>1. \A i \in Position : ~Holding(i)
      BY <2>1, <2>2 DEF Holding
    <3>2. TaskType' /\ \A i \in Position' : stage'[i] = "start"
      BY <2>1, <2>2, TasksStarted
    <3>3. InputsPresent'
      BY <2>1 DEF TxnInv, TaskInv, InputsPresent, HaveInputs
    <3> QED BY <2>1, <3>1, <3>2, <3>3, NoneHolding DEF TxnInv
  <2>4. QueueType' /\ Control' /\ Once'
    BY <2>1, <2>2 DEF TxnInv, QueueType, Control, Once
  <2> QED BY <2>3, <2>4 DEF TxnInv
<1>9. ASSUME SyncEnd PROVE TxnInv'
  <2>1. /\ \A i \in DOMAIN stage : stage[i] = "done"
        /\ phase' = "wait" /\ NoTasks /\ sync' = NoSync
        /\ UNCHANGED <<mStdTxns, mNonStdTxns, mProcessingQueue, mOrphanTxns, kind, twice,
                       mKnownSpends, mapTx, mTransactionMap>>
    BY <1>9 DEF SyncEnd, AllDone, queues, orphanVars, pools, history
  <2>2. TaskInv'
    <3>1. \A i \in Position : ~Holding(i)
      BY <2>1 DEF TxnInv, TaskInv, TaskType, Holding
    <3>2. InputsPresent'
      BY <2>1 DEF TxnInv, TaskInv, InputsPresent, HaveInputs
    <3> QED BY <2>1, <3>1, <3>2, TasksEnded, NoneHolding DEF TxnInv
  <2>3. sync'.txn = {}
    BY <2>1 DEF NoSync
  <2>4. QueueType' /\ Control' /\ Once'
    BY <2>1, <2>3 DEF TxnInv, QueueType, Control, Once, NoTasks
  <2> QED BY <2>2, <2>4 DEF TxnInv
<1>10. ASSUME ChainUnlock PROVE TxnInv'
  <2>1. /\ phase # "run"
        /\ UNCHANGED <<mStdTxns, mNonStdTxns, mProcessingQueue, mOrphanTxns, phase, kind, sync, twice,
                       mKnownSpends, mapTx, mTransactionMap, batch, chain, stage, out>>
    BY <1>10 DEF ChainUnlock, queues, orphanVars, pools, tasks, history, TxnInv, Control
  <2>2. \A i \in Position : stage[i] = "done"
    BY <2>1 DEF TxnInv, Control, Position
  <2>3. TaskInv'
    <3>1. (\A i \in Position : ~Holding(i)) /\ \A i \in Position' : stage'[i] = "done"
      BY <2>1, <2>2 DEF Holding, Position
    <3>2. InputsPresent' /\ TaskType'
      BY <2>1 DEF TxnInv, TaskInv, InputsPresent, HaveInputs, TaskType, Position
    <3> QED BY <2>1, <3>1, <3>2, NoneHolding DEF TxnInv
  <2>4. QueueType' /\ Control' /\ Once'
    BY <2>1 DEF TxnInv, QueueType, Control, Once, Position
  <2> QED BY <2>3, <2>4 DEF TxnInv
<1>11. ASSUME periodicChecks PROVE TxnInv'
  <2> DEFINE due == {t \in mTransactionMap : ~NonFinal(t)}
  <2>1. PICK order \in Orders(due \ Tracked) :
          /\ mStdTxns' = Enqueue(mStdTxns, order)
          /\ mTransactionMap' \subseteq mTransactionMap
    BY <1>11 DEF periodicChecks
  <2>2. UNCHANGED <<mNonStdTxns, mProcessingQueue, mOrphanTxns, csMain, phase, kind, sync, twice, clock,
                    mKnownSpends, mapTx, batch, chain, stage, out>>
    BY <1>11 DEF periodicChecks, tasks, orphanVars
  <2>3. order \in Seq(Txn) /\ IsInjective(order) /\ Range(order) \cap Tracked = {}
    <3>1. due \ Tracked \in SUBSET Txn /\ IsFiniteSet(Txn)
      BY DEF TxnInv, TaskInv, PoolType, TxnAssumption
    <3> QED BY <3>1, Ordered
  <2>4. mStdTxns' \in Seq(Txn) /\ Once'
    BY <2>1, <2>2, <2>3, QueuesGrow
  <2>5. TaskInv'
    BY <2>1, <2>2, LockedRemoved DEF TxnInv
  <2>6. QueueType' /\ Control'
    BY <2>2, <2>4 DEF TxnInv, QueueType, Control, Position
  <2> QED BY <2>4, <2>5, <2>6 DEF TxnInv
<1> QED BY <1>1, <1>2, <1>3, <1>4, <1>5, <1>6, <1>7, <1>8, <1>9, <1>10, <1>11
      DEF Next, Validator, Synchronous

LEMMA TxnStep ==
  ASSUME TxnAssumption, TxnInv, [Next]_vars
  PROVE  TxnInv'
<1>1. CASE \E i \in DOMAIN stage : TaskStep(i)
  BY <1>1, TaskSteps
<1>2. CASE Next /\ \A i \in DOMAIN stage : ~TaskStep(i)
  BY <1>2, OtherSteps
<1>3. CASE UNCHANGED vars
  <2>1. UNCHANGED <<mStdTxns, mNonStdTxns, mProcessingQueue, mOrphanTxns, csMain, phase, kind, sync, clock,
                    twice, mKnownSpends, mapTx, mTransactionMap, batch, chain, stage, out>>
    BY <1>3 DEF vars, queues, orphanVars, pools, tasks, history
  <2>2. TaskInv'
    BY <2>1, TasksKept DEF TxnInv
  <2>3. QueueType' /\ Control' /\ Once'
    BY <2>1 DEF TxnInv, QueueType, Control, Once, Position
  <2> QED BY <2>2, <2>3 DEF TxnInv
<1> QED BY <1>1, <1>2, <1>3

-------------------------------------------------------------------------------
(* The theorems.                                                                     *)

(* However the tasks, the synchronous path and the scheduler interleave, no outpoint  *)
(* is spent by two transactions of the mempool and the time-locked pool, as long as   *)
(* no transaction is queued twice (CTxnDoubleSpendDetector::insertTxnInputs).         *)
THEOREM NeverDoubleSpent ==
  ASSUME TxnAssumption
  PROVE  Spec => []NoDoubleSpend
<1>1. TxnInv => NoDoubleSpend
  BY DEF TxnInv, TaskInv
<1>2. TxnInv /\ [Next]_vars => TxnInv'
  BY TxnStep
<1> QED BY <1>1, <1>2, TxnInitially, PTL DEF Spec

(* The detector holds inputs only for transactions that a task is working on: no path *)
(* through TxnValidationProcessingTask leaves any behind.                             *)
THEOREM DetectorLetsGo ==
  ASSUME TxnAssumption
  PROVE  Spec => []DetectorReleased
<1>1. TxnInv => DetectorReleased
  BY DEF TxnInv, TaskInv, TaskType, Held, Holding, DetectorReleased
<1>2. TxnInv /\ [Next]_vars => TxnInv'
  BY TxnStep
<1> QED BY <1>1, <1>2, TxnInitially, PTL DEF Spec

(* Every input of a mempool transaction is a coin or an output of the mempool, through *)
(* commits in parallel and trimming (LimitMempoolSize).                                *)
THEOREM InputsAlwaysPresent ==
  ASSUME TxnAssumption
  PROVE  Spec => []InputsPresent
<1>1. TxnInv => InputsPresent
  BY DEF TxnInv, TaskInv
<1>2. TxnInv /\ [Next]_vars => TxnInv'
  BY TxnStep
<1> QED BY <1>1, <1>2, TxnInitially, PTL DEF Spec
===============================================================================
