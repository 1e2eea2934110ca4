---------------------------- MODULE ThreadSafeQueue ----------------------------
(* CThreadSafeQueue (thread_safe_queue.h): a bounded queue with blocking and         *)
(* non-blocking pushes and pops.  An element is its size.  Everything a call does     *)
(* under mtx is one step; a thread that blocks is in `sleepers' until it is notified. *)
EXTENDS Integers, Sequences, FiniteSets

CONSTANTS Caller, Sizes, maximalSize

ASSUME QueueAssumption ==
  IsFiniteSet(Caller) /\ Sizes \subseteq Nat /\ maximalSize \in Nat

VARIABLES theQueue, currentSize, isClosed,
          variableSizeObjects,
          call,       \* [Caller -> the blocking call it is in, Returned if none]
          sleepers    \* callers blocked on onPush (pops) or onPop (pushes)

queueVars == <<theQueue, currentSize, isClosed, variableSizeObjects, call, sleepers>>

Returned == [op |-> "none", vals |-> <<>>]

PushOps == {"PushWait", "PushManyWait"}
PopOps == {"PopWait", "PopAllWait"}

(* All objects have size 1 unless the queue was made with a size calculator; only     *)
(* such queues are given sequences.                                                   *)
Values == IF variableSizeObjects THEN Sizes ELSE {1}
Sequences_ == IF variableSizeObjects THEN {<<x, y>> : x, y \in Sizes} ELSE {}

QueueInit ==
  /\ theQueue = <<>> /\ currentSize = 0 /\ isClosed = FALSE
  /\ variableSizeObjects \in BOOLEAN
  /\ call = [c \in Caller |-> Returned] /\ sleepers = {}

SizeNeededForSequence(s) ==
  LET sum[i \in 0..Len(s)] == IF i = 0 THEN 0 ELSE sum[i - 1] + s[i] IN sum[Len(s)]

Sleeping(ops) == {c \in sleepers : call[c].op \in ops}

notify_one(ops, S) ==
  IF Sleeping(ops) = {} THEN S = sleepers
  ELSE \E c \in Sleeping(ops) : S = sleepers \ {c}

(* A mutant: one waiting push is told of the space, whether its value fits or not.     *)
PostPopNotifyOne(S) == notify_one(PushOps, S)

PostPopNotify(S) ==
  IF variableSizeObjects THEN S = sleepers \ Sleeping(PushOps) ELSE notify_one(PushOps, S)

(* Appends, and tells one waiting pop of a single value, all of them of a sequence.   *)
AppendSequence(vals, S) ==
  /\ theQueue' = theQueue \o vals
  /\ currentSize' = currentSize + SizeNeededForSequence(vals)
  /\ IF Len(vals) = 1 THEN notify_one(PopOps, S) ELSE S = sleepers \ Sleeping(PopOps)

Fits(vals) == currentSize + SizeNeededForSequence(vals) <= maximalSize

-------------------------------------------------------------------------------
Make(c, op, vals) == call' = [call EXCEPT ![c] = [op |-> op, vals |-> vals]]

(* A blocking call is made; it waits for mtx.                                        *)
Call(c) ==
  /\ call[c] = Returned
  /\ \/ \E x \in Values : Make(c, "PushWait", <<x>>)
     \/ \E vals \in Sequences_ : Make(c, "PushManyWait", vals)
     \/ \E op \in PopOps : Make(c, op, <<>>)
  /\ UNCHANGED <<theQueue, currentSize, isClosed, variableSizeObjects, sleepers>>

ReturnFrom(c) == call' = [call EXCEPT ![c] = Returned]

(* The predicate of the wait, evaluated with mtx held, and the rest of the call.      *)
PushWait(c) ==
  /\ call[c].op \in PushOps /\ c \notin sleepers
  /\ LET vals == call[c].vals IN
     \/ /\ SizeNeededForSequence(vals) > maximalSize \/ isClosed
        /\ ReturnFrom(c) /\ UNCHANGED <<theQueue, currentSize, sleepers>>
     \/ /\ ~isClosed /\ Fits(vals)
        /\ \E S \in SUBSET sleepers : AppendSequence(vals, S) /\ sleepers' = S
        /\ ReturnFrom(c)
     \/ /\ ~isClosed /\ SizeNeededForSequence(vals) <= maximalSize /\ ~Fits(vals)
        /\ sleepers' = sleepers \cup {c} /\ UNCHANGED <<theQueue, currentSize, call>>
  /\ UNCHANGED <<isClosed, variableSizeObjects>>

PopWait(c) ==
  /\ call[c].op = "PopWait" /\ c \notin sleepers
  /\ \/ /\ theQueue # <<>>
        /\ theQueue' = Tail(theQueue) /\ currentSize' = currentSize - Head(theQueue)
        /\ \E S \in SUBSET sleepers : PostPopNotify(S) /\ sleepers' = S
        /\ ReturnFrom(c)
     \/ /\ theQueue = <<>> /\ isClosed
        /\ ReturnFrom(c) /\ UNCHANGED <<theQueue, currentSize, sleepers>>
     \/ /\ theQueue = <<>> /\ ~isClosed
        /\ sleepers' = sleepers \cup {c} /\ UNCHANGED <<theQueue, currentSize, call>>
  /\ UNCHANGED <<isClosed, variableSizeObjects>>

PopAllWait(c) ==
  /\ call[c].op = "PopAllWait" /\ c \notin sleepers
  /\ \/ /\ theQueue # <<>>
        /\ theQueue' = <<>> /\ currentSize' = 0
        /\ sleepers' = sleepers \ Sleeping(PushOps) /\ ReturnFrom(c)
     \/ /\ theQueue = <<>> /\ isClosed
        /\ ReturnFrom(c) /\ UNCHANGED <<theQueue, currentSize, sleepers>>
     \/ /\ theQueue = <<>> /\ ~isClosed
        /\ sleepers' = sleepers \cup {c} /\ UNCHANGED <<theQueue, currentSize, call>>
  /\ UNCHANGED <<isClosed, variableSizeObjects>>

-------------------------------------------------------------------------------
(* Calls that never block; those that fail change nothing.                            *)
PushNoWait ==
  /\ ~isClosed
  /\ \E vals \in {<<x>> : x \in Values} \cup Sequences_ :
       /\ Fits(vals)
       /\ \E S \in SUBSET sleepers : AppendSequence(vals, S) /\ sleepers' = S
  /\ UNCHANGED <<isClosed, variableSizeObjects, call>>

PopNoWait ==
  /\ theQueue # <<>>
  /\ theQueue' = Tail(theQueue) /\ currentSize' = currentSize - Head(theQueue)
  /\ \E S \in SUBSET sleepers : PostPopNotify(S) /\ sleepers' = S
  /\ UNCHANGED <<isClosed, variableSizeObjects, call>>

PopAllNoWait ==
  /\ theQueue # <<>>
  /\ theQueue' = <<>> /\ currentSize' = 0
  /\ sleepers' = sleepers \ Sleeping(PushOps)
  /\ UNCHANGED <<isClosed, variableSizeObjects, call>>

ReplaceContent ==
  /\ ~isClosed
  /\ \E vals \in Sequences_ :
       /\ SizeNeededForSequence(vals) <= maximalSize
       /\ theQueue' = vals /\ currentSize' = SizeNeededForSequence(vals)
  /\ sleepers' = {}
  /\ UNCHANGED <<isClosed, variableSizeObjects, call>>

Close(dropValues) ==
  /\ isClosed' = TRUE
  /\ theQueue' = (IF dropValues THEN <<>> ELSE theQueue)
  /\ currentSize' = (IF dropValues THEN 0 ELSE currentSize)
  /\ sleepers' = {}
  /\ UNCHANGED <<variableSizeObjects, call>>

Step(c) == PushWait(c) \/ PopWait(c) \/ PopAllWait(c)

QueueNext ==
  \/ \E c \in Caller : Call(c) \/ Step(c)
  \/ PushNoWait \/ PopNoWait \/ PopAllNoWait \/ ReplaceContent
  \/ \E d \in BOOLEAN : Close(d)

QueueSpec == QueueInit /\ [][QueueNext]_queueVars

-------------------------------------------------------------------------------
(* No caller sleeps on a condition that holds unless some caller of the same kind is   *)
(* awake and about to look: notify_one is never one too few (PostPopNotify, PushWait). *)
QueueWakeups ==
  LET awake(ops) == \E c \in Caller \ sleepers : call[c].op \in ops IN
  /\ Sleeping(PopOps) # {} => (theQueue = <<>> /\ ~isClosed) \/ awake(PopOps)
  /\ \A c \in Sleeping(PushOps) : (~isClosed /\ ~Fits(call[c].vals)) \/ awake(PushOps)

(* A blocking call of a closed queue, which must return.                              *)
Blocks(c) == isClosed /\ call[c] # Returned
===============================================================================
