---------------------------- MODULE CheckQueuePool ----------------------------
(* CCheckQueuePool (checkqueuepool.h): validators ask for one of a fixed number of     *)
(* check queues and give it back.  When none is idle the running checker of the least  *)
(* value is told to stop if the new request is worth more.  Start times follow the     *)
(* order of mRunningCheckers, which only grows at its end.                             *)
EXTENDS Integers, Sequences

CONSTANTS poolSize,   \* the number of check queues
          Validator,  \* threads that validate blocks
          Value       \* chain work, say

VARIABLES mIdleQueues,
          mRunningCheckers,  \* sequence of [owner, value, checker, cancelled]
          asked,      \* [Validator -> the value it asked for, NoValue outside GetChecker]
          blocked,    \* validators blocked on mIdleQueuesCV
          closing     \* the destructor has cancelled the running checkers

poolVars == <<mIdleQueues, mRunningCheckers, asked, blocked, closing>>

NoValue == 0
Pool == 1..poolSize

Init ==
  /\ mIdleQueues = [i \in Pool |-> i] /\ mRunningCheckers = <<>>
  /\ asked = [v \in Validator |-> NoValue] /\ blocked = {} /\ closing = FALSE

Owners == {mRunningCheckers[i].owner : i \in DOMAIN mRunningCheckers}

(* The first of the running checkers with the least value.                            *)
Worst ==
  CHOOSE i \in 1..Len(mRunningCheckers) : \A j \in 1..Len(mRunningCheckers) :
    \/ mRunningCheckers[i].value < mRunningCheckers[j].value
    \/ mRunningCheckers[i].value = mRunningCheckers[j].value /\ i <= j

(* A mutant: the queue stays in the list of idle ones.                                *)
TakeShared(v, value) ==
  /\ mRunningCheckers' =
       Append(mRunningCheckers, [owner |-> v, value |-> value,
                                 checker |-> Head(mIdleQueues), cancelled |-> FALSE])
  /\ UNCHANGED mIdleQueues

(* The end of GetChecker, with an idle queue at hand.                                 *)
Take(v, value) ==
  /\ mRunningCheckers' =
       Append(mRunningCheckers, [owner |-> v, value |-> value,
                                 checker |-> Head(mIdleQueues), cancelled |-> FALSE])
  /\ mIdleQueues' = Tail(mIdleQueues)

(* With no idle queue a less valuable checker is told to make room for the request.   *)
GetChecker(v, value) ==
  /\ ~closing /\ asked[v] = NoValue /\ v \notin Owners
  /\ IF mIdleQueues # <<>>
     THEN Take(v, value) /\ UNCHANGED <<asked, blocked>>
     ELSE /\ asked' = [asked EXCEPT ![v] = value]
          /\ blocked' = blocked \cup {v}
          /\ mRunningCheckers' =
               IF mRunningCheckers[Worst].value < value
               THEN [mRunningCheckers EXCEPT ![Worst].cancelled = TRUE]
               ELSE mRunningCheckers
          /\ UNCHANGED mIdleQueues
  /\ UNCHANGED closing

(* A validator that was woken looks again.                                            *)
WokenUp(v) ==
  /\ asked[v] # NoValue /\ v \notin blocked
  /\ IF mIdleQueues = <<>>
     THEN blocked' = blocked \cup {v} /\ UNCHANGED <<mIdleQueues, mRunningCheckers, asked>>
     ELSE /\ Take(v, asked[v])
          /\ asked' = [asked EXCEPT ![v] = NoValue]
          /\ UNCHANGED blocked
  /\ UNCHANGED closing

erase(s, i) == [j \in 1..(Len(s) - 1) |-> IF j < i THEN s[j] ELSE s[j + 1]]

(* The end of a session, by Wait or by the guard's destructor.                         *)
ReturnQueueToPool(v) ==
  \E i \in 1..Len(mRunningCheckers) :
    /\ mRunningCheckers[i].owner = v
    /\ mIdleQueues' = Append(mIdleQueues, mRunningCheckers[i].checker)
    /\ mRunningCheckers' = erase(mRunningCheckers, i)
    /\ IF blocked = {} THEN UNCHANGED blocked
       ELSE \E w \in blocked : blocked' = blocked \ {w}
    /\ UNCHANGED <<asked, closing>>

(* The pool is destroyed when nobody is in GetChecker.                                *)
Destroy ==
  /\ ~closing /\ \A v \in Validator : asked[v] = NoValue
  /\ closing' = TRUE
  /\ mRunningCheckers' =
       [i \in DOMAIN mRunningCheckers |-> [mRunningCheckers[i] EXCEPT !.cancelled = TRUE]]
  /\ UNCHANGED <<mIdleQueues, asked, blocked>>

Next ==
  \/ \E v \in Validator : \/ \E value \in Value : GetChecker(v, value)
                          \/ WokenUp(v) \/ ReturnQueueToPool(v)
  \/ Destroy

-------------------------------------------------------------------------------
(* A queue that lies idle while validators sleep has somebody awake to take it: the    *)
(* single notify_one of ReturnQueueToPool is never lost to a validator that barges in. *)
PoolWakeups ==
  (blocked # {} /\ mIdleQueues # <<>>) =>
    \E v \in Validator \ blocked : asked[v] # NoValue

(* No queue of the pool is lost, and none is handed to two validators.                 *)
QueueOwned ==
  LET busy == mRunningCheckers
      idle == mIdleQueues
  IN  /\ \A i, j \in 1..Len(busy) : busy[i].checker = busy[j].checker => i = j
      /\ \A i, j \in 1..Len(idle) : idle[i] = idle[j] => i = j
      /\ \A i \in 1..Len(busy), j \in 1..Len(idle) : busy[i].checker # idle[j]
      /\ \A q \in Pool : \/ \E i \in 1..Len(busy) : busy[i].checker = q
                         \/ \E j \in 1..Len(idle) : idle[j] = q
===============================================================================
