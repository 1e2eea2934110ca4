--------------------------- MODULE ThreadPrimitives ---------------------------
(* The places where the threads of the node wait for each other, apart from the mutex  *)
(* of the coins database: the blocking queue, the pool of check queues, the thread     *)
(* pool, the scheduler and the HTTP work queue.  They share no state; each moves on    *)
(* its own, and what is said of several of them holds while all of them run.           *)
EXTENDS ThreadSafeQueue

CONSTANTS
  poolSize, Validator, Value,                \* CheckQueuePool
  HighWorker, LowWorker, Task, Priority,     \* ThreadPool
  Service, Chore, Period, MaxTime,           \* Scheduler
  HttpWorker, Request, maxDepth              \* HTTPWorkQueue

VARIABLES
  mIdleQueues, mRunningCheckers, asked, blocked, closing,
  mStdTasks, mNonStdTasks, mRunning, mPaused, worker, fate, reaping,
  taskQueue, now, stopRequested, stopWhenEmpty, thread, scheduled,
  queue, running, numThreads, wpc, main, reply

ps == <<mIdleQueues, mRunningCheckers, asked, blocked, closing>>
ts == <<mStdTasks, mNonStdTasks, mRunning, mPaused, worker, fate, reaping>>
ss == <<taskQueue, now, stopRequested, stopWhenEmpty, thread, scheduled>>
hs == <<queue, running, numThreads, wpc, main, reply>>

P == INSTANCE CheckQueuePool
T == INSTANCE ThreadPool
S == INSTANCE Scheduler
H == INSTANCE HTTPWorkQueue

(* A request for a check queue has a value, a worker's state is never taken for a task *)
(* or a request, a thread pool and the HTTP server have workers (StartHTTPServer makes *)
(* at least one), and the scheduler has the one service thread the node starts.        *)
ASSUME PrimitivesAssumption ==
  /\ poolSize \in Nat /\ IsFiniteSet(Validator) /\ Value \subseteq Nat \ {0}
  /\ HighWorker \cup LowWorker # {} /\ "asleep" \notin Task
  /\ Period \in [Chore -> Nat] /\ MaxTime \in Nat /\ \E s \in Service : Service = {s}
  /\ HttpWorker # {} /\ {"asleep", "gone"} \cap Request = {}

CheckersSpec == P!Init /\ [][P!Next]_ps
TasksSpec == T!Init /\ [][T!Next]_ts
ChoresSpec == S!Init /\ [][S!Next]_ss
HttpSpec == H!Init /\ [][H!Next]_hs

-------------------------------------------------------------------------------
(* Nobody sleeps on a condition variable of the queue, the pool of check queues, the    *)
(* thread pool or the HTTP work queue while what it waits for is there and nobody else  *)
(* is awake to see it.                                                                  *)
Wakeups == QueueWakeups /\ P!PoolWakeups /\ T!TaskWakeups /\ H!HttpWakeups

(* No queue of the pool is lost, and none is handed to two validators.                  *)
QueueOwned == P!QueueOwned

(* "Call func at/after time t", with the one service thread of the node.                *)
NotEarly == S!NotEarly
===============================================================================
