------------------------------ MODULE ThreadPool ------------------------------
(* CThreadPool with a CDualQueueAdaptor (threadpool.h, threadpoolT.h): workers of high *)
(* and low priority take tasks from two queues; the pool can be paused, resumed and,   *)
(* by its destructor, stopped.  A worker that blocks on mQueueCondVar is "asleep".     *)
EXTENDS Integers, Sequences, FiniteSets

CONSTANTS HighWorker, LowWorker, Task,
          Priority     \* [Task -> {"High", "Medium", "Low"}]

VARIABLES mStdTasks, mNonStdTasks, mRunning, mPaused,
          worker,      \* [workers -> "loop", "asleep", "gone" or the task it runs]
          fate,        \* [Task -> "new", "queued", "dropped", "running", "done"]
          reaping      \* the destructor waits for the workers

poolVars == <<mStdTasks, mNonStdTasks, mRunning, mPaused, worker, fate, reaping>>

Workers == HighWorker \cup LowWorker

Init ==
  /\ mStdTasks = <<>> /\ mNonStdTasks = <<>> /\ mRunning = TRUE /\ mPaused = FALSE
  /\ worker = [w \in Workers |-> "loop"] /\ fate = [t \in Task |-> "new"]
  /\ reaping = FALSE

Asleep == {w \in Workers : worker[w] = "asleep"}
empty == mStdTasks = <<>> /\ mNonStdTasks = <<>>

(* push: the adaptor has no queue for a task of medium priority.                       *)
push(t) ==
  /\ mStdTasks' = IF Priority[t] = "High" THEN Append(mStdTasks, t) ELSE mStdTasks
  /\ mNonStdTasks' = IF Priority[t] = "Low" THEN Append(mNonStdTasks, t) ELSE mNonStdTasks
  /\ fate' = [fate EXCEPT ![t] = IF Priority[t] = "Medium" THEN "dropped" ELSE "queued"]

(* A stopped pool refuses the task with an exception.                                  *)
submit(t) ==
  /\ fate[t] = "new" /\ mRunning
  /\ push(t)
  /\ IF Asleep = {} THEN UNCHANGED worker
     ELSE \E w \in Asleep : worker' = [worker EXCEPT ![w] = "loop"]
  /\ UNCHANGED <<mRunning, mPaused, reaping>>

pause ==
  /\ mPaused' = TRUE
  /\ UNCHANGED <<mStdTasks, mNonStdTasks, mRunning, worker, fate, reaping>>

WakeAll ==
  worker' = [w \in Workers |-> IF worker[w] = "asleep" THEN "loop" ELSE worker[w]]

(* A mutant: nobody is told that the pool is not paused any more.                      *)
runSilently ==
  /\ mPaused' = FALSE
  /\ UNCHANGED <<mStdTasks, mNonStdTasks, mRunning, worker, fate, reaping>>

run ==
  /\ mPaused' = FALSE /\ WakeAll
  /\ UNCHANGED <<mStdTasks, mNonStdTasks, mRunning, fate, reaping>>

(* pop: each kind of worker looks into its own queue first.                            *)
pop(w, t) ==
  LET std == mStdTasks # <<>> /\ (w \in HighWorker \/ mNonStdTasks = <<>>) IN
  /\ t = IF std THEN Head(mStdTasks) ELSE Head(mNonStdTasks)
  /\ mStdTasks' = IF std THEN Tail(mStdTasks) ELSE mStdTasks
  /\ mNonStdTasks' = IF std THEN mNonStdTasks ELSE Tail(mNonStdTasks)

(* One round of the worker's loop up to the task.                                      *)
Worker(w) ==
  /\ worker[w] = "loop"
  /\ \/ /\ ~mRunning
        /\ worker' = [worker EXCEPT ![w] = "gone"]
        /\ UNCHANGED <<mStdTasks, mNonStdTasks, fate>>
     \/ /\ mRunning /\ (empty \/ mPaused)
        /\ worker' = [worker EXCEPT ![w] = "asleep"]
        /\ UNCHANGED <<mStdTasks, mNonStdTasks, fate>>
     \/ /\ mRunning /\ ~empty /\ ~mPaused
        /\ \E t \in Task : /\ pop(w, t)
                           /\ worker' = [worker EXCEPT ![w] = t]
                           /\ fate' = [fate EXCEPT ![t] = "running"]
  /\ UNCHANGED <<mRunning, mPaused, reaping>>

TaskDone(w) ==
  /\ worker[w] \in Task
  /\ fate' = [fate EXCEPT ![worker[w]] = "done"]
  /\ worker' = [worker EXCEPT ![w] = "loop"]
  /\ UNCHANGED <<mStdTasks, mNonStdTasks, mRunning, mPaused, reaping>>

(* A mutant: it wakes nobody.                                                          *)
DestructorSilent ==
  /\ mRunning /\ mRunning' = FALSE /\ reaping' = TRUE
  /\ UNCHANGED <<mStdTasks, mNonStdTasks, mPaused, worker, fate>>

(* The destructor wakes everyone; what is still queued is never run.                   *)
Destructor ==
  /\ mRunning /\ mRunning' = FALSE /\ reaping' = TRUE /\ WakeAll
  /\ UNCHANGED <<mStdTasks, mNonStdTasks, mPaused, fate>>

Joined ==
  /\ reaping /\ \A w \in Workers : worker[w] = "gone"
  /\ reaping' = FALSE
  /\ UNCHANGED <<mStdTasks, mNonStdTasks, mRunning, mPaused, worker, fate>>

WorkerStep(w) == Worker(w) \/ TaskDone(w)

Next ==
  \/ \E t \in Task : submit(t)
  \/ pause \/ run \/ Destructor \/ Joined
  \/ \E w \in Workers : WorkerStep(w)

-------------------------------------------------------------------------------
(* No task waits for a worker that sleeps: a pool that may run has a worker awake, in  *)
(* its loop or in a task it will return from (submit, run).                            *)
TaskWakeups ==
  (~empty /\ ~mPaused /\ mRunning) => \E w \in Workers : worker[w] # "asleep"

(* A queued task that is to be run, as the pool is neither paused nor stopped.         *)
TaskWaits == mRunning /\ ~mPaused /\ \E t \in Task : fate[t] = "queued"
===============================================================================
