------------------------------- MODULE MCThreads -------------------------------
(* The thread primitives for TLC, side by side: `part' says which of them a behaviour  *)
(* is about, and the others stay as they are.  The state space is the sum of theirs.   *)
EXTENDS WPUSMutex, ThreadPrimitives

VARIABLE part

MCPriority == [j1 |-> "High", j2 |-> "High", j3 |-> "Low", j4 |-> "Medium"]
MCPeriod == [once |-> 0, ever |-> 1]

all == <<part, mutexVars, queueVars, ps, ts, ss, hs>>

MCInit ==
  /\ part \in {"mutex", "queue", "pool", "tasks", "chores", "http"}
  /\ MutexInit /\ QueueInit /\ P!Init /\ T!Init /\ S!Init /\ H!Init
  /\ part # "queue" => ~variableSizeObjects

(* Parts that have come to their end stay there.                                      *)
Over ==
  /\ \/ part = "pool" /\ closing /\ mRunningCheckers = <<>>
     \/ part = "tasks" /\ ~mRunning /\ ~reaping
     \/ part = "chores" /\ \A s \in Service : thread[s].pc = "gone"
     \/ part = "http" /\ main = "deleted"
  /\ UNCHANGED all

Mutex == part = "mutex" /\ MutexNext
  /\ UNCHANGED <<part, queueVars, ps, ts, ss, hs>>
Queue == part = "queue" /\ QueueNext
  /\ UNCHANGED <<part, mutexVars, ps, ts, ss, hs>>
Checkers == part = "pool" /\ P!Next
  /\ UNCHANGED <<part, mutexVars, queueVars, ts, ss, hs>>
Tasks == part = "tasks" /\ T!Next
  /\ UNCHANGED <<part, mutexVars, queueVars, ps, ss, hs>>
Chores == part = "chores" /\ S!Next
  /\ UNCHANGED <<part, mutexVars, queueVars, ps, ts, hs>>
Http == part = "http" /\ H!Next
  /\ UNCHANGED <<part, mutexVars, queueVars, ps, ts, ss>>

MCNext == Mutex \/ Queue \/ Checkers \/ Tasks \/ Chores \/ Http \/ Over

(* Every thread that can run does run, every session and every task ends, and time     *)
(* passes.                                                                             *)
MCFairness ==
  /\ \A t \in Threads :
       /\ WF_mutexVars(part = "mutex" /\ ReadWake(t))
       /\ WF_mutexVars(part = "mutex" /\ WriteWake(t))
       /\ WF_mutexVars(part = "mutex" /\ TryEnter(t))
       /\ WF_mutexVars(part = "mutex" /\ TryWake(t))
       /\ WF_mutexVars(part = "mutex" /\ Release(t))
  /\ \A c \in Caller : WF_queueVars(part = "queue" /\ Step(c))
  /\ \A w \in T!Workers : WF_ts(part = "tasks" /\ T!WorkerStep(w))
  /\ WF_ts(part = "tasks" /\ T!Joined)
  /\ \A s \in Service : WF_ss(part = "chores" /\ S!ServiceStep(s))
  /\ WF_ss(part = "chores" /\ S!Tick)
  /\ \A w \in HttpWorker : WF_hs(part = "http" /\ H!WorkerStep(w))
  /\ WF_hs(part = "http" /\ H!StopHTTPServer)

MCSpec == MCInit /\ [][MCNext]_all /\ MCFairness

-------------------------------------------------------------------------------
(* What was queued is run: the tasks of the thread pool and the entries of the           *)
(* scheduler, unless they are paused or stopped, the requests of the HTTP server.        *)
Waiting == T!TaskWaits \/ S!ChoreWaits \/ H!RequestWaits
Served == Waiting ~> ~Waiting

(* Who waits for the end of a part returns: a blocking call of a closed queue, the       *)
(* destructor of the thread pool, a stopped scheduler, StopHTTPServer.                   *)
Ending == Blocks("a") \/ reaping \/ S!Stopping \/ H!Stopping
Stops == Ending ~> ~Ending
===============================================================================
