------------------------------- MODULE Scheduler -------------------------------
(* CScheduler (scheduler.cpp, scheduler.h): tasks in the order of their times, and     *)
(* threads that service them.  A thread waits on newTaskScheduled, without a limit     *)
(* while the queue is empty and until the time of its first entry otherwise; it is     *)
(* then "asleep" until a notification or its time lets it look again.                  *)
EXTENDS Integers, Sequences

CONSTANTS Service,   \* threads in serviceQueue
          Chore,     \* functions that are scheduled
          Period,    \* [Chore -> Nat], 0 for a function that does not repeat
          MaxTime    \* bound on the clock

VARIABLES taskQueue,  \* sequence of [f, t], ordered by time
          now, stopRequested, stopWhenEmpty,
          thread,     \* [Service -> [pc, t, f]]
          scheduled   \* functions that were handed to schedule

schedVars == <<taskQueue, now, stopRequested, stopWhenEmpty, thread, scheduled>>

At(pc) == [pc |-> pc, t |-> 0, f |-> "none"]

Running(e) == [pc |-> "run", t |-> e.t, f |-> e.f]

Init ==
  /\ taskQueue = <<>> /\ now = 0 /\ stopRequested = FALSE /\ stopWhenEmpty = FALSE
  /\ thread = [s \in Service |-> At("loop")] /\ scheduled = {}

shouldStop == stopRequested \/ (stopWhenEmpty /\ taskQueue = <<>>)

(* std::multimap::insert: behind the entries of the same time.                         *)
insert(f, t) ==
  \E n \in 0..Len(taskQueue) :
    /\ \A i \in DOMAIN taskQueue : i <= n <=> taskQueue[i].t <= t
    /\ taskQueue' = SubSeq(taskQueue, 1, n) \o <<[f |-> f, t |-> t]>>
                      \o SubSeq(taskQueue, n + 1, Len(taskQueue))

Sleeping(th) == {s \in Service : th[s].pc \in {"wait", "wait_until"}}

notify_one(th) ==
  IF Sleeping(th) = {} THEN {th}
  ELSE {[th EXCEPT ![s] = At("loop")] : s \in Sleeping(th)}

schedule(f, t) ==
  /\ f \notin scheduled
  /\ scheduled' = scheduled \cup {f}
  /\ insert(f, t)
  /\ thread' \in notify_one(thread)
  /\ UNCHANGED <<now, stopRequested, stopWhenEmpty>>

(* The loop of serviceQueue up to a wait, or out of the loop.                          *)
serviceQueue(s) ==
  /\ thread[s].pc = "loop"
  /\ IF shouldStop
     THEN thread' \in notify_one([thread EXCEPT ![s] = At("gone")])
     ELSE thread' = [thread EXCEPT ![s] =
                       IF taskQueue = <<>> THEN At("wait")
                       ELSE [pc |-> "wait_until", t |-> Head(taskQueue).t, f |-> "none"]]
  /\ UNCHANGED <<taskQueue, now, stopRequested, stopWhenEmpty, scheduled>>

(* A mutant: any end of the wait is taken for the end of the time.                     *)
TimeoutEarly(s) ==
  /\ thread[s].pc = "wait_until"
  /\ IF shouldStop \/ taskQueue = <<>>
     THEN thread' = [thread EXCEPT ![s] = At("loop")] /\ UNCHANGED taskQueue
     ELSE /\ thread' = [thread EXCEPT ![s] = Running(Head(taskQueue))]
          /\ taskQueue' = Tail(taskQueue)
  /\ UNCHANGED <<now, stopRequested, stopWhenEmpty, scheduled>>

(* The time the thread waited for has come: it takes the first entry of the queue.     *)
Timeout(s) ==
  /\ thread[s].pc = "wait_until" /\ now >= thread[s].t
  /\ IF shouldStop \/ taskQueue = <<>>
     THEN thread' = [thread EXCEPT ![s] = At("loop")] /\ UNCHANGED taskQueue
     ELSE /\ thread' = [thread EXCEPT ![s] = Running(Head(taskQueue))]
          /\ taskQueue' = Tail(taskQueue)
  /\ UNCHANGED <<now, stopRequested, stopWhenEmpty, scheduled>>

(* The function returns; Repeat schedules it again.                                    *)
Repeat(s) ==
  LET f == thread[s].f
      back == [thread EXCEPT ![s] = At("loop")]
  IN
  /\ thread[s].pc = "run"
  /\ IF Period[f] > 0 /\ now + Period[f] <= MaxTime
     THEN insert(f, now + Period[f]) /\ thread' \in notify_one(back)
     ELSE thread' = back /\ UNCHANGED taskQueue
  /\ UNCHANGED <<now, stopRequested, stopWhenEmpty, scheduled>>

stop(drain) ==
  /\ ~stopRequested /\ ~stopWhenEmpty
  /\ stopWhenEmpty' = drain /\ stopRequested' = ~drain
  /\ thread' = [s \in Service |-> IF s \in Sleeping(thread) THEN At("loop") ELSE thread[s]]
  /\ UNCHANGED <<taskQueue, now, scheduled>>

Tick ==
  /\ now < MaxTime /\ now' = now + 1
  /\ UNCHANGED <<taskQueue, stopRequested, stopWhenEmpty, thread, scheduled>>

ServiceStep(s) == serviceQueue(s) \/ Timeout(s) \/ Repeat(s)

Next ==
  \/ \E f \in Chore, t \in 0..MaxTime : schedule(f, t)
  \/ \E s \in Service : ServiceStep(s)
  \/ \E d \in BOOLEAN : stop(d)
  \/ Tick

-------------------------------------------------------------------------------
(* "Call func at/after time t": no function is called before its time (schedule).      *)
NotEarly == \A s \in Service : thread[s].pc = "run" => thread[s].t <= now

(* An entry of the queue is to be serviced while there is a thread that serves it; a   *)
(* scheduler that is drained serves what it has.                                       *)
ChoreWaits ==
  /\ ~stopRequested /\ \E s \in Service : thread[s].pc # "gone"
  /\ \E i \in DOMAIN taskQueue : Period[taskQueue[i].f] = 0

(* A thread of a stopped scheduler is still in serviceQueue.                           *)
Stopping == stopRequested /\ \E s \in Service : thread[s].pc # "gone"
===============================================================================
