----------------------------- MODULE HTTPWorkQueue -----------------------------
(* The HTTP server's work queue (httpserver.cpp): the event thread dispatches requests  *)
(* to detached worker threads; the main thread interrupts the server, waits for the     *)
(* workers it knows of and deletes the queue.  Workers and the main thread sleep on the *)
(* same condition variable.                                                             *)
EXTENDS Integers, Sequences, FiniteSets

CONSTANTS HttpWorker, Request, maxDepth

VARIABLES queue, running, numThreads,
          wpc,        \* [HttpWorker -> "start", "loop", "asleep", "gone" or a request]
          main,       \* "serve", "interrupted", "waiting", "asleep", "deleted"
          reply       \* [Request -> "new", "dispatched", "queued", "run" or its answer]

httpVars == <<queue, running, numThreads, wpc, main, reply>>

Init ==
  /\ queue = <<>> /\ running = TRUE /\ numThreads = 0
  /\ wpc = [w \in HttpWorker |-> "start"] /\ main = "serve"
  /\ reply = [r \in Request |-> "new"]

notify_all == [w \in HttpWorker |-> IF wpc[w] = "asleep" THEN "loop" ELSE wpc[w]]
MainAwake == IF main = "asleep" THEN "waiting" ELSE main

(* The callback libevent runs: http_request_cb, and http_reject_request_cb after       *)
(* InterruptHTTPServer has replaced it.                                                *)
http_request_cb(r) ==
  /\ reply[r] = "new" /\ main # "deleted"
  /\ reply' = [reply EXCEPT ![r] = IF main = "serve" THEN "dispatched" ELSE "rejected"]
  /\ UNCHANGED <<queue, running, numThreads, wpc, main>>

(* Enqueue does not look at `running'.                                                 *)
Enqueue(r) ==
  /\ reply[r] = "dispatched" /\ main # "deleted"
  /\ IF Len(queue) >= maxDepth
     THEN reply' = [reply EXCEPT ![r] = "full"] /\ UNCHANGED <<queue, wpc, main>>
     ELSE /\ queue' = Append(queue, r)
          /\ reply' = [reply EXCEPT ![r] = "queued"]
          /\ \/ \E w \in HttpWorker : wpc[w] = "asleep" /\ wpc' = [wpc EXCEPT ![w] = "loop"]
                                      /\ UNCHANGED main
             \/ main = "asleep" /\ main' = "waiting" /\ UNCHANGED wpc
             \/ /\ main # "asleep" /\ \A w \in HttpWorker : wpc[w] # "asleep"
                /\ UNCHANGED <<wpc, main>>
  /\ UNCHANGED <<running, numThreads>>

(* The constructor of ThreadCounter.                                                   *)
StartWorker(w) ==
  /\ wpc[w] = "start" /\ main # "deleted"
  /\ numThreads' = numThreads + 1 /\ wpc' = [wpc EXCEPT ![w] = "loop"]
  /\ UNCHANGED <<queue, running, main, reply>>

(* One round of Run; the destructor of ThreadCounter at its end.                       *)
Run(w) ==
  /\ wpc[w] = "loop"
  /\ \/ /\ ~running
        /\ numThreads' = numThreads - 1
        /\ wpc' = [notify_all EXCEPT ![w] = "gone"] /\ main' = MainAwake
        /\ UNCHANGED <<queue, reply>>
     \/ /\ running /\ queue = <<>>
        /\ wpc' = [wpc EXCEPT ![w] = "asleep"] /\ UNCHANGED <<queue, numThreads, main, reply>>
     \/ /\ running /\ queue # <<>>
        /\ queue' = Tail(queue) /\ wpc' = [wpc EXCEPT ![w] = Head(queue)]
        /\ reply' = [reply EXCEPT ![Head(queue)] = "run"]
        /\ UNCHANGED <<numThreads, main>>
  /\ UNCHANGED running

(* The item is called and answers; its destructor answers if the handler did not.      *)
WorkItem(w) ==
  /\ wpc[w] \in Request
  /\ \E a \in {"served", "unhandled"} : reply' = [reply EXCEPT ![wpc[w]] = a]
  /\ wpc' = [wpc EXCEPT ![w] = "loop"]
  /\ UNCHANGED <<queue, running, numThreads, main>>

InterruptHTTPServer ==
  /\ main = "serve"
  /\ main' = "interrupted" /\ running' = FALSE /\ wpc' = notify_all
  /\ UNCHANGED <<queue, numThreads, reply>>

(* WaitExit, and the deletion of the queue with the items left in it.                  *)
StopHTTPServer ==
  /\ main \in {"interrupted", "waiting"}
  /\ IF numThreads > 0 THEN main' = "asleep" /\ UNCHANGED <<queue, reply>>
     ELSE /\ main' = "deleted" /\ queue' = <<>>
          /\ reply' = [r \in Request |-> IF reply[r] = "queued" THEN "unhandled" ELSE reply[r]]
  /\ UNCHANGED <<running, numThreads, wpc>>

WorkerStep(w) == StartWorker(w) \/ Run(w) \/ WorkItem(w)

Next ==
  \/ \E r \in Request : http_request_cb(r) \/ Enqueue(r)
  \/ \E w \in HttpWorker : WorkerStep(w)
  \/ InterruptHTTPServer \/ StopHTTPServer

-------------------------------------------------------------------------------
(* A request in the queue of a running server has a worker awake to take it.           *)
HttpWakeups ==
  (running /\ queue # <<>>) => \E w \in HttpWorker : wpc[w] \notin {"asleep", "gone"}

(* A request that was queued is to get an answer, at the latest from its destructor.   *)
RequestWaits == \E r \in Request : reply[r] = "queued"

(* StopHTTPServer is to get past WaitExit, although it sleeps on the condition variable *)
(* of the workers.                                                                     *)
Stopping == main \in {"interrupted", "waiting", "asleep"}

(* "Precondition: worker threads have all stopped (call WaitExit)": no worker is left  *)
(* when the queue is deleted.                                                          *)
WorkersStopped == main = "deleted" => \A w \in HttpWorker : wpc[w] = "gone"
===============================================================================
