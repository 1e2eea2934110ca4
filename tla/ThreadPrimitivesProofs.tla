------------------------ MODULE ThreadPrimitivesProofs ------------------------
(* Proofs about the places where threads wait for each other, for any number of        *)
(* threads, queues, tasks and requests.                                                *)
EXTENDS ThreadPrimitives, ThreadSafeQueueProofs

-------------------------------------------------------------------------------
(* The scheduler.  A thread that waits for a time waits for that of the first entry:   *)
(* whatever changes the queue wakes it.                                                *)
ChoresInv ==
  /\ now \in Nat /\ taskQueue \in Seq([f : Chore, t : Nat])
  /\ DOMAIN thread = Service
  /\ \A s \in Service :
       /\ thread[s].pc \in {"loop", "wait", "wait_until", "run", "gone"}
       /\ thread[s].pc = "wait_until" =>
            taskQueue # <<>> /\ thread[s].t = Head(taskQueue).t
       /\ thread[s].pc = "run" => thread[s].f \in Chore /\ thread[s].t \in Nat /\ thread[s].t <= now

(* The pool of check queues.  While somebody is blocked there are at least as many     *)
(* validators on their way to an idle queue as there are idle queues.                  *)
Coming == {v \in Validator \ blocked : asked[v] # 0}

Checkers == [owner : Validator, value : Value, checker : P!Pool, cancelled : BOOLEAN]

Owned(busy, idle) ==
  /\ \A i, j \in 1..Len(busy) : busy[i].checker = busy[j].checker => i = j
  /\ \A i, j \in 1..Len(idle) : idle[i] = idle[j] => i = j
  /\ \A i \in 1..Len(busy), j \in 1..Len(idle) : busy[i].checker # idle[j]
  /\ \A q \in P!Pool : \/ \E i \in 1..Len(busy) : busy[i].checker = q
                       \/ \E j \in 1..Len(idle) : idle[j] = q

CheckersInv ==
  /\ mIdleQueues \in Seq(P!Pool)
  /\ mRunningCheckers \in Seq(Checkers)
  /\ asked \in [Validator -> Value \cup {0}]
  /\ \A v \in blocked : v \in Validator /\ asked[v] # 0
  /\ blocked # {} => Len(mIdleQueues) <= Cardinality(Coming)
  /\ Owned(mRunningCheckers, mIdleQueues)

(* The thread pool.                                                                    *)
TasksInv ==
  /\ DOMAIN worker = T!Workers /\ T!TaskWakeups

(* The HTTP work queue.  No worker of a running server has left, and nobody waits for  *)
(* it to leave.                                                                        *)
HttpInv ==
  /\ queue \in Seq(Request) /\ DOMAIN wpc = HttpWorker
  /\ running => main = "serve" /\ \A w \in HttpWorker : wpc[w] # "gone"
  /\ H!HttpWakeups

-------------------------------------------------------------------------------
LEMMA Cut ==
  ASSUME NEW X, NEW q \in Seq(X), NEW k \in 0..Len(q)
  PROVE  SubSeq(q, 1, k) \in Seq(X) /\ SubSeq(q, k + 1, Len(q)) \in Seq(X)
OBVIOUS

-------------------------------------------------------------------------------
LEMMA ChoresStep ==
  ASSUME ChoresInv, S!Next \/ UNCHANGED ss
  PROVE  ChoresInv'
<1> USE DEF S!At, S!Running
<1>0. PICK s0 \in Service : Service = {s0}
  BY PrimitivesAssumption
<1>a. Period \in [Chore -> Nat] /\ MaxTime \in Nat
  BY PrimitivesAssumption
<1>1. ASSUME NEW f \in Chore, NEW t \in Nat, S!insert(f, t)
      PROVE  taskQueue' \in Seq([f : Chore, t : Nat])
  <2>1. taskQueue \in Seq([f : Chore, t : Nat])
    BY DEF ChoresInv
  <2>2. PICK k \in 0..Len(taskQueue) :
          taskQueue' = SubSeq(taskQueue, 1, k) \o <<[f |-> f, t |-> t]>>
                         \o SubSeq(taskQueue, k + 1, Len(taskQueue))
    BY <1>1 DEF S!insert
  <2>3. /\ SubSeq(taskQueue, 1, k) \in Seq([f : Chore, t : Nat])
        /\ SubSeq(taskQueue, k + 1, Len(taskQueue)) \in Seq([f : Chore, t : Nat])
    BY <2>1, Cut
  <2>4. <<[f |-> f, t |-> t]>> \in Seq([f : Chore, t : Nat])
    OBVIOUS
  <2> QED BY <2>2, <2>3, <2>4
<1>2. ASSUME NEW f \in Chore, NEW t \in 0..MaxTime, S!schedule(f, t) PROVE ChoresInv'
  <2>1. taskQueue' \in Seq([f : Chore, t : Nat]) /\ now' = now
    <3>1. t \in Nat
      BY <1>a
    <3> QED BY <1>1, <1>2, <3>1 DEF S!schedule
  <2>2. CASE S!Sleeping(thread) = {}
    <3>1. thread' = thread /\ thread[s0].pc \notin {"wait", "wait_until"}
      BY <1>0, <1>2, <2>2 DEF S!schedule, S!notify_one, S!Sleeping
    <3> QED BY <1>0, <2>1, <3>1 DEF ChoresInv
  <2>3. CASE S!Sleeping(thread) # {}
    <3>1. thread' = [thread EXCEPT ![s0] = S!At("loop")]
      BY <1>0, <1>2, <2>3 DEF S!schedule, S!notify_one, S!Sleeping
    <3> QED BY <1>0, <2>1, <3>1 DEF ChoresInv
  <2> QED BY <2>2, <2>3
<1>3. ASSUME NEW s \in Service, S!serviceQueue(s) PROVE ChoresInv'
  <2>1. UNCHANGED <<taskQueue, now>> /\ s = s0
    BY <1>0, <1>3 DEF S!serviceQueue
  <2>2. CASE S!shouldStop
    <3> DEFINE th == [thread EXCEPT ![s] = S!At("gone")]
    <3>1. S!Sleeping(th) = {}
      BY <1>0, <2>1 DEF S!Sleeping, ChoresInv
    <3>2. thread' = th
      BY <1>3, <2>2, <3>1 DEF S!serviceQueue, S!notify_one
    <3> QED BY <1>0, <2>1, <3>2 DEF ChoresInv
  <2>3. CASE ~S!shouldStop
    BY <1>0, <1>3, <2>1, <2>3 DEF S!serviceQueue, ChoresInv
  <2> QED BY <2>2, <2>3
<1>4. ASSUME NEW s \in Service, S!Timeout(s) PROVE ChoresInv'
  <2>1. s = s0 /\ now' = now
    BY <1>0, <1>4 DEF S!Timeout
  <2>2. CASE S!shouldStop \/ taskQueue = <<>>
    BY <1>0, <1>4, <2>1, <2>2 DEF S!Timeout, ChoresInv
  <2>3. CASE ~(S!shouldStop \/ taskQueue = <<>>)
    <3>1. /\ thread' = [thread EXCEPT ![s] = S!Running(Head(taskQueue))]
          /\ taskQueue' = Tail(taskQueue) /\ thread[s].pc = "wait_until" /\ now >= thread[s].t
      BY <1>4, <2>3 DEF S!Timeout
    <3>2. Head(taskQueue) \in [f : Chore, t : Nat] /\ Tail(taskQueue) \in Seq([f : Chore, t : Nat])
      <4>1. taskQueue \in Seq([f : Chore, t : Nat]) /\ taskQueue # <<>>
        BY <2>3 DEF ChoresInv
      <4> QED BY <4>1, HeadTail
    <3>3. Head(taskQueue).t <= now
      BY <3>1, <3>2 DEF ChoresInv
    <3> QED BY <1>0, <2>1, <3>1, <3>2, <3>3 DEF ChoresInv
  <2> QED BY <2>2, <2>3
<1>5. ASSUME NEW s \in Service, S!Repeat(s) PROVE ChoresInv'
  <2> DEFINE f == thread[s].f
             back == [thread EXCEPT ![s] = S!At("loop")]
  <2>1. s = s0 /\ now' = now /\ f \in Chore
    BY <1>0, <1>5 DEF S!Repeat, ChoresInv
  <2>2. S!Sleeping(back) = {}
    BY <1>0, <2>1 DEF S!Sleeping, ChoresInv
  <2>3. thread' = back
    BY <1>5, <2>2 DEF S!Repeat, S!notify_one
  <2>4. taskQueue' \in Seq([f : Chore, t : Nat])
    <3>1. CASE Period[f] > 0 /\ now + Period[f] <= MaxTime
      <4>1. now + Period[f] \in Nat
        BY <1>a, <2>1 DEF ChoresInv
      <4> QED BY <1>1, <1>5, <2>1, <3>1, <4>1 DEF S!Repeat
    <3>2. CASE ~(Period[f] > 0 /\ now + Period[f] <= MaxTime)
      BY <1>5, <3>2 DEF S!Repeat, ChoresInv
    <3> QED BY <3>1, <3>2
  <2> QED BY <1>0, <2>1, <2>3, <2>4 DEF ChoresInv
<1>6. ASSUME NEW d \in BOOLEAN, S!stop(d) PROVE ChoresInv'
  BY <1>0, <1>6 DEF S!stop, S!Sleeping, ChoresInv
<1>7. ASSUME S!Tick PROVE ChoresInv'
  BY <1>0, <1>7 DEF S!Tick, ChoresInv
<1>8. ASSUME UNCHANGED ss PROVE ChoresInv'
  BY <1>8 DEF ss, ChoresInv
<1> QED BY <1>2, <1>3, <1>4, <1>5, <1>6, <1>7, <1>8 DEF S!Next, S!ServiceStep

(* The scheduler calls no function before its time, however schedule, the time and     *)
(* stop interleave with its service thread.                                            *)
THEOREM NeverEarly == ChoresSpec => []NotEarly
<1>1. S!Init => ChoresInv
  BY PrimitivesAssumption DEF S!Init, S!At, ChoresInv
<1>2. ChoresInv /\ [S!Next]_ss => ChoresInv'
  BY ChoresStep
<1>3. ChoresInv => NotEarly
  BY DEF ChoresInv, NotEarly, S!NotEarly
<1> QED BY <1>1, <1>2, <1>3, PTL DEF ChoresSpec

-------------------------------------------------------------------------------
(* A task of a pool that may run has a worker awake.                                   *)
LEMMA TasksAwake == TasksSpec => []T!TaskWakeups
<1>0. T!Workers # {} /\ "asleep" \notin Task
  BY PrimitivesAssumption DEF T!Workers
<1> USE <1>0
<1>1. T!Init => TasksInv
  BY DEF T!Init, TasksInv, T!TaskWakeups, T!empty
<1>2. ASSUME TasksInv, [T!Next]_ts PROVE TasksInv'
  <2> USE <1>2 DEF TasksInv, T!TaskWakeups, T!empty
  <2>1. ASSUME NEW t \in Task, T!submit(t) PROVE TasksInv'
    BY <2>1 DEF T!submit, T!Asleep
  <2>2. CASE T!pause
    BY <2>2 DEF T!pause
  <2>3. CASE T!run
    BY <2>3 DEF T!run, T!WakeAll
  <2>4. CASE T!Destructor
    BY <2>4 DEF T!Destructor, T!WakeAll
  <2>5. CASE T!Joined
    BY <2>5 DEF T!Joined
  <2>6. ASSUME NEW w \in T!Workers, T!Worker(w) PROVE TasksInv'
    BY <2>6 DEF T!Worker
  <2>7. ASSUME NEW w \in T!Workers, T!TaskDone(w) PROVE TasksInv'
    BY <2>7 DEF T!TaskDone
  <2>8. CASE UNCHANGED ts
    BY <2>8 DEF ts
  <2> QED BY <2>1, <2>2, <2>3, <2>4, <2>5, <2>6, <2>7, <2>8 DEF T!Next, T!WorkerStep
<1>3. TasksInv => T!TaskWakeups
  BY DEF TasksInv
<1> QED BY <1>1, <1>2, <1>3, PTL DEF TasksSpec

(* A request in the queue of a running HTTP server has a worker awake.                 *)
LEMMA RequestsAwake == HttpSpec => []H!HttpWakeups
<1>0. HttpWorker # {} /\ "asleep" \notin Request /\ "gone" \notin Request
  BY PrimitivesAssumption
<1> USE <1>0
<1>1. H!Init => HttpInv
  BY DEF H!Init, HttpInv, H!HttpWakeups
<1>2. ASSUME HttpInv, [H!Next]_hs PROVE HttpInv'
  <2> USE <1>2 DEF HttpInv, H!HttpWakeups
  <2>1. ASSUME NEW r \in Request, H!http_request_cb(r) PROVE HttpInv'
    BY <2>1 DEF H!http_request_cb
  <2>2. ASSUME NEW r \in Request, H!Enqueue(r) PROVE HttpInv'
    <3>1. CASE UNCHANGED <<queue, wpc, main>>
      BY <2>2, <3>1 DEF H!Enqueue
    <3>2. CASE queue' = Append(queue, r)
      <4>1. queue' \in Seq(Request) /\ running' = running
        BY <2>2, <3>2 DEF H!Enqueue
      <4>2. CASE \E w \in HttpWorker : wpc[w] = "asleep" /\ wpc' = [wpc EXCEPT ![w] = "loop"] /\ UNCHANGED main
        BY <4>1, <4>2
      <4>3. CASE main = "asleep" /\ main' = "waiting" /\ UNCHANGED wpc
        BY <4>1, <4>3
      <4>4. CASE (\A w \in HttpWorker : wpc[w] # "asleep") /\ UNCHANGED <<wpc, main>>
        BY <4>1, <4>4
      <4> QED BY <2>2, <3>1, <4>2, <4>3, <4>4 DEF H!Enqueue
    <3> QED BY <2>2, <3>1, <3>2 DEF H!Enqueue
  <2>3. ASSUME NEW w \in HttpWorker, H!StartWorker(w) PROVE HttpInv'
    BY <2>3 DEF H!StartWorker
  <2>4. ASSUME NEW w \in HttpWorker, H!Run(w) PROVE HttpInv'
    <3>1. CASE ~running
      BY <2>4, <3>1 DEF H!Run, H!notify_all
    <3>2. CASE running /\ queue = <<>>
      BY <2>4, <3>2 DEF H!Run
    <3>3. CASE running /\ queue # <<>>
      <4>1. /\ queue' = Tail(queue) /\ wpc' = [wpc EXCEPT ![w] = Head(queue)]
            /\ UNCHANGED <<running, main>>
        BY <2>4, <3>3 DEF H!Run
      <4>2. Tail(queue) \in Seq(Request) /\ Head(queue) \in Request
        BY <3>3, HeadTail
      <4> QED BY <4>1, <4>2
    <3> QED BY <3>1, <3>2, <3>3
  <2>5. ASSUME NEW w \in HttpWorker, H!WorkItem(w) PROVE HttpInv'
    BY <2>5 DEF H!WorkItem
  <2>6. CASE H!InterruptHTTPServer
    BY <2>6 DEF H!InterruptHTTPServer, H!notify_all
  <2>7. CASE H!StopHTTPServer
    <3>1. ~running /\ running' = running /\ wpc' = wpc
      BY <2>7 DEF H!StopHTTPServer
    <3>2. queue' = queue \/ queue' = <<>>
      BY <2>7 DEF H!StopHTTPServer
    <3>3. queue \in Seq(Request) /\ <<>> \in Seq(Request)
      OBVIOUS
    <3>4. queue' \in Seq(Request)
      BY <3>2, <3>3
    <3> QED BY <3>1, <3>4
  <2>8. CASE UNCHANGED hs
    BY <2>8 DEF hs
  <2> QED BY <2>1, <2>2, <2>3, <2>4, <2>5, <2>6, <2>7, <2>8 DEF H!Next, H!WorkerStep
<1>3. HttpInv => H!HttpWakeups
  BY DEF HttpInv
<1> QED BY <1>1, <1>2, <1>3, PTL DEF HttpSpec

-------------------------------------------------------------------------------
LEMMA Taken ==
  ASSUME NEW v \in Validator, NEW value \in Value,
         NEW busy \in Seq(Checkers), NEW idle \in Seq(P!Pool), idle # <<>>, Owned(busy, idle)
  PROVE  LET b == Append(busy, [owner |-> v, value |-> value, checker |-> Head(idle),
                                cancelled |-> FALSE])
         IN  b \in Seq(Checkers) /\ Tail(idle) \in Seq(P!Pool) /\ Owned(b, Tail(idle))
<1> DEFINE e == [owner |-> v, value |-> value, checker |-> Head(idle), cancelled |-> FALSE]
           b == Append(busy, e)
<1>1. /\ Head(idle) = idle[1] /\ Head(idle) \in P!Pool /\ Tail(idle) \in Seq(P!Pool)
      /\ Len(idle) \in Nat /\ Len(idle) > 0 /\ Len(Tail(idle)) = Len(idle) - 1
      /\ \A i \in 1..(Len(idle) - 1) : Tail(idle)[i] = idle[i + 1]
  BY HeadTail
<1>2. e \in Checkers /\ e.checker = idle[1]
  BY <1>1 DEF Checkers
<1> HIDE DEF e
<1>3. /\ b \in Seq(Checkers) /\ Len(busy) \in Nat /\ Len(b) = Len(busy) + 1
      /\ b[Len(busy) + 1] = e
      /\ \A i \in 1..Len(busy) : b[i] = busy[i]
  BY <1>2
<1> HIDE DEF b
<1>4. \A i, j \in 1..Len(b) : b[i].checker = b[j].checker => i = j
  BY <1>1, <1>2, <1>3 DEF Owned
<1>5. \A i, j \in 1..Len(Tail(idle)) : Tail(idle)[i] = Tail(idle)[j] => i = j
  BY <1>1 DEF Owned
<1>6. \A i \in 1..Len(b), j \in 1..Len(Tail(idle)) : b[i].checker # Tail(idle)[j]
  BY <1>1, <1>2, <1>3 DEF Owned
<1>7. ASSUME NEW q \in P!Pool
      PROVE  \/ \E i \in 1..Len(b) : b[i].checker = q
             \/ \E j \in 1..Len(Tail(idle)) : Tail(idle)[j] = q
  <2>1. CASE \E i \in 1..Len(busy) : busy[i].checker = q
    BY <1>3, <2>1
  <2>2. ASSUME NEW j \in 1..Len(idle), idle[j] = q
        PROVE  \/ \E i \in 1..Len(b) : b[i].checker = q
               \/ \E k \in 1..Len(Tail(idle)) : Tail(idle)[k] = q
    <3>1. CASE j = 1
      BY <1>2, <1>3, <2>2, <3>1
    <3>2. CASE j # 1
      <4>1. j - 1 \in 1..Len(Tail(idle)) /\ Tail(idle)[j - 1] = q
        BY <1>1, <2>2, <3>2
      <4> QED BY <4>1
    <3> QED BY <3>1, <3>2
  <2> QED BY <2>1, <2>2 DEF Owned
<1>8. Owned(b, Tail(idle))
  BY <1>4, <1>5, <1>6, <1>7 DEF Owned
<1> QED BY <1>1, <1>3, <1>8 DEF b, e

LEMMA GivenBack ==
  ASSUME NEW busy \in Seq(Checkers), NEW idle \in Seq(P!Pool), Owned(busy, idle),
         NEW i \in 1..Len(busy)
  PROVE  /\ P!erase(busy, i) \in Seq(Checkers)
         /\ Append(idle, busy[i].checker) \in Seq(P!Pool)
         /\ Owned(P!erase(busy, i), Append(idle, busy[i].checker))
<1> DEFINE b == P!erase(busy, i)
           d == Append(idle, busy[i].checker)
           from(j) == IF j < i THEN j ELSE j + 1
<1>0. Len(busy) \in Nat /\ Len(idle) \in Nat /\ busy[i].checker \in P!Pool
  <2>1. busy[i] \in Checkers
    OBVIOUS
  <2>2. \A e \in Checkers : e.checker \in P!Pool
    BY DEF Checkers
  <2> QED BY <2>1, <2>2
<1>1. /\ \A j \in 1..(Len(busy) - 1) : from(j) \in 1..Len(busy) /\ from(j) # i
      /\ \A j, k \in 1..(Len(busy) - 1) : from(j) = from(k) => j = k
      /\ \A k \in 1..Len(busy) : k # i => \E j \in 1..(Len(busy) - 1) : from(j) = k
  <2>1. ASSUME NEW k \in 1..Len(busy), k # i
        PROVE  \E j \in 1..(Len(busy) - 1) : from(j) = k
    <3>1. CASE k < i
      BY <1>0, <3>1
    <3>2. CASE k > i
      <4>1. k - 1 \in 1..(Len(busy) - 1) /\ from(k - 1) = k
        BY <1>0, <3>2
      <4> QED BY <4>1
    <3> QED BY <1>0, <2>1, <3>1, <3>2
  <2> QED BY <1>0, <2>1
<1> HIDE DEF from
<1>2. b = [j \in 1..(Len(busy) - 1) |-> busy[from(j)]]
  <2>1. \A j \in 1..(Len(busy) - 1) : (IF j < i THEN busy[j] ELSE busy[j + 1]) = busy[from(j)]
    BY DEF from
  <2> QED BY <2>1 DEF P!erase
<1>3. b \in Seq(Checkers) /\ Len(b) = Len(busy) - 1 /\ \A j \in 1..Len(b) : b[j] = busy[from(j)]
  BY <1>0, <1>1, <1>2
<1>4. /\ d \in Seq(P!Pool) /\ Len(d) = Len(idle) + 1 /\ d[Len(idle) + 1] = busy[i].checker
      /\ \A j \in 1..Len(idle) : d[j] = idle[j]
  BY <1>0
<1> HIDE DEF b, d
<1>5. ASSUME NEW j \in 1..Len(b), NEW k \in 1..Len(b), b[j].checker = b[k].checker PROVE j = k
  <2>1. from(j) \in 1..Len(busy) /\ from(k) \in 1..Len(busy)
    BY <1>1, <1>3
  <2>2. busy[from(j)].checker = busy[from(k)].checker
    BY <1>3, <1>5
  <2>3. from(j) = from(k)
    BY <2>1, <2>2 DEF Owned
  <2> QED BY <1>1, <1>3, <2>3
<1>6. ASSUME NEW j \in 1..Len(d), NEW k \in 1..Len(d), d[j] = d[k] PROVE j = k
  <2>1. \A n \in 1..Len(d) : n \in 1..Len(idle) \/ n = Len(idle) + 1
    BY <1>0, <1>4
  <2>2. \A n \in 1..Len(idle) : d[n] = idle[n] /\ idle[n] # busy[i].checker
    BY <1>4 DEF Owned
  <2>3. CASE j \in 1..Len(idle) /\ k \in 1..Len(idle)
    BY <1>6, <2>2, <2>3 DEF Owned
  <2> QED BY <1>4, <1>6, <2>1, <2>2, <2>3
<1>7. ASSUME NEW j \in 1..Len(b), NEW k \in 1..Len(d) PROVE b[j].checker # d[k]
  <2>1. from(j) \in 1..Len(busy) /\ from(j) # i /\ b[j] = busy[from(j)]
    BY <1>1, <1>3
  <2>2. CASE k \in 1..Len(idle)
    BY <1>4, <2>1, <2>2 DEF Owned
  <2>3. CASE k = Len(idle) + 1
    BY <1>4, <2>1, <2>3 DEF Owned
  <2> QED BY <1>0, <1>4, <2>2, <2>3
<1>8. ASSUME NEW q \in P!Pool
      PROVE  (\E j \in 1..Len(b) : b[j].checker = q) \/ \E k \in 1..Len(d) : d[k] = q
  <2>1. ASSUME NEW k \in 1..Len(busy), busy[k].checker = q
        PROVE  (\E j \in 1..Len(b) : b[j].checker = q) \/ \E j \in 1..Len(d) : d[j] = q
    <3>1. CASE k = i
      BY <1>0, <1>4, <2>1, <3>1
    <3>2. CASE k # i
      <4>1. PICK j \in 1..(Len(busy) - 1) : from(j) = k
        BY <1>1, <3>2
      <4> QED BY <1>3, <2>1, <4>1
    <3> QED BY <3>1, <3>2
  <2>2. CASE \E k \in 1..Len(idle) : idle[k] = q
    BY <1>0, <1>4, <2>2
  <2> QED BY <2>1, <2>2 DEF Owned
<1>9. Owned(b, d)
  BY <1>5, <1>6, <1>7, <1>8 DEF Owned
<1> QED BY <1>3, <1>4, <1>9 DEF b, d

(* Only the order of the list, the owners and the values change.                       *)
LEMMA SameQueues ==
  ASSUME NEW busy \in Seq(Checkers), NEW idle \in Seq(P!Pool), Owned(busy, idle),
         NEW b, DOMAIN b = DOMAIN busy,
         \A i \in DOMAIN busy : b[i] \in Checkers /\ b[i].checker = busy[i].checker,
         b = [i \in DOMAIN busy |-> b[i]]
  PROVE  b \in Seq(Checkers) /\ Owned(b, idle)
<1>1. DOMAIN busy = 1..Len(busy) /\ Len(busy) \in Nat
  OBVIOUS
<1>2. b \in Seq(Checkers) /\ Len(b) = Len(busy)
  BY <1>1
<1> QED BY <1>1, <1>2 DEF Owned

LEMMA CheckersStep ==
  ASSUME CheckersInv, [P!Next]_ps
  PROVE  CheckersInv'
<1> USE DEF P!NoValue
<1>0. /\ mIdleQueues \in Seq(P!Pool) /\ mRunningCheckers \in Seq(Checkers)
      /\ Owned(mRunningCheckers, mIdleQueues) /\ asked \in [Validator -> Value \cup {0}]
      /\ \A v \in blocked : v \in Validator /\ asked[v] # 0
      /\ 0 \notin Value /\ Len(mIdleQueues) \in Nat
  BY PrimitivesAssumption DEF CheckersInv
<1>1. /\ IsFiniteSet(Coming) /\ Cardinality(Coming) \in Nat
      /\ IsFiniteSet(Coming') /\ Cardinality(Coming') \in Nat
  <2>1. Coming \in SUBSET Validator /\ Coming' \in SUBSET Validator
    BY DEF Coming
  <2>2. IsFiniteSet(Coming) /\ IsFiniteSet(Coming')
    BY <2>1, PrimitivesAssumption, FS_Subset
  <2> QED BY <2>2, FS_CardinalityType
<1>2. ASSUME NEW v \in Validator, NEW value \in Value, mIdleQueues # <<>>, P!Take(v, value)
      PROVE  /\ mIdleQueues' \in Seq(P!Pool) /\ mRunningCheckers' \in Seq(Checkers)
             /\ Owned(mRunningCheckers, mIdleQueues)'
             /\ Len(mIdleQueues') = Len(mIdleQueues) - 1
  <2>1. LET b == Append(mRunningCheckers, [owner |-> v, value |-> value,
                          checker |-> Head(mIdleQueues), cancelled |-> FALSE])
        IN  b \in Seq(Checkers) /\ Tail(mIdleQueues) \in Seq(P!Pool) /\ Owned(b, Tail(mIdleQueues))
    BY <1>0, <1>2, Taken
  <2>2. Len(Tail(mIdleQueues)) = Len(mIdleQueues) - 1
    BY <1>0, <1>2, HeadTail
  <2> QED BY <1>2, <2>1, <2>2 DEF P!Take
<1>3. ASSUME NEW v \in Validator, NEW value \in Value, P!GetChecker(v, value) PROVE CheckersInv'
  <2>1. CASE mIdleQueues # <<>>
    <3>1. P!Take(v, value) /\ UNCHANGED <<asked, blocked>>
      BY <1>3, <2>1 DEF P!GetChecker
    <3>2. Coming' = Coming
      BY <3>1 DEF Coming
    <3> QED BY <1>0, <1>1, <1>2, <2>1, <3>1, <3>2 DEF CheckersInv
  <2>2. CASE mIdleQueues = <<>>
    <3>1. /\ asked' = [asked EXCEPT ![v] = value] /\ blocked' = blocked \cup {v}
          /\ mIdleQueues' = mIdleQueues
          /\ \/ mRunningCheckers' = mRunningCheckers
             \/ \E w : mRunningCheckers' = [mRunningCheckers EXCEPT ![w].cancelled = TRUE]
      BY <1>3, <2>2 DEF P!GetChecker
    <3>2. ASSUME NEW w, mRunningCheckers' = [mRunningCheckers EXCEPT ![w].cancelled = TRUE]
          PROVE  mRunningCheckers' \in Seq(Checkers) /\ Owned(mRunningCheckers', mIdleQueues)
      <4>1. \A e \in Checkers : /\ [e EXCEPT !.cancelled = TRUE] \in Checkers
                               /\ [e EXCEPT !.cancelled = TRUE].checker = e.checker
        BY DEF Checkers
      <4>2. \A i \in DOMAIN mRunningCheckers : mRunningCheckers[i] \in Checkers
        BY <1>0
      <4>3. /\ DOMAIN mRunningCheckers' = DOMAIN mRunningCheckers
            /\ mRunningCheckers' = [i \in DOMAIN mRunningCheckers |-> mRunningCheckers'[i]]
            /\ \A i \in DOMAIN mRunningCheckers :
                  mRunningCheckers'[i] \in {mRunningCheckers[i],
                                            [mRunningCheckers[i] EXCEPT !.cancelled = TRUE]}
        BY <3>2
      <4>4. \A i \in DOMAIN mRunningCheckers :
              /\ mRunningCheckers'[i] \in Checkers
              /\ mRunningCheckers'[i].checker = mRunningCheckers[i].checker
        BY <4>1, <4>2, <4>3
      <4> QED BY <1>0, <4>3, <4>4, SameQueues
    <3>3. mRunningCheckers' \in Seq(Checkers) /\ Owned(mRunningCheckers', mIdleQueues)
      BY <1>0, <3>1, <3>2
    <3>4. Len(mIdleQueues) = 0
      BY <2>2
    <3> QED BY <1>0, <1>1, <3>1, <3>3, <3>4 DEF CheckersInv
  <2> QED BY <2>1, <2>2
<1>4. ASSUME NEW v \in Validator, P!WokenUp(v) PROVE CheckersInv'
  <2>1. CASE mIdleQueues = <<>>
    <3>1. blocked' = blocked \cup {v} /\ UNCHANGED <<mIdleQueues, mRunningCheckers, asked>> /\ asked[v] # 0
      BY <1>4, <2>1 DEF P!WokenUp
    <3>2. Len(mIdleQueues) = 0
      BY <2>1
    <3> QED BY <1>0, <1>1, <3>1, <3>2 DEF CheckersInv
  <2>2. CASE mIdleQueues # <<>>
    <3>1. /\ P!Take(v, asked[v]) /\ asked' = [asked EXCEPT ![v] = 0] /\ blocked' = blocked
          /\ asked[v] # 0 /\ v \notin blocked
      BY <1>4, <2>2 DEF P!WokenUp
    <3>2. asked[v] \in Value
      BY <1>0, <3>1
    <3>3. Coming' = Coming \ {v} /\ v \in Coming
      BY <1>0, <3>1 DEF Coming
    <3>4. Cardinality(Coming') = Cardinality(Coming) - 1
      BY <1>1, <3>3, FS_RemoveElement
    <3>5. asked' \in [Validator -> Value \cup {0}] /\ \A u \in blocked' : u \in Validator /\ asked'[u] # 0
      BY <1>0, <3>1
    <3>6. blocked' # {} => Len(mIdleQueues') <= Cardinality(Coming')
      BY <1>0, <1>1, <1>2, <2>2, <3>1, <3>2, <3>4 DEF CheckersInv
    <3> QED BY <1>2, <2>2, <3>1, <3>2, <3>5, <3>6 DEF CheckersInv
  <2> QED BY <2>1, <2>2
<1>5. ASSUME NEW v \in Validator, P!ReturnQueueToPool(v) PROVE CheckersInv'
  <2>1. PICK i \in 1..Len(mRunningCheckers) :
          /\ mIdleQueues' = Append(mIdleQueues, mRunningCheckers[i].checker)
          /\ mRunningCheckers' = P!erase(mRunningCheckers, i)
          /\ IF blocked = {} THEN UNCHANGED blocked
             ELSE \E w \in blocked : blocked' = blocked \ {w}
          /\ UNCHANGED asked
    BY <1>5 DEF P!ReturnQueueToPool
  <2>2. /\ mIdleQueues' \in Seq(P!Pool) /\ mRunningCheckers' \in Seq(Checkers)
        /\ Owned(mRunningCheckers, mIdleQueues)'
    BY <1>0, <2>1, GivenBack
  <2>3. Len(mIdleQueues') = Len(mIdleQueues) + 1
    BY <1>0, <2>1
  <2>4. ASSUME blocked' # {} PROVE Len(mIdleQueues') <= Cardinality(Coming')
    <3>1. PICK w \in blocked : blocked' = blocked \ {w}
      BY <2>1, <2>4
    <3>2. Coming' = Coming \cup {w} /\ w \notin Coming
      BY <1>0, <2>1, <3>1 DEF Coming
    <3>3. Cardinality(Coming') = Cardinality(Coming) + 1
      BY <1>1, <3>2, FS_AddElement
    <3> QED BY <1>0, <1>1, <2>3, <3>1, <3>3 DEF CheckersInv
  <2>5. asked' = asked /\ blocked' \subseteq blocked
    BY <2>1
  <2> QED BY <1>0, <2>2, <2>4, <2>5 DEF CheckersInv
<1>6. ASSUME P!Destroy PROVE CheckersInv'
  <2>1. UNCHANGED <<mIdleQueues, asked, blocked>>
    BY <1>6 DEF P!Destroy
  <2>2. Coming' = Coming
    BY <2>1 DEF Coming
  <2>3. mRunningCheckers' \in Seq(Checkers) /\ Owned(mRunningCheckers', mIdleQueues)
    <3>1. \A e \in Checkers : /\ [e EXCEPT !.cancelled = TRUE] \in Checkers
                             /\ [e EXCEPT !.cancelled = TRUE].checker = e.checker
      BY DEF Checkers
    <3>2. \A i \in DOMAIN mRunningCheckers : mRunningCheckers[i] \in Checkers
      BY <1>0
    <3>3. mRunningCheckers' = [i \in DOMAIN mRunningCheckers |->
                                [mRunningCheckers[i] EXCEPT !.cancelled = TRUE]]
      BY <1>6 DEF P!Destroy
    <3>4. /\ DOMAIN mRunningCheckers' = DOMAIN mRunningCheckers
          /\ mRunningCheckers' = [i \in DOMAIN mRunningCheckers |-> mRunningCheckers'[i]]
          /\ \A i \in DOMAIN mRunningCheckers :
                mRunningCheckers'[i] = [mRunningCheckers[i] EXCEPT !.cancelled = TRUE]
      BY <3>3
    <3>5. \A i \in DOMAIN mRunningCheckers :
            /\ mRunningCheckers'[i] \in Checkers
            /\ mRunningCheckers'[i].checker = mRunningCheckers[i].checker
      BY <3>1, <3>2, <3>4
    <3> QED BY <1>0, <3>4, <3>5, SameQueues
  <2> QED BY <1>0, <2>1, <2>2, <2>3 DEF CheckersInv
<1>7. ASSUME UNCHANGED ps PROVE CheckersInv'
  <2>1. UNCHANGED <<mIdleQueues, mRunningCheckers, asked, blocked>>
    BY <1>7 DEF ps
  <2>2. Coming' = Coming
    BY <2>1 DEF Coming
  <2> QED BY <2>1, <2>2 DEF CheckersInv
<1> QED BY <1>3, <1>4, <1>5, <1>6, <1>7 DEF P!Next

LEMMA CheckersInit == P!Init => CheckersInv
<1> SUFFICES ASSUME P!Init PROVE CheckersInv
  OBVIOUS
<1>1. poolSize \in Nat /\ mIdleQueues = [i \in 1..poolSize |-> i] /\ mRunningCheckers = <<>>
  BY PrimitivesAssumption DEF P!Init, P!Pool
<1>2. mIdleQueues \in Seq(P!Pool) /\ Len(mIdleQueues) = poolSize /\ \A i \in 1..poolSize : mIdleQueues[i] = i
  BY <1>1 DEF P!Pool
<1>3. mRunningCheckers \in Seq(Checkers) /\ Len(mRunningCheckers) = 0
  BY <1>1
<1>4. Owned(mRunningCheckers, mIdleQueues)
  BY <1>1, <1>2, <1>3 DEF Owned, P!Pool
<1>5. asked \in [Validator -> Value \cup {0}] /\ blocked = {}
  BY DEF P!Init, P!NoValue
<1> QED BY <1>2, <1>3, <1>4, <1>5 DEF CheckersInv

(* Every check queue of the pool is idle once or used by one validator, whoever asks,  *)
(* is made to wait, is woken or gives one back.                                        *)
THEOREM QueuesHaveOneOwner == CheckersSpec => []QueueOwned
<1>1. CheckersInv => QueueOwned
  BY DEF CheckersInv, Owned, QueueOwned, P!QueueOwned
<1> QED BY <1>1, CheckersInit, CheckersStep, PTL DEF CheckersSpec

(* While validators are blocked and a queue is idle somebody is on the way to it.      *)
LEMMA CheckersAwake == CheckersSpec => []P!PoolWakeups
<1>1. CheckersInv => P!PoolWakeups
  <2> SUFFICES ASSUME CheckersInv, blocked # {}, mIdleQueues # <<>>
               PROVE  \E v \in Validator \ blocked : asked[v] # 0
    BY DEF P!PoolWakeups, P!NoValue
  <2>1. Len(mIdleQueues) > 0 /\ Len(mIdleQueues) <= Cardinality(Coming) /\ Len(mIdleQueues) \in Nat
    BY DEF CheckersInv
  <2>2. Coming # {}
    BY <2>1, FS_EmptySet
  <2> QED BY <2>2 DEF Coming
<1> QED BY <1>1, CheckersInit, CheckersStep, PTL DEF CheckersSpec

-------------------------------------------------------------------------------
(* With the queue, the pool of check queues, the thread pool and the HTTP server all   *)
(* running, nobody is left asleep on a condition variable with what it waits for at    *)
(* hand and nobody awake to take it: every notify_one reaches somebody who can.        *)
THEOREM NobodyLeftAsleep ==
  QueueSpec /\ CheckersSpec /\ TasksSpec /\ HttpSpec => []Wakeups
<1>1. QueueWakeups /\ P!PoolWakeups /\ T!TaskWakeups /\ H!HttpWakeups => Wakeups
  BY DEF Wakeups
<1> QED BY <1>1, CallersAwake, CheckersAwake, TasksAwake, RequestsAwake, PTL
===============================================================================
