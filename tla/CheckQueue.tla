----------------------------- MODULE CheckQueue -----------------------------
(***************************************************************************)
(* The queue that spreads the script checks of one block over worker       *)
(* threads (src/src/checkqueue.h), used through the scope guard of the     *)
(* pool (src/src/checkqueuepool.h) by one master thread at a time.         *)
(*                                                                         *)
(* Everything Loop does under one hold of `mutex' is one step: the         *)
(* clean-up after a batch, and what follows it in the same critical        *)
(* section, which is taking the next batch, returning to the master, or    *)
(* going to sleep on a condition variable.  A cancellation comes at any    *)
(* time, as the token is read without the mutex.  A check stands for the   *)
(* session it was added in; whether it evaluates to true or to false is    *)
(* chosen when it is executed.                                             *)
(***************************************************************************)
EXTENDS Integers, FiniteSets, Sequences

CONSTANTS
  Worker,        \* the threads spawned by the constructor
  Master,        \* the thread that adds checks and waits
  nBatchSize,
  MaxSession,    \* bound: sessions opened
  MaxCheck,      \* bound: checks of one session
  TxInputs,      \* how many checks a transaction adds
  Interrupts     \* the threads that boost::thread_group::interrupt_all reaches

Thread == Worker \cup {Master}
Check == 1 .. MaxSession
Verdict == {"true", "false", "none"}     \* std::optional<bool>

VARIABLES
  cq,        \* the members guarded by mutex
  asleep,    \* threads blocked in condWorker.wait or condMaster.wait
  mQuit,
  mWaitCalled,
  pc,        \* where each thread is
  loc,       \* the local variables of Loop in each thread
  session, canceled,        \* mSessionToken: the session, its cancellation
  leaving,   \* the guard is being destroyed: nobody takes the failed checks
  open,      \* history: from StartCheckingSession to the end of Wait
  added, passed, bad,   \* history: checks added, executed with either outcome
  result     \* history: what Wait returned

vars == <<cq, asleep, mQuit, mWaitCalled, pc, loc, session, canceled, leaving,
          open, added, passed, bad, result>>

history == <<session, canceled, leaving, open, added, passed, bad, result>>

(* A worker is "new" until it enters Loop.  A thread in Loop is at the head *)
(* of the for loop over its batch ("batch"), inside a check ("run"), in     *)
(* cond.wait ("wait"), or has left the critical section for good with the   *)
(* CTotalScopeGuard not yet destroyed ("unwind").  The master is outside    *)
(* of a session ("idle"), between GetChecker and Wait ("open"), about to    *)
(* enter Loop ("new"), or back from it ("returned"); "aborted" is a failed  *)
(* assertion.                                                               *)
PC == {"new", "batch", "run", "wait", "unwind", "gone",
       "idle", "open", "returned", "aborted"}

NoLocals == [vChecks |-> <<>>, nNow |-> 0, fOk |-> "true", failed |-> {}]

TypeOK ==
  /\ cq.queue \in Seq(Check) /\ cq.failed \subseteq Check
  /\ cq.nIdle \in 0 .. Cardinality(Thread)
  /\ cq.nTotal \in 0 .. Cardinality(Thread)
  /\ cq.nTodo \in 0 .. MaxCheck
  /\ cq.fAllOk \in Verdict
  /\ asleep \subseteq Thread
  /\ mQuit \in BOOLEAN /\ mWaitCalled \in BOOLEAN
  /\ pc \in [Thread -> PC]
  /\ \A t \in Thread :
       /\ loc[t].vChecks \in Seq(Check) /\ loc[t].nNow \in 0 .. nBatchSize
       /\ loc[t].fOk \in Verdict /\ loc[t].failed \subseteq Check
  /\ session \in 0 .. MaxSession
  /\ canceled \in BOOLEAN /\ leaving \in BOOLEAN /\ open \in BOOLEAN
  /\ added \in 0 .. MaxCheck /\ passed \in 0 .. MaxCheck /\ bad \in 0 .. MaxCheck
  /\ result \in Verdict

Init ==
  /\ cq = [queue |-> <<>>, failed |-> {}, nIdle |-> 0, nTotal |-> 0,
           nTodo |-> 0, fAllOk |-> "true"]
  /\ asleep = {}
  /\ mQuit = FALSE
  /\ mWaitCalled = TRUE
  /\ pc = [t \in Thread |-> IF t = Master THEN "idle" ELSE "new"]
  /\ loc = [t \in Thread |-> NoLocals]
  /\ session = 0 /\ canceled = FALSE /\ leaving = FALSE /\ open = FALSE
  /\ added = 0 /\ passed = 0 /\ bad = 0 /\ result = "none"

IsIdle == cq.nTotal = cq.nIdle /\ cq.nTodo = 0

Goto(t, p) == pc' = [pc EXCEPT ![t] = p]

-----------------------------------------------------------------------------
(* Loop *)

Larger(a, b) == IF a > b THEN a ELSE b
Smaller(a, b) == IF a < b THEN a ELSE b

Batch(c) ==
  Larger(1, Smaller(nBatchSize, Len(c.queue) \div (c.nTotal + c.nIdle + 1)))

(* vChecks.clear() *)
Cleared(t) == <<>>

(* Move a batch from the queue to vChecks. *)
Take(t, c) ==
  LET n == Batch(c) IN
  /\ cq' = [c EXCEPT !.queue = SubSeq(@, n + 1, Len(@))]
  /\ loc' = [loc EXCEPT ![t].vChecks = Cleared(t) \o SubSeq(c.queue, 1, n),
                        ![t].nNow = n,
                        ![t].fOk = c.fAllOk]
  /\ Goto(t, "batch")
  /\ UNCHANGED <<mQuit, mWaitCalled, history>>

(* cond.wait: the idle count includes the thread while it is blocked. *)
Sleep(t, c, notified) ==
  /\ cq' = [c EXCEPT !.nIdle = @ + 1]
  /\ asleep' = (asleep \cup {t}) \ notified
  /\ loc' = [loc EXCEPT ![t].vChecks = Cleared(t)]
  /\ Goto(t, "wait")
  /\ UNCHANGED <<mQuit, mWaitCalled, history>>

(* return {}: the destructor asked the workers to quit. *)
Quit(t, c) ==
  /\ cq' = c
  /\ loc' = [loc EXCEPT ![t].vChecks = Cleared(t)]
  /\ Goto(t, "unwind")
  /\ UNCHANGED <<mQuit, mWaitCalled, history>>

(* Mutants: the master returns what the workers left without looking at     *)
(* the token; it does not wait for the batches that are still out.          *)
FinalOkUnaware(c) == c.fAllOk
MasterMayReturnEarly(t, c) == t = Master

FinalOk(c) == IF canceled THEN "none" ELSE c.fAllOk

MasterMayReturn(t, c) == t = Master /\ c.nTodo = 0

(* return fAllOk: the session is over. *)
ReturnResult(t, c) ==
  /\ cq' = [c EXCEPT !.fAllOk = FinalOk(c)]
  /\ result' = FinalOk(c)
  /\ open' = FALSE
  /\ loc' = [loc EXCEPT ![t].vChecks = Cleared(t)]
  /\ Goto(t, "unwind")
  /\ UNCHANGED <<mQuit, mWaitCalled, session, canceled, leaving, added,
                 passed, bad>>

(* From "logically, the do loop starts here" on, with the guarded members   *)
(* at c; `notified' are the threads woken earlier in the critical section.  *)
LoopTop(t, c, notified) ==
  \/ /\ c.queue # <<>>
     /\ Take(t, c)
     /\ asleep' = asleep \ notified
  \/ /\ c.queue = <<>> /\ mQuit
     /\ Quit(t, c)
     /\ asleep' = asleep \ notified
  \/ /\ c.queue = <<>> /\ ~mQuit /\ MasterMayReturn(t, c)
     /\ ReturnResult(t, c)
     /\ asleep' = asleep \ notified
  \/ /\ c.queue = <<>> /\ ~mQuit /\ ~MasterMayReturn(t, c)
     /\ Sleep(t, c, notified)

(* The first iteration: runNL. *)
EnterLoop(t) ==
  /\ pc[t] = "new"
  /\ LoopTop(t, [cq EXCEPT !.nTotal = @ + 1], {})

(* The test at the head of the for loop, and the check. *)
StartCheck(t) ==
  /\ pc[t] = "batch"
  /\ loc[t].vChecks # <<>> /\ loc[t].fOk = "true" /\ ~canceled
  /\ Goto(t, "run")
  /\ UNCHANGED <<cq, asleep, mQuit, mWaitCalled, loc, history>>

(* The call of the check: an empty result only when the token is cancelled. *)
FinishCheck(t) ==
  /\ pc[t] = "run"
  /\ \E v \in Verdict :
       LET check == Head(loc[t].vChecks) IN
       /\ v = "none" => canceled
       /\ loc' = [loc EXCEPT
            ![t].vChecks = Tail(@),
            ![t].fOk = v,
            ![t].failed = IF v = "false" THEN @ \cup {check} ELSE @]
       /\ passed' = IF v = "true" THEN passed + 1 ELSE passed
       /\ bad' = IF v = "false" THEN bad + 1 ELSE bad
  /\ Goto(t, "batch")
  /\ UNCHANGED <<cq, asleep, mQuit, mWaitCalled, session, canceled, leaving,
                 open, added, result>>

(* The clean-up of the previous batch.  Nothing empties vTempFailedChecks:  *)
(* the failed checks of a worker's earlier batches are handed over again.   *)
Cleaned(t) ==
  LET l == loc[t]
      known == cq.fAllOk # "none" /\ l.fOk # "none" IN
  [cq EXCEPT !.fAllOk = IF ~known THEN "none"
                        ELSE IF l.fOk = "false" THEN "false" ELSE @,
             !.failed = IF known THEN @ \cup l.failed ELSE @,
             !.nTodo = @ - l.nNow - (IF canceled THEN Len(cq.queue) ELSE 0),
             !.queue = IF canceled THEN <<>> ELSE @]

(* Mutant: nobody tells the master. *)
NotifiedNobody(t, c) == {}

(* condMaster.notify_one() *)
Notified(t, c) == IF c.nTodo = 0 /\ t # Master THEN {Master} ELSE {}

(* The batch is executed, or given up: the next iteration of the do loop. *)
EndBatch(t) ==
  /\ pc[t] = "batch"
  /\ loc[t].vChecks = <<>> \/ loc[t].fOk # "true" \/ canceled
  /\ LoopTop(t, Cleaned(t), Notified(t, Cleaned(t)))

(* cond.wait returns: after a notification, or spuriously. *)
Wake(t) ==
  /\ pc[t] = "wait" /\ t \notin asleep
  /\ LoopTop(t, [cq EXCEPT !.nIdle = @ - 1], {})

SpuriousWake(t) ==
  /\ t \in asleep
  /\ LoopTop(t, [cq EXCEPT !.nIdle = @ - 1], {t})

(* cond.wait throws boost::thread_interrupted: the idle count is restored,  *)
(* then the mutex is released, and the total is decremented under a second  *)
(* hold of the mutex.                                                       *)
Interrupt(t) ==
  /\ t \in Interrupts /\ pc[t] = "wait"
  /\ cq' = [cq EXCEPT !.nIdle = @ - 1]
  /\ asleep' = asleep \ {t}
  /\ Goto(t, "unwind")
  /\ UNCHANGED <<mQuit, mWaitCalled, loc, history>>

(* ~CTotalScopeGuard *)
Unwind(t) ==
  /\ pc[t] = "unwind"
  /\ cq' = [cq EXCEPT !.nTotal = @ - 1]
  /\ loc' = [loc EXCEPT ![t] = NoLocals]
  /\ Goto(t, IF t = Master THEN "returned" ELSE "gone")
  /\ UNCHANGED <<asleep, mQuit, mWaitCalled, history>>

LoopStep(t) == \/ EnterLoop(t) \/ StartCheck(t) \/ FinishCheck(t)
               \/ EndBatch(t) \/ Wake(t) \/ Unwind(t)

-----------------------------------------------------------------------------
(* The master: CCheckQueueScopeGuard *)

(* StartCheckingSession, from the constructor of the guard.  It throws when *)
(* the queue is not idle.                                                   *)
StartCheckingSession ==
  /\ pc[Master] = "idle" /\ ~mQuit /\ session < MaxSession
  /\ mWaitCalled /\ IsIdle
  /\ session' = session + 1
  /\ canceled' = FALSE
  /\ cq' = [cq EXCEPT !.fAllOk = "true"]
  /\ mWaitCalled' = FALSE
  /\ leaving' = FALSE
  /\ open' = TRUE /\ added' = 0 /\ passed' = 0 /\ bad' = 0 /\ result' = "none"
  /\ Goto(Master, "open")
  /\ UNCHANGED <<asleep, mQuit, loc>>

(* condWorker: one worker is notified of one check, all of more. *)
NotifyWorkers(n) ==
  LET sleepers == asleep \cap Worker IN
  \/ n = 1 /\ sleepers # {} /\ \E w \in sleepers : asleep' = asleep \ {w}
  \/ n = 1 /\ sleepers = {} /\ UNCHANGED asleep
  \/ n > 1 /\ asleep' = asleep \ Worker

(* Add: the script checks of the inputs of one transaction. *)
Add(n) ==
  LET new == [i \in 1 .. n |-> session] IN
  /\ pc[Master] = "open"
  /\ added + n <= MaxCheck
  /\ cq' = [cq EXCEPT !.queue = @ \o new, !.nTodo = @ + n]
  /\ added' = added + n
  /\ NotifyWorkers(n)
  /\ UNCHANGED <<mQuit, mWaitCalled, pc, loc, session, canceled, leaving,
                 open, passed, bad, result>>

(* Wait(&failedChecks) at the end of checkScripts. *)
Wait ==
  /\ pc[Master] = "open"
  /\ mWaitCalled' = TRUE
  /\ Goto(Master, "new")
  /\ UNCHANGED <<cq, asleep, mQuit, loc, history>>

(* ~CCheckQueueScopeGuard: checkScripts returned early, on an error of its  *)
(* own.                                                                     *)
LeaveScope ==
  /\ pc[Master] = "open"
  /\ canceled' = TRUE
  /\ leaving' = TRUE
  /\ mWaitCalled' = TRUE
  /\ Goto(Master, "new")
  /\ UNCHANGED <<cq, asleep, mQuit, loc, session, open, added, passed,
                 bad, result>>

(* A better block needs the checker, or the caller's own token fires. *)
Cancel ==
  /\ open /\ ~canceled
  /\ canceled' = TRUE
  /\ UNCHANGED <<cq, asleep, mQuit, mWaitCalled, pc, loc, session, leaving,
                 open, added, passed, bad, result>>

(* TakeFailedChecks, then ReturnQueueToPool with its assertion. *)
ReturnQueueToPool ==
  /\ pc[Master] = "returned"
  /\ cq' = IF leaving THEN cq ELSE [cq EXCEPT !.failed = {}]
  /\ Goto(Master, IF IsIdle THEN "idle" ELSE "aborted")
  /\ UNCHANGED <<asleep, mQuit, mWaitCalled, loc, session, canceled, leaving,
                 open, added, passed, bad, result>>

(* ~CCheckQueue, called once no checker is running. *)
Destroy ==
  /\ pc[Master] = "idle" /\ ~mQuit
  /\ mQuit' = TRUE
  /\ asleep' = asleep \ Worker
  /\ UNCHANGED <<cq, mWaitCalled, pc, loc, history>>

MasterStep == Wait \/ LeaveScope \/ ReturnQueueToPool

Next ==
  \/ StartCheckingSession \/ Cancel \/ Destroy \/ MasterStep
  \/ \E n \in TxInputs : Add(n)
  \/ \E t \in Thread : LoopStep(t) \/ SpuriousWake(t)
  \/ \E w \in Worker : Interrupt(w)

(* Every thread keeps running, a check ends, and checkScripts ends with     *)
(* Wait or leaves the scope of its guard.                                   *)
Fairness == WF_vars(MasterStep) /\ \A t \in Thread : WF_vars(LoopStep(t))

Spec == Init /\ [][Next]_vars /\ Fairness

-----------------------------------------------------------------------------
(* Whoever gets the queue, and whoever gives it back, finds all its workers *)
(* asleep and nothing to do: the assertion of ReturnQueueToPool holds and   *)
(* StartCheckingSession does not throw.  The exception is a worker that an  *)
(* interruption at shutdown has left between its two decrements.            *)
IdleBetweenSessions ==
  pc[Master] \in {"idle", "returned"} /\ (\A w \in Worker : pc[w] # "unwind") => IsIdle

(* The queue implements what CheckSession promises to its user.             *)
Session == INSTANCE CheckSession
Implements == Session!SessionSpec

(* "all failed checks are moved to this vector": when Wait answers false,   *)
(* what it hands over are failed checks of the session it was called for.   *)
ReportedOwn ==
  pc[Master] = "returned" /\ ~leaving /\ result = "false" => cq.failed \subseteq {session}
=============================================================================
