------------------------------- MODULE MCLookups -------------------------------
(* Reading coins, recovering them after a crash, and the queue of script checks, for   *)
(* TLC, side by side: `part' says which of them a behaviour is about, and the others   *)
(* stay as they are.  The state space is the sum of theirs.                            *)
EXTENDS CoinsRecovery, CoinsFetch, TLC

CONSTANTS g, a1, a2, b1, b2, o1, o2, o3, o4

(* Two branches of two blocks over the genesis block.  The first blocks create o1 and  *)
(* o2; each second block spends one of them, creates o3, and b2 also passes o4 on.     *)
MCParent == (g :> Null) @@ (a1 :> g) @@ (a2 :> a1) @@ (b1 :> g) @@ (b2 :> b1)
MCAncestors == (g :> {g}) @@ (a1 :> {g, a1}) @@ (a2 :> {g, a1, a2})
               @@ (b1 :> {g, b1}) @@ (b2 :> {g, b1, b2})
MCCreated == (g :> {}) @@ (a1 :> {o1, o2}) @@ (a2 :> {o3}) @@ (b1 :> {o1, o2}) @@ (b2 :> {o3})
MCUsed == (g :> {}) @@ (a1 :> {}) @@ (a2 :> {o1}) @@ (b1 :> {}) @@ (b2 :> {o2})
MCPassing == (g :> {}) @@ (a1 :> {}) @@ (a2 :> {}) @@ (b1 :> {}) @@ (b2 :> {o4})
MCUtxoOf == (Null :> {}) @@ (g :> {}) @@ (a1 :> {o1, o2}) @@ (a2 :> {o2, o3})
            @@ (b1 :> {o1, o2}) @@ (b2 :> {o1, o3})

(* One coin with a compressed script, one with a plain script; the cache has room for  *)
(* some scripts only.                                                                  *)
MCSizes == [o1 |-> 1, o2 |-> 2]

ASSUME FetchInstance == FetchAssumption

VARIABLES part,
  cq, asleep, mQuit, mWaitCalled, pc, loc, session, canceled, leaving, open, added, passed,
  bad, result

Q == INSTANCE CheckQueue WITH Worker <- {"w1", "w2"}, Master <- "m", nBatchSize <- 2,
       MaxSession <- 2, MaxCheck <- 2, TxInputs <- {0, 1, 2}, Interrupts <- {"w2"}

qs == <<cq, asleep, mQuit, mWaitCalled, pc, loc, session, canceled, leaving, open, added,
        passed, bad, result>>
all == <<part, vars, fetchVars, qs>>

MCInit ==
  /\ part \in {"recovery", "fetch", "checks"} /\ Init /\ FetchInit /\ Q!Init
  /\ part # "fetch" => coinDb = {} /\ outpoint = [t \in Reader |-> "o1"]

Recovery == part = "recovery" /\ Next /\ UNCHANGED <<part, fetchVars, qs>>
Fetch == part = "fetch" /\ FetchNext /\ UNCHANGED <<part, vars, qs>>
Checks == part = "checks" /\ Q!Next /\ UNCHANGED <<part, vars, fetchVars>>

(* The check queue has come to its end.                                                *)
Over == part = "checks" /\ mQuit /\ UNCHANGED all

MCNext == Recovery \/ Fetch \/ Checks \/ Over

MCSpec ==
  /\ MCInit /\ [][MCNext]_all
  /\ WF_vars(part = "recovery" /\ Recover)
  /\ \A t \in Reader : WF_fetchVars(part = "fetch" /\ Step(t))
  /\ WF_qs(part = "checks" /\ Q!MasterStep)
  /\ \A t \in {"w1", "w2", "m"} : WF_qs(part = "checks" /\ Q!LoopStep(t))

--------------------------------------------------------------------------------
(* The check queue is idle when it changes hands.                                      *)
IdleBetweenSessions == Q!IdleBetweenSessions

(* The check queue implements what CheckSession promises to its user.                  *)
ImplementsSession == Q!Implements

(* A node that crashes no more comes up; a lookup of a coin returns, once no new       *)
(* lookup comes in between; Wait of a checking session returns, cancelled or not, and  *)
(* the workers of the queue leave after its destructor has asked them to.              *)
Calm == /\ phase' = "down" => phase = "down"
        /\ \A t \in Reader : place[t] = "idle" => place'[t] = "idle"
Busy == \/ phase = "down" /\ part = "recovery"
        \/ \E t \in Reader : place[t] \notin {"idle", "done"}
        \/ open /\ mWaitCalled
        \/ mQuit /\ \E w \in {"w1", "w2"} : pc[w] # "gone"
Returns == <>[][Calm]_all => (Busy ~> ~Busy)
================================================================================
