---------------------------- MODULE CoinsDBProofs ----------------------------
(***************************************************************************)
(* The two things that the coins database rests on.  First its lock, the   *)
(* write-preferring upgradable mutex, for any finite set of threads:       *)
(* exclusion, the counters, the currency of what a holder read, and the    *)
(* absence of lost wake-ups.  Then its recovery, for any block tree, any   *)
(* number of batches and any number of crashes: undoing or redoing a block *)
(* fixes every coin the block touches whatever its state was, while a coin *)
(* that it does not touch is the same before and after it.                 *)
(***************************************************************************)
EXTENDS WPUSMutex, CoinsRecovery, FiniteSetTheorems, TLAPS

(* What a thread may hold while it executes each of the calls.             *)
CallsOK ==
  \A t \in Threads :
    /\ pc[t] \in {"read", "write"} => handle[t] = "unlocked"
    /\ pc[t] \in {"enter", "try"} => handle[t] = "read"

(* Why each blocked thread is blocked: its predicate was false, and every  *)
(* step that could have made it true since has notified it -- except the   *)
(* arrival of a second write request, which only a waiting upgrade heeds   *)
(* and which cannot be the only thing it waits for.                        *)
SleepOK ==
  /\ \A t \in asleep : pc[t] \in {"read", "write", "try"}
  /\ \A t \in asleep : pc[t] = "try" => mLock >= 2
  /\ \A t \in asleep : pc[t] = "write" => mLock # 0
  /\ \A t \in asleep : pc[t] = "read" => mWritePending > 0 \/ mLock = -1
  /\ \A t, u \in asleep : pc[t] = "try" /\ pc[u] = "try" => t = u

(* The counters, with the conditional of CountsMatch taken apart.          *)
CountW == (\E t \in Threads : handle[t] = "write") => mLock = -1
CountR == (\A t \in Threads : handle[t] # "write") => mLock = Cardinality(Readers)
CountP == mWritePending = Cardinality(Pending)

MutexInv ==
  /\ MutexType
  /\ Exclusion
  /\ HolderIsCurrent
  /\ CallsOK
  /\ SleepOK
  /\ CountW /\ CountR /\ CountP

-----------------------------------------------------------------------------
(* Facts about counting threads. *)

(* Adding a thread to a set of threads adds one to its size. *)
LEMMA CountAdd ==
  ASSUME NEW S \in SUBSET Threads, NEW x \in Threads, x \notin S
  PROVE  /\ Cardinality(S) \in Nat
         /\ Cardinality(S \cup {x}) = Cardinality(S) + 1
<1>1. IsFiniteSet(S)
  BY ThreadsAssumption, FS_Subset
<1> QED
  BY <1>1, FS_AddElement, FS_CardinalityType

(* Taking a thread out of a set of threads takes one from its size. *)
LEMMA CountRemove ==
  ASSUME NEW S \in SUBSET Threads, NEW x \in S
  PROVE  /\ Cardinality(S) \in Nat \ {0}
         /\ Cardinality(S \ {x}) = Cardinality(S) - 1
<1>1. IsFiniteSet(S)
  BY ThreadsAssumption, FS_Subset
<1>2. Cardinality(S) # 0
  BY <1>1, FS_EmptySet
<1> QED
  BY <1>1, <1>2, FS_RemoveElement, FS_CardinalityType

(* A set of threads has no member when its size is 0, exactly the one that *)
(* is known when it is 1, and another one when it is larger.               *)
LEMMA CountSmall ==
  ASSUME NEW S \in SUBSET Threads
  PROVE  /\ Cardinality(S) \in Nat
         /\ Cardinality(S) = 0 <=> S = {}
         /\ \A x \in S : Cardinality(S) = 1 => S = {x}
         /\ \A x \in S : Cardinality(S) >= 2 => S \ {x} # {}
<1>1. IsFiniteSet(S) /\ Cardinality(S) \in Nat
  BY ThreadsAssumption, FS_Subset, FS_CardinalityType
<1>2. Cardinality(S) = 0 <=> S = {}
  BY <1>1, FS_EmptySet
<1>3. ASSUME NEW x \in S
      PROVE  /\ Cardinality(S) = 1 => S = {x}
             /\ Cardinality(S) >= 2 => S \ {x} # {}
  <2>1. /\ IsFiniteSet(S \ {x})
        /\ Cardinality(S \ {x}) = Cardinality(S) - 1
    BY <1>1, <1>3, FS_RemoveElement
  <2>2. Cardinality(S \ {x}) = 0 <=> S \ {x} = {}
    BY Zenon, <2>1, FS_EmptySet
  <2> QED
    BY <1>1, <2>1, <2>2
<1> QED
  BY <1>1, <1>2, <1>3

-----------------------------------------------------------------------------

(* The inductive invariant holds initially. *)
LEMMA InitMutexInv == MutexInit => MutexInv
<1> SUFFICES ASSUME MutexInit PROVE MutexInv
  OBVIOUS
<1> USE DEF MutexInit
<1>1. Readers = {} /\ Pending = {}
  BY DEF Readers, Pending
<1>2. Cardinality({}) = 0
  BY FS_EmptySet
<1>3. CountW /\ CountR /\ CountP
  BY <1>1, <1>2 DEF CountW, CountR, CountP
<1>4. MutexType /\ Exclusion /\ HolderIsCurrent /\ CallsOK /\ SleepOK
  BY DEF MutexType, LockType, PC, Exclusion, HolderIsCurrent, CallsOK, SleepOK
<1> QED
  BY <1>3, <1>4 DEF MutexInv

(* When mLock >= 0 there is no writer and mLock counts the readers. *)
LEMMA NoWriterWhenCounted ==
  ASSUME MutexInv, mLock >= 0
  PROVE  /\ \A t \in Threads : handle[t] # "write"
         /\ mLock = Cardinality(Readers)
  BY DEF MutexInv, CountW, CountR

(* A granted read lock. *)
LEMMA GrantReadMutexInv ==
  ASSUME MutexInv, NEW t \in Threads, handle[t] = "unlocked",
         pc[t] \in {"idle", "read"}, t \notin asleep,
         CanRead, GrantRead(t), UNCHANGED mWritePending
  PROVE  MutexInv'
<1> USE DEF MutexInv
<1> USE DEF CanRead, GrantRead, Return
<1>1. /\ \A u \in Threads : handle[u] # "write"
      /\ mLock = Cardinality(Readers) /\ mLock >= 0
  BY NoWriterWhenCounted DEF MutexType
<1>2. MutexType'
  BY DEF MutexType, LockType, PC
<1>3. Readers' = Readers \cup {t} /\ t \notin Readers /\ Pending' = Pending
  BY DEF MutexType, Readers, Pending
<1>4. Cardinality(Readers') = Cardinality(Readers) + 1
  BY <1>3, CountAdd DEF Readers
<1>5. \A u \in Threads : handle'[u] # "write"
  BY <1>1 DEF MutexType
<1>6. CountW' /\ CountR' /\ CountP'
  BY Zenon, <1>1, <1>3, <1>4, <1>5 DEF CountW, CountR, CountP
<1>7. Exclusion' /\ HolderIsCurrent' /\ CallsOK'
  BY <1>5 DEF MutexType, Exclusion, HolderIsCurrent, CallsOK
<1>8. SleepOK'
  BY <1>1 DEF MutexType, SleepOK
<1> QED
  BY <1>2, <1>6, <1>7, <1>8

(* A granted WriteLock, at once (from "idle") or after waiting.            *)
LEMMA GrantWriteMutexInv ==
  ASSUME MutexInv, NEW t \in Threads, handle[t] = "unlocked", t \notin asleep,
         mLock = 0, GrantWrite(t), stale' = Threads \ {t}, UNCHANGED asleep,
         \/ pc[t] = "idle" /\ UNCHANGED mWritePending
         \/ pc[t] = "write" /\ mWritePending' = mWritePending - 1
  PROVE  MutexInv'
<1> USE DEF MutexInv, GrantWrite, Return
<1>1. \A u \in Threads : handle[u] = "unlocked"
  <2>1. Cardinality(Readers) = 0 /\ \A u \in Threads : handle[u] # "write"
    BY NoWriterWhenCounted
  <2>2. Readers = {}
    BY <2>1, CountSmall DEF Readers
  <2> QED
    BY <2>1, <2>2 DEF MutexType, LockType, Readers
<1>2. CountP' /\ mWritePending' \in Nat
  <2>1. CASE pc[t] = "idle" /\ UNCHANGED mWritePending
    <3>1. Pending' = Pending
      BY <2>1 DEF MutexType, Pending
    <3> QED
      BY <2>1, <3>1 DEF MutexType, CountP
  <2>2. CASE pc[t] = "write" /\ mWritePending' = mWritePending - 1
    <3>1. t \in Pending /\ Pending' = Pending \ {t}
      BY <2>2 DEF MutexType, Pending
    <3>2. /\ Cardinality(Pending) \in Nat \ {0}
          /\ Cardinality(Pending \ {t}) = Cardinality(Pending) - 1
      BY <3>1, CountRemove DEF Pending
    <3> QED
      BY <2>2, <3>1, <3>2 DEF MutexType, CountP
  <2> QED
    BY <2>1, <2>2
<1>3. MutexType'
  BY <1>2 DEF MutexType, LockType, PC
<1>4. CountW' /\ CountR'
  BY DEF CountW, CountR, MutexType
<1>5. Exclusion' /\ HolderIsCurrent' /\ CallsOK'
  BY <1>1 DEF MutexType, Exclusion, HolderIsCurrent, CallsOK
<1>6. SleepOK'
  BY DEF MutexType, SleepOK
<1> QED
  BY <1>2, <1>3, <1>4, <1>5, <1>6

(* TryStep, whatever way it ends, from the value of mWritePending inside    *)
(* the PendingGuard of the call.                                            *)
LEMMA TryStepMutexInv ==
  ASSUME MutexInv, NEW t \in Threads, NEW pending \in Nat,
         pc[t] \in {"enter", "try"}, t \notin asleep,
         pending = Cardinality(Pending \cup {t}),
         TryStep(t, pending)
  PROVE  MutexInv'
<1> USE DEF MutexInv
<1>1. handle[t] = "read" /\ t \in Readers
  BY DEF CallsOK, Readers
<1>2. \A u \in Threads : handle[u] # "write"
  BY <1>1 DEF Exclusion
<1>3. mLock = Cardinality(Readers) /\ mLock \in Nat \ {0}
  BY Zenon, <1>1, <1>2, CountRemove DEF CountR, Readers
<1>4. /\ pending \in Nat \ {0}
      /\ Cardinality((Pending \cup {t}) \ {t}) = pending - 1
  BY SMTT(60), CountRemove, Pending \cup {t} \in SUBSET Threads DEF Pending
<1>a. Pending \in SUBSET Threads /\ Pending \cup {t} \in SUBSET Threads
  BY DEF Pending
<1>5. pending = 1 => Pending \subseteq {t}
  <2>1. t \in Pending \cup {t}
    OBVIOUS
  <2>2. Cardinality(Pending \cup {t}) = 1 => Pending \cup {t} = {t}
    BY <1>a, <2>1, CountSmall
  <2> QED
    BY <2>2
<1>6. mWritePending \in {pending, pending - 1}
  <2>1. CASE t \in Pending
    BY Zenon, <2>1, Pending \cup {t} = Pending DEF CountP
  <2>2. CASE t \notin Pending
    BY <1>a, <2>2, CountAdd DEF CountP
  <2> QED
    BY <2>1, <2>2
<1>7. CASE pending # 1 /\ Return(t) /\ mWritePending' = pending - 1
           /\ UNCHANGED <<mLock, handle, asleep, stale>>
  <2> USE <1>7 DEF Return
  <2>1. MutexType'
    BY <1>4 DEF MutexType, PC
  <2>2. Pending' = (Pending \cup {t}) \ {t} /\ Readers' = Readers
    BY DEF MutexType, Pending, Readers
  <2>3. CountW' /\ CountR' /\ CountP'
    BY <2>2, <1>4 DEF CountW, CountR, CountP
  <2>4. Exclusion' /\ HolderIsCurrent' /\ CallsOK'
    BY DEF MutexType, Exclusion, HolderIsCurrent, CallsOK
  <2>5. SleepOK'
    BY <1>4 DEF MutexType, SleepOK
  <2> QED
    BY <2>1, <2>3, <2>4, <2>5
<1>8. CASE /\ pending = 1 /\ mLock = 1 /\ GrantWrite(t)
           /\ stale' = stale \cup (Threads \ {t})
           /\ NotifyAll /\ mWritePending' = pending - 1
  <2> USE <1>8 DEF GrantWrite, Return, NotifyAll
  <2>1. Readers = {t}
    BY <1>1, <1>3, CountSmall DEF Readers
  <2>2. \A u \in Threads \ {t} : handle[u] = "unlocked"
    BY <2>1, <1>2 DEF MutexType, LockType, Readers
  <2>3. MutexType'
    BY DEF MutexType, LockType, PC
  <2>4. Pending' = {}
    BY <1>5 DEF MutexType, Pending
  <2>5. CountW' /\ CountR' /\ CountP'
    BY <2>4, FS_EmptySet DEF CountW, CountR, CountP, MutexType
  <2>6. Exclusion' /\ HolderIsCurrent' /\ CallsOK'
    BY <1>1, <2>2 DEF MutexType, Exclusion, HolderIsCurrent, CallsOK
  <2>7. SleepOK'
    BY DEF SleepOK
  <2> QED
    BY <2>3, <2>5, <2>6, <2>7
<1>9. CASE pending = 1 /\ mLock # 1 /\ mWritePending' = pending /\ Sleep(t, "try")
  <2> USE <1>9 DEF Sleep
  <2>1. MutexType'
    BY DEF MutexType, PC
  <2>2. Pending' = Pending \cup {t} /\ Readers' = Readers
    BY DEF MutexType, Pending, Readers
  <2>3. CountW' /\ CountR' /\ CountP'
    BY <2>2 DEF CountW, CountR, CountP
  <2>4. Exclusion' /\ HolderIsCurrent' /\ CallsOK'
    BY <1>1 DEF MutexType, Exclusion, HolderIsCurrent, CallsOK
  <2>5. \A u \in asleep : pc[u] \notin {"write", "try"}
    BY <1>5 DEF MutexType, Pending
  <2>6. SleepOK'
    BY <1>3, <2>5 DEF MutexType, SleepOK
  <2> QED
    BY <2>1, <2>3, <2>4, <2>6
<1> QED
  BY <1>7, <1>8, <1>9 DEF TryStep

(* A blocked ReadLock or WriteLock, and the steps that release or wake.     *)
LEMMA SleepMutexInv ==
  ASSUME MutexInv, NEW t \in Threads, handle[t] = "unlocked", t \notin asleep,
         \/ /\ pc[t] \in {"idle", "read"} /\ ~CanRead
            /\ Sleep(t, "read") /\ UNCHANGED mWritePending
         \/ /\ pc[t] = "idle" /\ mLock # 0
            /\ Sleep(t, "write") /\ mWritePending' = mWritePending + 1
         \/ /\ pc[t] = "write" /\ mLock # 0
            /\ Sleep(t, "write") /\ UNCHANGED mWritePending
  PROVE  MutexInv'
<1> USE DEF MutexInv, Sleep
<1>1. Readers' = Readers
  BY DEF Readers
<1>2. CountP' /\ mWritePending' \in Nat
  <2>1. CASE pc[t] = "idle" /\ mLock # 0 /\ Sleep(t, "write")
             /\ mWritePending' = mWritePending + 1
    <3>1. t \notin Pending /\ Pending' = Pending \cup {t}
          /\ Pending \in SUBSET Threads
      BY <2>1 DEF MutexType, Pending
    <3> QED
      BY <2>1, <3>1, CountAdd DEF CountP
  <2>2. CASE UNCHANGED mWritePending
    <3>1. Pending' = Pending
      BY <2>2 DEF MutexType, Pending
    <3> QED
      BY <2>2, <3>1 DEF MutexType, CountP
  <2> QED
    BY <2>1, <2>2
<1>3. MutexType'
  BY <1>2 DEF MutexType, PC
<1>4. CountW' /\ CountR' /\ Exclusion' /\ HolderIsCurrent'
  BY <1>1 DEF CountW, CountR, Exclusion, HolderIsCurrent
<1>5. CallsOK'
  BY DEF MutexType, CallsOK
<1>6. CountW /\ CountR /\ mLock < 0 => mLock = -1
  BY CountSmall, Readers \in SUBSET Threads DEF CountW, CountR, Readers
<1>7. SleepOK'
  BY <1>2, <1>6 DEF MutexType, SleepOK, CanRead
<1> QED
  BY <1>2, <1>3, <1>4, <1>5, <1>7

(* An upgraded handle that gives its write lock back and keeps its read lock. *)
LEMMA DowngradeMutexInv ==
  ASSUME MutexInv, NEW t \in Threads, Downgrade(t)
  PROVE  MutexInv'
<1> USE DEF MutexInv, Downgrade, NotifyAll
<1>1. \A u \in Threads \ {t} : handle[u] = "unlocked"
  BY DEF Exclusion
<1>2. MutexType'
  BY DEF MutexType, LockType
<1>3. Readers' = {t} /\ Pending' = Pending
  BY <1>1 DEF MutexType, Readers, Pending
<1>4. Cardinality({t}) = 1
  BY Zenon, FS_Singleton
<1>5. CountW' /\ CountR' /\ CountP'
  BY <1>1, <1>3, <1>4 DEF MutexType, CountW, CountR, CountP
<1>6. Exclusion' /\ HolderIsCurrent' /\ CallsOK' /\ SleepOK'
  BY <1>1 DEF MutexType, Exclusion, HolderIsCurrent, CallsOK, SleepOK
<1> QED
  BY <1>2, <1>5, <1>6

(* The release of a read or a write lock. *)
LEMMA ReleaseMutexInv ==
  ASSUME MutexInv, NEW t \in Threads, Release(t)
  PROVE  MutexInv'
<1> USE DEF MutexInv, Release, NotifyAll
<1>1. MutexType'
  BY DEF MutexType, LockType
<1>2. Pending' = Pending /\ CountP'
  BY DEF Pending, CountP
<1>3. CountW' /\ CountR'
  <2>1. CASE handle[t] = "write"
    <3>1. \A u \in Threads : handle'[u] = "unlocked"
      BY <2>1 DEF MutexType, Exclusion
    <3>2. Readers' = {} /\ mLock' = 0
      BY <2>1, <3>1 DEF Readers, CountW
    <3> QED
      BY <3>1, <3>2, FS_EmptySet DEF CountW, CountR
  <2>2. CASE handle[t] = "read"
    <3>1. t \in Readers /\ Readers' = Readers \ {t} /\ Readers \in SUBSET Threads
      BY <2>2 DEF MutexType, Readers
    <3>2. /\ \A u \in Threads : handle[u] # "write"
          /\ \A u \in Threads : handle'[u] # "write"
      BY <2>2 DEF MutexType, Exclusion
    <3> QED
      BY <3>1, <3>2, CountRemove DEF CountW, CountR
  <2> QED
    BY <2>1, <2>2 DEF MutexType, LockType
<1>4. Exclusion' /\ HolderIsCurrent' /\ CallsOK' /\ SleepOK'
  BY DEF MutexType, Exclusion, HolderIsCurrent, CallsOK, SleepOK
<1> QED
  BY <1>1, <1>2, <1>3, <1>4

(* Every step of the mutex preserves the inductive invariant. *)
LEMMA NextMutexInv == MutexInv /\ [MutexNext]_mutexVars => MutexInv'
<1> SUFFICES ASSUME MutexInv, [MutexNext]_mutexVars PROVE MutexInv'
  OBVIOUS
<1>0. ASSUME UNCHANGED mutexVars PROVE MutexInv'
  BY <1>0 DEF mutexVars, MutexInv, MutexType, Exclusion, HolderIsCurrent, CallsOK, SleepOK,
              CountW, CountR, CountP, Readers, Pending
<1>1. ASSUME NEW t \in Threads, ReadLock(t) \/ ReadWake(t) PROVE MutexInv'
  <2>1. /\ handle[t] = "unlocked" /\ t \notin asleep
        /\ pc[t] \in {"idle", "read"} /\ ReadStep(t)
    BY <1>1 DEF ReadLock, ReadWake, MutexInv, CallsOK, SleepOK
  <2> QED
    BY <2>1, GrantReadMutexInv, SleepMutexInv DEF ReadStep
<1>2. ASSUME NEW t \in Threads, WriteLock(t) PROVE MutexInv'
  <2>1. t \notin asleep
    BY <1>2 DEF WriteLock, MutexInv, SleepOK
  <2> QED
    BY <1>2, <2>1, GrantWriteMutexInv, SleepMutexInv DEF WriteLock
<1>3. ASSUME NEW t \in Threads, WriteWake(t) PROVE MutexInv'
  <2>1. handle[t] = "unlocked"
    BY <1>3 DEF WriteWake, MutexInv, CallsOK
  <2> QED
    BY <1>3, <2>1, GrantWriteMutexInv, SleepMutexInv DEF WriteWake
<1>4. ASSUME NEW t \in Threads, TryWriteLock(t) PROVE MutexInv'
  <2> USE <1>4 DEF TryWriteLock, MutexInv
  <2>1. Pending' = Pending /\ Readers' = Readers
    BY DEF MutexType, Pending, Readers
  <2>2. MutexType' /\ Exclusion' /\ HolderIsCurrent' /\ CallsOK' /\ SleepOK'
    BY DEF MutexType, PC, Exclusion, HolderIsCurrent, CallsOK, SleepOK
  <2>3. CountW' /\ CountR' /\ CountP'
    BY Zenon, <2>1 DEF CountW, CountR, CountP
  <2> QED
    BY <2>2, <2>3
<1>5. ASSUME NEW t \in Threads, TryEnter(t) \/ TryWake(t) PROVE MutexInv'
  <2>1. CASE TryEnter(t)
    <3>1. t \notin asleep /\ t \notin Pending /\ Pending \in SUBSET Threads
      BY <2>1 DEF TryEnter, MutexInv, SleepOK, Pending
    <3>2. mWritePending + 1 = Cardinality(Pending \cup {t}) /\ mWritePending + 1 \in Nat
      BY <3>1, CountAdd DEF MutexInv, CountP
    <3> QED
      BY <2>1, <3>1, <3>2, TryStepMutexInv DEF TryEnter
  <2>2. CASE TryWake(t)
    <3>1. Pending \cup {t} = Pending
      BY <2>2 DEF TryWake, Pending
    <3>2. mWritePending = Cardinality(Pending \cup {t}) /\ mWritePending \in Nat
      BY Zenon, <3>1 DEF MutexInv, CountP, MutexType
    <3> QED
      BY <2>2, <3>2, TryStepMutexInv DEF TryWake
  <2> QED
    BY <1>5, <2>1, <2>2
<1>6. ASSUME NEW t \in Threads, SpuriousWake(t) PROVE MutexInv'
  BY <1>6 DEF SpuriousWake, MutexInv, MutexType, Exclusion, HolderIsCurrent, CallsOK,
              SleepOK, CountW, CountR, CountP, Readers, Pending
<1> QED
  BY <1>0, <1>1, <1>2, <1>3, <1>4, <1>5, <1>6, DowngradeMutexInv, ReleaseMutexInv DEF MutexNext

-----------------------------------------------------------------------------

(* The inductive invariant gives the counters of CountsMatch. *)
LEMMA IInvCounts == MutexInv => CountsMatch
  BY DEF MutexInv, CountW, CountR, CountP, CountsMatch

(* A blocked upgrade is never the only reader, and the other one is awake;  *)
(* a held write lock is held by a thread that is awake.                     *)
LEMMA AwakeHolder ==
  ASSUME MutexInv, mLock # 0
  PROVE  \E u \in Threads \ asleep : handle[u] # "unlocked"
<1> USE DEF MutexInv
<1>1. Readers \in SUBSET Threads /\ Cardinality(Readers) \in Nat
  BY CountSmall DEF Readers
<1>2. CASE \E u \in Threads : handle[u] = "write"
  BY <1>2 DEF CallsOK, SleepOK
<1>3. CASE \A u \in Threads : handle[u] # "write"
  <2>1. mLock = Cardinality(Readers) /\ Readers # {}
    BY <1>1, <1>3, CountSmall DEF CountR
  <2>2. PICK r \in Readers : TRUE
    BY <2>1
  <2>3. CASE r \notin asleep
    BY <2>2, <2>3 DEF Readers
  <2>4. CASE r \in asleep
    <3>1. pc[r] = "try" /\ mLock >= 2
      BY <2>2, <2>4 DEF Readers, CallsOK, SleepOK
    <3>2. PICK s \in Readers : s # r
      BY <1>1, <2>1, <2>2, <3>1, CountSmall
    <3>3. s \notin asleep
      BY <2>4, <3>1, <3>2 DEF Readers, CallsOK, SleepOK
    <3> QED
      BY <3>2, <3>3 DEF Readers
  <2> QED
    BY <2>3, <2>4
<1> QED
  BY <1>2, <1>3

(* The inductive invariant rules out a lost wake-up. *)
LEMMA IInvNoLostWakeup == MutexInv => NoLostWakeup
<1> SUFFICES ASSUME MutexInv, NEW t \in asleep PROVE NoLostWakeup
  BY DEF NoLostWakeup
<1> USE DEF MutexInv
<1>1. CASE mLock # 0
  BY <1>1, AwakeHolder DEF NoLostWakeup
<1>2. CASE mLock = 0
  <2>1. mWritePending # 0
    BY <1>2 DEF SleepOK, MutexType
  <2>2. PICK p \in Pending : TRUE
    BY <2>1, CountSmall, Pending \in SUBSET Threads DEF CountP, Pending
  <2>3. p \notin asleep
    BY <1>2, <2>2 DEF SleepOK, Pending
  <2> QED
    BY <2>2, <2>3 DEF Pending, NoLostWakeup
<1> QED
  BY <1>1, <1>2

(* The inductive invariant holds in every reachable state, for any number   *)
(* of threads calling ReadLock, WriteLock, TryWriteLock and Release.        *)
THEOREM MutexInductive == MutexSafety => []MutexInv
<1>1. MutexInit => MutexInv
  BY InitMutexInv
<1>2. MutexInv /\ [MutexNext]_mutexVars => MutexInv'
  BY NextMutexInv
<1> QED
  BY <1>1, <1>2, PTL DEF MutexSafety

(* The variables of the mutex keep their types; mWritePending never goes    *)
(* below zero, so the pending guards are balanced.                          *)
THEOREM TypeCorrect == MutexSafety => []MutexType
<1>1. MutexInv => MutexType
  BY DEF MutexInv
<1> QED
  BY <1>1, MutexInductive, PTL

(* A handle of Type::write excludes every other lock. *)
THEOREM MutualExclusion == MutexSafety => []Exclusion
<1>1. MutexInv => Exclusion
  BY DEF MutexInv
<1> QED
  BY <1>1, MutexInductive, PTL

(* mLock and mWritePending always count the locks and the write requests.   *)
THEOREM CountersCorrect == MutexSafety => []CountsMatch
<1>1. MutexInv => CountsMatch
  BY IInvCounts
<1> QED
  BY <1>1, MutexInductive, PTL

(* What a thread read under its lock is still current for as long as it     *)
(* holds a lock, also across an upgrade by TryWriteLock.                    *)
THEOREM UpgradeKeepsView == MutexSafety => []HolderIsCurrent
<1>1. MutexInv => HolderIsCurrent
  BY DEF MutexInv
<1> QED
  BY <1>1, MutexInductive, PTL

(* notify_all is called often enough: no thread sleeps in mTryTakeLock.wait *)
(* with nobody left to wake it.                                             *)
THEOREM WakeupsSuffice == MutexSafety => []NoLostWakeup
<1>1. MutexInv => NoLostWakeup
  BY IInvNoLostWakeup
<1> QED
  BY <1>1, MutexInductive, PTL

-----------------------------------------------------------------------------
(* Every coin of u is as in the set of block a or as in that of block b.    *)
Mixture(u, a, b) ==
  \A o \in Outpoint :
    (o \in u) = (o \in UtxoOf[a]) \/ (o \in u) = (o \in UtxoOf[b])

(* ReplayBlocks has worked its way to tip.                                  *)
ReplayOK ==
  phase \in {"rollback", "rollforward"} =>
    heads # << >> /\ tip \in Block /\ Mixture(view, tip, heads[1])

(* Where a transition is on disk, the node is on its way to its new tip.    *)
TargetOK ==
  /\ phase = "run" => heads = << >>
  /\ phase \in {"loaded", "flush"} /\ heads # << >> => heads[1] = tip
  /\ phase = "flush" => tip \in Block

(* What is no longer to be written is written.                              *)
DirtyOK == phase = "flush" => \A o \in Outpoint \ dirty : (o \in db) = (o \in view)

(* The index in memory knows at least what is on disk, and the whole chain  *)
(* of the tip.                                                              *)
IndexOK ==
  /\ phase # "down" => indexDisk \subseteq index /\ undoDisk \subseteq undo
  /\ phase \in {"loaded", "run", "flush"} /\ tip # Null => Ancestors[tip] \subseteq index \cap undo
  /\ phase = "flush" => index = indexDisk /\ undo = undoDisk

IInv ==
  /\ TypeOK /\ DiskConsistent /\ ViewIsTip /\ Replayable
  /\ ReplayOK /\ TargetOK /\ DirtyOK /\ IndexOK

-----------------------------------------------------------------------------
(* Undoing and redoing one block.                                           *)

(* A block redone on its parent's set gives its own set, and undone on its  *)
(* own set gives its parent's.                                              *)
LEMMA Exact ==
  ASSUME NEW b \in Block
  PROVE  /\ Apply(b, UtxoOf[Parent[b]]) = UtxoOf[b]
         /\ Undo(b, UtxoOf[b]) = UtxoOf[Parent[b]]
<1> DEFINE u == UtxoOf[Parent[b]]
<1>1. /\ Used[b] \subseteq u /\ Created[b] \cap u = {} /\ Passing[b] \cap u = {}
      /\ Created[b] \cap Passing[b] = {} /\ UtxoOf[b] = Apply(b, u)
  BY RecoveryAssumption
<1>2. Undo(b, Apply(b, u)) = u
  BY <1>1 DEF Undo, Apply
<1> QED BY <1>1, <1>2

(* Redoing a block on a mixture with its parent gives a mixture with it.    *)
LEMMA ApplyMixture ==
  ASSUME NEW b \in Block, NEW n \in Block, NEW u \in SUBSET Outpoint, Mixture(u, Parent[b], n)
  PROVE  Mixture(Apply(b, u), b, n)
<1>1. UtxoOf[b] = Apply(b, UtxoOf[Parent[b]])
  BY Exact
<1> QED BY <1>1 DEF Mixture, Apply

(* Undoing a block on a mixture with it gives a mixture with its parent.    *)
LEMMA UndoMixture ==
  ASSUME NEW b \in Block, NEW n \in Block, NEW u \in SUBSET Outpoint, Mixture(u, b, n)
  PROVE  Mixture(Undo(b, u), Parent[b], n)
<1>1. UtxoOf[Parent[b]] = Undo(b, UtxoOf[b])
  BY Exact
<1> QED BY <1>1 DEF Mixture, Undo

(* A mixture of a set with itself is that set.                              *)
LEMMA MixtureSelf ==
  ASSUME NEW b \in Block, NEW u \in SUBSET Outpoint, Mixture(u, b, b)
  PROVE  u = UtxoOf[b]
<1>1. UtxoOf[b] \in SUBSET Outpoint
  BY RecoveryAssumption DEF Tip
<1>2. \A o \in Outpoint : (o \in u) = (o \in UtxoOf[b])
  BY DEF Mixture
<1> QED BY <1>1, <1>2

(* Both operations stay within the outputs.                                 *)
LEMMA StepTypes ==
  ASSUME NEW b \in Block, NEW u \in SUBSET Outpoint
  PROVE  Apply(b, u) \in SUBSET Outpoint /\ Undo(b, u) \in SUBSET Outpoint
  BY RecoveryAssumption DEF Apply, Undo

(* The chain of a block and that of its parent.                             *)
LEMMA ChainStep ==
  ASSUME NEW b \in Block
  PROVE  /\ b \in Ancestors[b] /\ Ancestors[b] \subseteq Block
         /\ Parent[b] \in Tip /\ (Parent[b] = Null <=> b = Genesis)
         /\ Parent[b] # Null => Ancestors[b] = {b} \cup Ancestors[Parent[b]]
         /\ Parent[b] = Null => Ancestors[b] = {b}
  BY RecoveryAssumption DEF Tip

-----------------------------------------------------------------------------
(* The initial state and the steps.                                         *)

(* An empty data directory.                                                *)
LEMMA InitIInv == Init => IInv
<1> SUFFICES ASSUME Init PROVE IInv
  OBVIOUS
<1>1. TypeOK
  BY DEF Init, TypeOK, Tip, Phase
<1>2. DiskConsistent /\ ViewIsTip /\ Replayable
  BY RecoveryAssumption DEF Init, DiskConsistent, ViewIsTip, Replayable
<1>3. ReplayOK /\ TargetOK /\ DirtyOK /\ IndexOK
  BY DEF Init, ReplayOK, TargetOK, DirtyOK, IndexOK
<1> QED BY <1>1, <1>2, <1>3 DEF IInv

(* Loading: the replay starts from the mixture on disk.                     *)
LEMMA LoadIInv ==
  ASSUME IInv, Load PROVE IInv'
<1>a. /\ phase = "down" /\ index' = indexDisk /\ undo' = undoDisk /\ view' = db /\ dirty' = dirty
      /\ db' = db /\ best' = best /\ heads' = heads
      /\ indexDisk' = indexDisk /\ undoDisk' = undoDisk
      /\ IF heads = << >>
         THEN phase' = "loaded" /\ tip' = best
         ELSE phase' = "rollback" /\ tip' = IF heads[2] = Null THEN Genesis ELSE heads[2]
  BY DEF Load, disk
<1>b. heads # << >> => heads[1] \in Block /\ heads[2] \in Tip
  BY DEF IInv, TypeOK
<1>1. TypeOK'
  BY <1>a, <1>b, RecoveryAssumption DEF IInv, TypeOK, Tip, Phase
<1>2. DiskConsistent' /\ Replayable'
  BY <1>a DEF IInv, DiskConsistent, Replayable
<1>3. ViewIsTip'
  BY <1>a DEF IInv, ViewIsTip, DiskConsistent
<1>4. ReplayOK'
  BY <1>a, <1>b, RecoveryAssumption DEF IInv, ReplayOK, DiskConsistent, Mixture, Tip
<1>5. TargetOK' /\ DirtyOK'
  BY <1>a DEF TargetOK, DirtyOK
<1>6. IndexOK'
  BY <1>a DEF IInv, IndexOK, Replayable
<1> QED BY <1>1, <1>2, <1>3, <1>4, <1>5, <1>6 DEF IInv

(* One step of ReplayBlocks.                                                *)
LEMMA ReplayIInv ==
  ASSUME IInv, Rollback \/ Rollforward PROVE IInv'
<1>a. /\ phase \in {"rollback", "rollforward"}
      /\ index' = index /\ undo' = undo /\ dirty' = dirty /\ db' = db /\ best' = best
      /\ heads' = heads /\ indexDisk' = indexDisk /\ undoDisk' = undoDisk
      /\ phase' \in {"rollback", "rollforward", "loaded"}
      /\ phase' = "loaded" => tip = heads[1] /\ UNCHANGED <<tip, view>>
  BY DEF Rollback, Rollforward, disk
<1>b. heads # << >> /\ heads[1] \in Block /\ heads[2] \in Tip /\ tip \in Block
      /\ view \in SUBSET Outpoint /\ Mixture(view, tip, heads[1])
  BY <1>a DEF IInv, ReplayOK, TypeOK
<1>1. tip' \in Block /\ view' \in SUBSET Outpoint /\ Mixture(view', tip', heads[1])
  <2>1. CASE UNCHANGED <<tip, view>>
    BY <1>b, <2>1
  <2>2. CASE /\ tip \notin Ancestors[heads[1]] /\ tip \in undo
             /\ view' = Undo(tip, view) /\ tip' = Parent[tip]
    <3>1. Genesis \in Ancestors[heads[1]]
      BY <1>b, RecoveryAssumption
    <3>2. tip' \in Block
      BY <1>b, <2>2, <3>1, ChainStep DEF Tip
    <3> QED BY <1>b, <2>2, <3>2, UndoMixture, StepTypes
  <2>3. ASSUME NEW b \in Block, Parent[b] = tip, view' = Apply(b, view), tip' = b
        PROVE  tip' \in Block /\ view' \in SUBSET Outpoint /\ Mixture(view', tip', heads[1])
    BY <1>b, <2>3, ApplyMixture, StepTypes
  <2> QED BY <1>b, <2>1, <2>2, <2>3, ChainStep DEF Rollback, Rollforward
<1>2. TypeOK'
  BY <1>a, <1>1 DEF IInv, TypeOK, Tip, Phase
<1>3. DiskConsistent' /\ Replayable'
  BY <1>a DEF IInv, DiskConsistent, Replayable
<1>4. ReplayOK' /\ TargetOK' /\ DirtyOK'
  BY <1>a, <1>b, <1>1 DEF ReplayOK, TargetOK, DirtyOK
<1>5. ViewIsTip'
  BY <1>a, <1>b, <1>1, MixtureSelf DEF ViewIsTip
<1>6. IndexOK'
  BY <1>a, <1>b DEF IInv, IndexOK, Replayable
<1> QED BY <1>2, <1>3, <1>4, <1>5, <1>6 DEF IInv

(* Connecting and disconnecting, receiving, and writing the index alone.    *)
LEMMA RunIInv ==
  ASSUME IInv,
         \/ StartEmpty \/ DisconnectTip \/ PeriodicWrite
         \/ \E b \in Block : Receive(b) \/ ConnectTip(b)
  PROVE  IInv'
<1>a. /\ phase \in {"loaded", "run"} /\ phase' = "run" /\ (phase = "loaded" => tip = Null)
      /\ db' = db /\ best' = best /\ heads' = heads /\ dirty' = dirty
      /\ indexDisk' \in {indexDisk, index} /\ undoDisk' \in {undoDisk, undo}
      /\ indexDisk' \subseteq index' /\ undoDisk' \subseteq undo'
      /\ indexDisk \subseteq indexDisk' /\ undoDisk \subseteq undoDisk'
  BY DEF StartEmpty, DisconnectTip, PeriodicWrite, Receive, ConnectTip, WriteIndex, disk,
         IInv, IndexOK
<1>b. view = UtxoOf[tip] /\ heads = << >> /\ view \in SUBSET Outpoint
  <2>1. heads # << >> => heads[1] \in Block /\ heads[1] # Null
    BY RecoveryAssumption DEF IInv, TypeOK
  <2> QED BY <1>a, <2>1 DEF IInv, ViewIsTip, TargetOK, TypeOK
<1>1. /\ tip' \in Tip /\ view' \in SUBSET Outpoint /\ view' = UtxoOf[tip']
      /\ index' \subseteq Block /\ undo' \subseteq Block
      /\ tip' # Null => Ancestors[tip'] \subseteq index' \cap undo'
  <2>1. CASE StartEmpty \/ PeriodicWrite
    BY <1>a, <1>b, <2>1 DEF StartEmpty, PeriodicWrite, IInv, TypeOK, IndexOK
  <2>2. CASE DisconnectTip
    <3>1. /\ tip \in Block /\ tip # Genesis /\ tip' = Parent[tip] /\ view' = Undo(tip, view)
          /\ index' = index /\ undo' = undo /\ phase = "run"
      BY <2>2 DEF DisconnectTip, IInv, TypeOK
    <3>2. view' = UtxoOf[tip'] /\ view' \in SUBSET Outpoint
      BY <1>b, <3>1, Exact, StepTypes
    <3>3. tip # Null /\ Ancestors[tip] \subseteq index \cap undo
      BY <3>1, RecoveryAssumption DEF IInv, IndexOK
    <3> QED BY <3>1, <3>2, <3>3, ChainStep DEF IInv, TypeOK
  <2>3. ASSUME NEW b \in Block, Receive(b)
        PROVE  /\ tip' \in Tip /\ view' \in SUBSET Outpoint /\ view' = UtxoOf[tip']
               /\ index' \subseteq Block /\ undo' \subseteq Block
               /\ tip' # Null => Ancestors[tip'] \subseteq index' \cap undo'
    BY <1>b, <2>3 DEF Receive, IInv, TypeOK, IndexOK
  <2>4. ASSUME NEW b \in Block, ConnectTip(b)
        PROVE  /\ tip' \in Tip /\ view' \in SUBSET Outpoint /\ view' = UtxoOf[tip']
               /\ index' \subseteq Block /\ undo' \subseteq Block
               /\ tip' # Null => Ancestors[tip'] \subseteq index' \cap undo'
    <3>1. /\ b \in index /\ tip = Parent[b] /\ tip' = b /\ view' = Apply(b, view)
          /\ index' = index /\ undo' = undo \cup {b} /\ phase = "run"
      BY <2>4 DEF ConnectTip
    <3>2. view' = UtxoOf[tip'] /\ view' \in SUBSET Outpoint
      BY <1>b, <3>1, Exact, StepTypes
    <3>3. tip # Null => Ancestors[tip] \subseteq index \cap undo
      BY <3>1 DEF IInv, IndexOK
    <3> QED BY <3>1, <3>2, <3>3, ChainStep DEF IInv, TypeOK, Tip
  <2> QED BY <2>1, <2>2, <2>3, <2>4
<1>2. TypeOK'
  BY <1>a, <1>1 DEF IInv, TypeOK, Tip, Phase
<1>3. DiskConsistent' /\ Replayable'
  BY <1>a DEF IInv, DiskConsistent, Replayable
<1>4. ViewIsTip' /\ ReplayOK' /\ TargetOK' /\ DirtyOK' /\ IndexOK'
  BY <1>a, <1>b, <1>1 DEF ViewIsTip, ReplayOK, TargetOK, DirtyOK, IndexOK
<1> QED BY <1>2, <1>3, <1>4 DEF IInv

(* The flush: its beginning ...                                             *)
LEMMA FlushIInv ==
  ASSUME IInv, NEW d \in SUBSET Outpoint, FlushStateToDisk(d) PROVE IInv'
<1>a. /\ phase \in {"run", "loaded"} /\ tip # Null /\ phase' = "flush" /\ dirty' = d
      /\ \A o \in Outpoint : (o \in db) # (o \in view) => o \in d
      /\ indexDisk' = index /\ undoDisk' = undo /\ index' = index /\ undo' = undo
      /\ db' = db /\ best' = best /\ heads' = heads /\ tip' = tip /\ view' = view
  BY DEF FlushStateToDisk, WriteIndex
<1>1. TypeOK'
  BY <1>a DEF IInv, TypeOK, Tip, Phase
<1>2. DiskConsistent' /\ ViewIsTip' /\ ReplayOK'
  BY <1>a DEF IInv, DiskConsistent, ViewIsTip, ReplayOK
<1>3. Replayable'
  <2>1. indexDisk \subseteq indexDisk' /\ undoDisk \subseteq undoDisk'
    BY <1>a DEF IInv, IndexOK
  <2> QED BY <1>a, <2>1 DEF IInv, Replayable
<1>4. TargetOK' /\ DirtyOK' /\ IndexOK'
  BY <1>a DEF IInv, TypeOK, TargetOK, DirtyOK, IndexOK, Tip
<1> QED BY <1>1, <1>2, <1>3, <1>4 DEF IInv

(* ... its partial batches ...                                              *)
LEMMA WritePartialIInv ==
  ASSUME IInv, NEW s \in SUBSET dirty, WritePartial(s) PROVE IInv'
<1>a. /\ phase = "flush" /\ phase' = "flush" /\ dirty' = dirty \ s
      /\ db' = (db \ s) \cup (view \cap s) /\ heads' = <<tip, OldTip>> /\ best' = Null
      /\ indexDisk' = indexDisk /\ undoDisk' = undoDisk
      /\ index' = index /\ undo' = undo /\ tip' = tip /\ view' = view
  BY DEF WritePartial, Written
<1>b. /\ tip \in Block /\ OldTip \in Tip /\ view = UtxoOf[tip]
      /\ heads # << >> => heads[1] = tip /\ best = Null /\ OldTip = heads[2]
      /\ heads = << >> => OldTip = best
  BY <1>a DEF IInv, TypeOK, TargetOK, OldTip, ViewIsTip, DiskConsistent
<1>c. heads'[1] = tip /\ heads'[2] = OldTip /\ heads' # << >>
  BY <1>a
<1>1. TypeOK'
  <2>1. db' \subseteq Outpoint /\ dirty' \subseteq Outpoint
    BY <1>a DEF IInv, TypeOK
  <2> QED BY <1>a, <1>b, <2>1 DEF IInv, TypeOK, Tip, Phase
<1>2. DiskConsistent'
  <2>1. ASSUME NEW o \in Outpoint
        PROVE  (o \in db') = (o \in UtxoOf[tip]) \/ (o \in db') = (o \in UtxoOf[OldTip])
    <3>1. (o \in db) = (o \in UtxoOf[tip]) \/ (o \in db) = (o \in UtxoOf[OldTip])
      BY <1>b DEF IInv, DiskConsistent
    <3> QED BY <1>a, <1>b, <3>1
  <2> QED BY <1>a, <1>c, <2>1 DEF DiskConsistent
<1>3. Replayable'
  <2>1. Ancestors[tip] \subseteq indexDisk \cap undoDisk
    BY <1>a, <1>b, RecoveryAssumption DEF IInv, IndexOK
  <2>2. OldTip # Null => Ancestors[OldTip] \subseteq indexDisk \cap undoDisk
    BY <1>b DEF IInv, Replayable
  <2> QED BY <1>a, <1>c, <2>1, <2>2 DEF Replayable
<1>4. ViewIsTip' /\ ReplayOK' /\ TargetOK'
  BY <1>a, <1>b, <1>c DEF ViewIsTip, ReplayOK, TargetOK
<1>5. DirtyOK' /\ IndexOK'
  BY <1>a DEF IInv, DirtyOK, IndexOK
<1> QED BY <1>1, <1>2, <1>3, <1>4, <1>5 DEF IInv

(* ... and its end.                                                         *)
LEMMA WriteFinalIInv ==
  ASSUME IInv, WriteFinal PROVE IInv'
<1>a. /\ phase = "flush" /\ phase' = "run" /\ dirty' = {}
      /\ db' = (db \ dirty) \cup (view \cap dirty) /\ heads' = << >> /\ best' = tip
      /\ indexDisk' = indexDisk /\ undoDisk' = undoDisk
      /\ index' = index /\ undo' = undo /\ tip' = tip /\ view' = view
  BY DEF WriteFinal, Written
<1>b. tip \in Block /\ view = UtxoOf[tip] /\ tip # Null
  BY <1>a, RecoveryAssumption DEF IInv, TypeOK, TargetOK, ViewIsTip
<1>1. db' = view
  BY <1>a DEF IInv, DirtyOK, TypeOK
<1>2. TypeOK'
  BY <1>a, <1>1 DEF IInv, TypeOK, Tip, Phase
<1>3. DiskConsistent' /\ ViewIsTip'
  BY <1>a, <1>b, <1>1 DEF DiskConsistent, ViewIsTip
<1>4. Replayable'
  BY <1>a, <1>b DEF IInv, Replayable, IndexOK
<1>5. ReplayOK' /\ TargetOK' /\ DirtyOK' /\ IndexOK'
  BY <1>a, <1>b DEF IInv, ReplayOK, TargetOK, DirtyOK, IndexOK
<1> QED BY <1>2, <1>3, <1>4, <1>5 DEF IInv

(* A crash leaves the disk as it is.                                        *)
LEMMA CrashIInv ==
  ASSUME IInv, Crash PROVE IInv'
<1>a. /\ phase' = "down" /\ index' = {} /\ undo' = {} /\ tip' = Null /\ view' = {} /\ dirty' = {}
      /\ db' = db /\ best' = best /\ heads' = heads
      /\ indexDisk' = indexDisk /\ undoDisk' = undoDisk
  BY DEF Crash, disk
<1>1. TypeOK'
  BY <1>a DEF IInv, TypeOK, Tip, Phase
<1>2. DiskConsistent' /\ Replayable'
  BY <1>a DEF IInv, DiskConsistent, Replayable
<1>3. ViewIsTip' /\ ReplayOK' /\ TargetOK' /\ DirtyOK' /\ IndexOK'
  BY <1>a DEF ViewIsTip, ReplayOK, TargetOK, DirtyOK, IndexOK
<1> QED BY <1>1, <1>2, <1>3 DEF IInv

(* Every step preserves IInv.                                               *)
LEMMA NextIInv == IInv /\ [Next]_vars => IInv'
<1> SUFFICES ASSUME IInv, [Next]_vars PROVE IInv'
  OBVIOUS
<1>1. CASE UNCHANGED vars
  <2>1. TypeOK' /\ DiskConsistent' /\ ViewIsTip' /\ Replayable'
    BY <1>1 DEF IInv, vars, TypeOK, DiskConsistent, ViewIsTip, Replayable
  <2>2. ReplayOK' /\ TargetOK' /\ DirtyOK' /\ IndexOK'
    BY <1>1 DEF IInv, vars, ReplayOK, TargetOK, DirtyOK, IndexOK
  <2> QED BY <2>1, <2>2 DEF IInv
<1>2. CASE Load
  BY <1>2, LoadIInv
<1>3. CASE Rollback \/ Rollforward
  BY <1>3, ReplayIInv
<1>4. CASE \/ StartEmpty \/ DisconnectTip \/ PeriodicWrite
           \/ \E b \in Block : Receive(b) \/ ConnectTip(b)
  BY <1>4, RunIInv
<1>5. CASE \E d \in SUBSET Outpoint : FlushStateToDisk(d)
  BY <1>5, FlushIInv
<1>6. CASE \E s \in SUBSET dirty : WritePartial(s)
  BY <1>6, WritePartialIInv
<1>7. CASE WriteFinal
  BY <1>7, WriteFinalIInv
<1>8. CASE Crash
  BY <1>8, CrashIInv
<1> QED BY <1>1, <1>2, <1>3, <1>4, <1>5, <1>6, <1>7, <1>8 DEF Next

(* IInv holds in every reachable state.                                     *)
THEOREM Inductive == Safety => []IInv
  BY InitIInv, NextIInv, PTL DEF Safety

(* What a crash leaves on disk is the set of one block, or a mixture of the *)
(* two sets that DB_HEAD_BLOCKS names.                                      *)
THEOREM DiskCorrect == Safety => []DiskConsistent
<1>1. IInv => DiskConsistent
  BY DEF IInv
<1> QED BY <1>1, Inductive, PTL

(* ReplayBlocks repairs every such mixture: a node that runs works with the *)
(* coins of its tip.                                                        *)
THEOREM RecoveryCorrect == Safety => []ViewIsTip
<1>1. IInv => ViewIsTip
  BY DEF IInv
<1> QED BY <1>1, Inductive, PTL

(* The blocks and undo data that a replay needs are on disk.                *)
THEOREM ReplayPossible == Safety => []Replayable
<1>1. IInv => Replayable
  BY DEF IInv
<1> QED BY <1>1, Inductive, PTL

(* The assertion of DBBatchWrite holds.                                     *)
THEOREM TargetCorrect == Safety => []SameTarget
<1>1. IInv => SameTarget
  BY DEF IInv, TargetOK, SameTarget
<1> QED BY <1>1, Inductive, PTL
=============================================================================
