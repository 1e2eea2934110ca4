------------------------------ MODULE WPUSMutex ------------------------------
(***************************************************************************)
(* The write-preferring upgradable shared mutex that guards the coins      *)
(* database (src/src/write_preferring_upgradable_mutex.{h,cpp}).           *)
(*                                                                         *)
(* Each thread owns one Lock handle.  Everything that the code does under  *)
(* mMutex is one atomic step; the only access outside it is the read of    *)
(* the atomic mWritePending at the entry of TryWriteLock, which is a step  *)
(* of its own.  A thread that blocks on the condition variable             *)
(* mTryTakeLock is in `asleep' until a notify_all (or a spurious wake-up)  *)
(* lets it evaluate its predicate again.                                   *)
(***************************************************************************)
EXTENDS Integers, FiniteSets

CONSTANT Threads      \* the threads that use the mutex

ASSUME ThreadsAssumption == IsFiniteSet(Threads)

VARIABLES
  mLock,          \* -1: write lock held, n >= 0: n read locks held
  mWritePending,  \* write requests inside WriteLock and TryWriteLock
  handle,         \* Lock::Type of the handle of each thread
  pc,             \* the call each thread is executing
  asleep,         \* threads blocked in mTryTakeLock.wait
  stale           \* history: the data was written since the thread took its lock

mutexVars == <<mLock, mWritePending, handle, pc, asleep, stale>>

LockType == {"unlocked", "read", "write"}

(* "enter" is TryWriteLock between the unlocked test of mWritePending and   *)
(* the acquisition of mMutex; "read", "write" and "try" are the wait loops. *)
PC == {"idle", "read", "write", "enter", "try"}

MutexType ==
  /\ mLock \in Int
  /\ mWritePending \in Nat
  /\ handle \in [Threads -> LockType]
  /\ pc \in [Threads -> PC]
  /\ asleep \subseteq Threads
  /\ stale \subseteq Threads

MutexInit ==
  /\ mLock = 0
  /\ mWritePending = 0
  /\ handle = [t \in Threads |-> "unlocked"]
  /\ pc = [t \in Threads |-> "idle"]
  /\ asleep = {}
  /\ stale = {}

NotifyAll == asleep' = {}

Sleep(t, op) ==
  /\ asleep' = asleep \cup {t}
  /\ pc' = [pc EXCEPT ![t] = op]
  /\ UNCHANGED <<mLock, handle, stale>>

Return(t) == pc' = [pc EXCEPT ![t] = "idle"]

(* MakeReadLockHandle and AssignNL. *)
GrantRead(t) ==
  /\ mLock' = mLock + 1
  /\ handle' = [handle EXCEPT ![t] = "read"]
  /\ stale' = stale \ {t}
  /\ UNCHANGED asleep
  /\ Return(t)

(* MakeWriteLockHandle: whoever still works on what it read before is now   *)
(* working on old data.                                                     *)
GrantWrite(t) ==
  /\ mLock' = -1
  /\ handle' = [handle EXCEPT ![t] = "write"]
  /\ Return(t)

-----------------------------------------------------------------------------

(* A mutant of CanRead: a reader that overtakes pending writers.            *)
CanReadOvertaking == mLock >= 0
(* ReadLock on an unlocked handle: the predicate of mTryTakeLock.wait.      *)
CanRead == mWritePending = 0 /\ mLock >= 0

ReadStep(t) ==
  /\ \/ CanRead /\ GrantRead(t)
     \/ ~CanRead /\ Sleep(t, "read")
  /\ UNCHANGED mWritePending

ReadLock(t) ==
  /\ pc[t] = "idle" /\ handle[t] = "unlocked"
  /\ ReadStep(t)

ReadWake(t) ==
  /\ pc[t] = "read" /\ t \notin asleep
  /\ ReadStep(t)

(* ReadLock on a write handle: the write->read transition.  ReleaseNL and   *)
(* MakeReadLockHandle run under one hold of mMutex.                         *)
Downgrade(t) ==
  /\ pc[t] = "idle" /\ handle[t] = "write"
  /\ mLock' = 1
  /\ handle' = [handle EXCEPT ![t] = "read"]
  /\ NotifyAll
  /\ UNCHANGED <<mWritePending, pc, stale>>

-----------------------------------------------------------------------------

(* WriteLock.  The PendingGuard is destroyed before mMutex is released, so  *)
(* a request that is granted at once leaves mWritePending as it was.        *)
WriteLock(t) ==
  /\ pc[t] = "idle" /\ handle[t] = "unlocked"
  /\ \/ /\ mLock = 0
        /\ GrantWrite(t)
        /\ stale' = Threads \ {t}
        /\ UNCHANGED <<mWritePending, asleep>>
     \/ /\ mLock # 0
        /\ mWritePending' = mWritePending + 1
        /\ Sleep(t, "write")

WriteWake(t) ==
  /\ pc[t] = "write" /\ t \notin asleep
  /\ \/ /\ mLock = 0
        /\ GrantWrite(t)
        /\ stale' = Threads \ {t}
        /\ mWritePending' = mWritePending - 1
        /\ UNCHANGED asleep
     \/ /\ mLock # 0
        /\ Sleep(t, "write")
        /\ UNCHANGED mWritePending

-----------------------------------------------------------------------------

(* TryWriteLock up to mMutex.  When a write request is pending the call     *)
(* returns false at once and changes nothing.                               *)
TryWriteLock(t) ==
  /\ pc[t] = "idle" /\ handle[t] = "read"
  /\ mWritePending = 0
  /\ pc' = [pc EXCEPT ![t] = "enter"]
  /\ UNCHANGED <<mLock, mWritePending, handle, asleep, stale>>

(* A mutant of TryStep: an upgrade that does not wait for other readers.    *)
TryStepHasty(t, pending) ==
  /\ GrantWrite(t)
  /\ stale' = stale \cup (Threads \ {t})
  /\ NotifyAll
  /\ mWritePending' = pending - 1

(* canTakeWriteLock and what follows it, with `pending' the value of        *)
(* mWritePending inside the PendingGuard of this call.                      *)
TryStep(t, pending) ==
  \/ /\ pending # 1                      \* return false, read lock kept
     /\ Return(t)
     /\ mWritePending' = pending - 1
     /\ UNCHANGED <<mLock, handle, asleep, stale>>
  \/ /\ pending = 1
     /\ mLock = 1                        \* only our own read lock is left
     /\ GrantWrite(t)
     /\ stale' = stale \cup (Threads \ {t})
     /\ NotifyAll                        \* ReleaseNL of the read lock
     /\ mWritePending' = pending - 1
  \/ /\ pending = 1
     /\ mLock # 1
     /\ mWritePending' = pending
     /\ Sleep(t, "try")

TryEnter(t) == pc[t] = "enter" /\ TryStep(t, mWritePending + 1)

TryWake(t) == pc[t] = "try" /\ t \notin asleep /\ TryStep(t, mWritePending)

-----------------------------------------------------------------------------

(* Mutant of Release: ReleaseNL without notify_all.                         *)
ReleaseSilent(t) ==
  /\ pc[t] = "idle" /\ handle[t] # "unlocked"
  /\ mLock' = IF mLock = -1 THEN 0 ELSE mLock - 1
  /\ handle' = [handle EXCEPT ![t] = "unlocked"]
  /\ UNCHANGED <<mWritePending, pc, asleep, stale>>

(* Release, by Lock::Release, the destructor or the move assignment.        *)
Release(t) ==
  /\ pc[t] = "idle" /\ handle[t] # "unlocked"
  /\ mLock' = IF mLock = -1 THEN 0 ELSE mLock - 1
  /\ handle' = [handle EXCEPT ![t] = "unlocked"]
  /\ NotifyAll
  /\ UNCHANGED <<mWritePending, pc, stale>>

(* A condition variable may wake a thread without a notification.           *)
SpuriousWake(t) ==
  /\ t \in asleep
  /\ asleep' = asleep \ {t}
  /\ UNCHANGED <<mLock, mWritePending, handle, pc, stale>>

MutexNext ==
  \E t \in Threads :
    \/ ReadLock(t) \/ ReadWake(t) \/ Downgrade(t)
    \/ WriteLock(t) \/ WriteWake(t)
    \/ TryWriteLock(t) \/ TryEnter(t) \/ TryWake(t)
    \/ Release(t) \/ SpuriousWake(t)

(* Every thread that can run does run, and every holder of a lock           *)
(* eventually releases it, as the header demands of the callers.  Nothing   *)
(* makes the mutex fair: a waiting thread may lose every race.              *)
MutexFairness ==
  \A t \in Threads :
    /\ WF_mutexVars(ReadWake(t)) /\ WF_mutexVars(WriteWake(t))
    /\ WF_mutexVars(TryEnter(t)) /\ WF_mutexVars(TryWake(t))
    /\ WF_mutexVars(Release(t))

MutexSafety == MutexInit /\ [][MutexNext]_mutexVars

MutexSpec == MutexSafety /\ MutexFairness

-----------------------------------------------------------------------------

Readers == {t \in Threads : handle[t] = "read"}
Pending == {t \in Threads : pc[t] \in {"write", "try"}}

(* A write lock excludes every other lock: while one handle is of           *)
(* Type::write all the others are Type::unlocked.                           *)
Exclusion ==
  \A t, u \in Threads :
    t # u /\ handle[t] = "write" => handle[u] = "unlocked"

(* mLock and mWritePending count the handles and the requests there are.    *)
(* The asserts of MakeReadLockHandle, MakeWriteLockHandle and ReleaseNL     *)
(* cannot fail while this holds.                                            *)
CountsMatch ==
  /\ mLock = IF \E t \in Threads : handle[t] = "write"
             THEN -1 ELSE Cardinality(Readers)
  /\ mWritePending = Cardinality(Pending)

(* The optimistic reader: as long as a thread holds a lock, of either type  *)
(* and across an upgrade by TryWriteLock, nobody else has been given the    *)
(* write lock since it took its read lock, so what it computed is current.  *)
HolderIsCurrent ==
  \A t \in Threads : handle[t] # "unlocked" => t \notin stale

(* No lost wake-up: when a thread is blocked on mTryTakeLock there is a     *)
(* thread that is not blocked and that holds a lock (its release notifies)  *)
(* or is about to evaluate its own predicate.                               *)
NoLostWakeup ==
  asleep # {} =>
    \E u \in Threads \ asleep :
      handle[u] # "unlocked" \/ pc[u] \in {"read", "write", "try"}

(* A pending write request is eventually followed by a granted write lock,  *)
(* however many readers keep arriving (the mutex prefers writers).          *)
WriterProgress ==
  (\E t \in Threads : pc[t] = "write") ~> (\E t \in Threads : handle[t] = "write")

=============================================================================
