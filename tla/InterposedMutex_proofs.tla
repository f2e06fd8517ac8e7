----------------------- MODULE InterposedMutex_proofs -----------------------
(***************************************************************************)
(* Proofs about InterposedMutex, for every set of threads and mutexes and  *)
(* every depth of nesting, number of calls and number of failures.         *)
(***************************************************************************)
EXTENDS InterposedMutex, TLAPS

Locking == {"lock_check", "lock_lookup", "lock_original"}
Unlocking == {"unlock_check", "unlock_erase", "unlock_original"}

\* A lock that is going on is within the bound on nesting.
DepthInv == \A t \in Threads : pc[t] \in Locking => depth[t][mutex[t]] < MaxDepth

\* Surplus unlocks aside, who holds a mutex owns the original.
OwnInv ==
  \A m \in Mutexes \ surplus :
    \A t \in Threads : m \in holds[t] => owner[m] = t

\* A thread that unlocks a mutex has ceased to hold it and, unless the unlock
\* is a surplus one, still owns the original.
UnlockInv ==
  \A t \in Threads :
    pc[t] \in Unlocking =>
      /\ mutex[t] \notin holds[t]
      /\ mutex[t] \in surplus \/ owner[mutex[t]] = t

\* What a thread holds or waits for is in its set, unless the table could
\* not grow.
TrackedInv ==
  \A t \in Threads, m \in Mutexes :
    m \in holds[t] \/ (pc[t] = "lock_original" /\ m = mutex[t])
      => m \in check_state[t] \/ <<t, m>> \in untracked

\* What is in a thread's set it holds, is about to lock or is unlocking.
TableInv ==
  \A t \in Threads :
    \A m \in check_state[t] :
      \/ m \in holds[t]
      \/ m = mutex[t] /\ pc[t] \in {"lock_original", "unlock_check", "unlock_erase"}

\* The inductive invariant.
IInv ==
  /\ TypeOK
  /\ DepthInv
  /\ OwnInv
  /\ UnlockInv
  /\ TrackedInv
  /\ TableInv
  /\ NoSelfDeadlock

-----------------------------------------------------------------------------
\* Before any call nobody owns or holds anything.
LEMMA InitIInv == Init => IInv
<1> SUFFICES ASSUME Init PROVE IInv
  OBVIOUS
<1>1. TypeOK
  <2>1. 0 \in 0..MaxDepth /\ 0 \in 0..MaxCalls /\ 0 \in 0..MaxFailures
    BY BoundsAssumption
  <2> QED
    BY <2>1 DEF Init, TypeOK
<1>2. DepthInv /\ OwnInv /\ UnlockInv /\ TrackedInv /\ TableInv /\ NoSelfDeadlock
  BY DEF Init, DepthInv, OwnInv, UnlockInv, TrackedInv, TableInv,
     NoSelfDeadlock, Locking, Unlocking
<1> QED
  BY <1>1, <1>2 DEF IInv

\* pthread_mutex_lock
LEMMA LockPreservesIInv ==
  ASSUME IInv, NEW t \in Threads,
         \/ \E m \in Mutexes : LockCall(t, m)
         \/ LockTakesTable(t)
         \/ SkipRecursive(t)
         \/ Insert(t)
         \/ InsertFails(t)
         \/ LockOriginal(t)
  PROVE  IInv'
<1> USE NobodyAssumption, BoundsAssumption DEF IInv, TypeOK, DepthInv, OwnInv,
        UnlockInv, TrackedInv, TableInv, NoSelfDeadlock, Locking, Unlocking,
        GoTo, table, client, history, bounds
<1>1. ASSUME NEW m \in Mutexes, LockCall(t, m) PROVE IInv'
  BY <1>1 DEF LockCall, Call
<1>2. CASE LockTakesTable(t)
  BY <1>2 DEF LockTakesTable, TakeTable
<1>3. CASE SkipRecursive(t)
  BY <1>3 DEF SkipRecursive
<1>4. CASE Insert(t)
  BY <1>4 DEF Insert
<1>5. CASE InsertFails(t)
  BY <1>5 DEF InsertFails
<1>6. CASE LockOriginal(t)
  <2>1. TypeOK'
    BY <1>6 DEF LockOriginal
  <2>2. DepthInv' /\ TrackedInv' /\ TableInv' /\ NoSelfDeadlock'
    BY <1>6 DEF LockOriginal
  <2>3. OwnInv' /\ UnlockInv'
    BY <1>6 DEF LockOriginal
  <2> QED
    BY <2>1, <2>2, <2>3
<1> HIDE DEF IInv
<1> QED
  BY <1>1, <1>2, <1>3, <1>4, <1>5, <1>6

\* pthread_mutex_unlock
LEMMA UnlockPreservesIInv ==
  ASSUME IInv, NEW t \in Threads,
         \/ \E m \in Mutexes : UnlockCall(t, m)
         \/ UnlockTakesTable(t)
         \/ Erase(t)
         \/ UnlockOriginal(t)
  PROVE  IInv'
<1> USE NobodyAssumption, BoundsAssumption DEF IInv, TypeOK, DepthInv, OwnInv,
        UnlockInv, TrackedInv, TableInv, NoSelfDeadlock, Locking, Unlocking,
        GoTo, table, client, history, bounds
<1>1. ASSUME NEW m \in Mutexes, UnlockCall(t, m) PROVE IInv'
  BY <1>1 DEF UnlockCall, Call
<1>2. CASE UnlockTakesTable(t)
  BY <1>2 DEF UnlockTakesTable, TakeTable
<1>3. CASE Erase(t)
  BY <1>3 DEF Erase
<1>4. CASE UnlockOriginal(t)
  BY <1>4 DEF UnlockOriginal
<1> HIDE DEF IInv
<1> QED
  BY <1>1, <1>2, <1>3, <1>4

LEMMA NextIInv == IInv /\ [Next]_vars => IInv'
<1> SUFFICES ASSUME IInv, [Next]_vars PROVE IInv'
  OBVIOUS
<1>1. CASE UNCHANGED vars
  BY <1>1 DEF vars, table, client, history, bounds, IInv, TypeOK, DepthInv,
     OwnInv, UnlockInv, TrackedInv, TableInv, NoSelfDeadlock
<1>2. CASE Next
  BY <1>2, LockPreservesIInv, UnlockPreservesIInv DEF Next, Resume
<1> QED
  BY <1>1, <1>2

LEMMA Invariance == Spec => []IInv
  BY InitIInv, NextIInv, PTL DEF Spec

-----------------------------------------------------------------------------
\* Type correctness.
THEOREM TypeCorrect == Spec => []TypeOK
<1>1. IInv => TypeOK
  BY DEF IInv
<1> QED
  BY <1>1, Invariance, PTL

\* The interposed functions still exclude, until a surplus unlock.
THEOREM InterposedExclusion == Spec => []HoldersExclude
<1>1. IInv => HoldersExclude
  BY DEF IInv, OwnInv, HoldersExclude
<1> QED
  BY <1>1, Invariance, PTL

\* Recursive locks are detected, unless the table could not grow.
THEOREM RecursionDetected == Spec => []NoSelfDeadlock
<1>1. IInv => NoSelfDeadlock
  BY DEF IInv
<1> QED
  BY <1>1, Invariance, PTL

\* No lock is skipped but a recursive one.
THEOREM OnlyRecursionSkipped == Spec => []SkipsOnlyWhatItHolds
<1>1. IInv => SkipsOnlyWhatItHolds
  BY DEF IInv, TableInv, SkipsOnlyWhatItHolds
<1> QED
  BY <1>1, Invariance, PTL
=============================================================================
