----------------------- MODULE EventedCounter_proofs -----------------------
(***************************************************************************)
(* Proofs about EventedCounter, for every set of threads, every width of   *)
(* size_t and every number of spurious wake-ups.                           *)
(***************************************************************************)
EXTENDS EventedCounter, TLAPS

\* The threads at the steps between a lock and its unlock own the mutex.
MutexInv == \A t \in Threads : step[t] \in Holding <=> value_wait_mutex_ = t

\* The condition variable holds the threads whose step says they sleep.
CondInv == value_wait_cond_ = {t \in Threads : step[t] = "asleep"}

\* A waiter on its way to sleep still has a reason to: nobody has changed
\* the counter since it tested the predicate.
BlockInv == \A t \in Threads : step[t] = "block" => value_ # target_value[t]

\* exit_ is set from the first exit() on, and a waiter that is about to
\* sleep after an exit() has returned is one that raced with it.
ExitInv ==
  /\ \A t \in Threads : step[t] = "exit" => exit_
  /\ exited => /\ exit_
               /\ \A t \in Threads : step[t] \in {"block", "asleep"} => t \in raced

\* The inductive invariant.
IInv ==
  /\ TypeOK
  /\ MutexInv
  /\ CondInv
  /\ BlockInv
  /\ NoLostNotification
  /\ WaitReturnsOnTarget
  /\ ExitInv

-----------------------------------------------------------------------------
\* The state the constructor leaves satisfies the invariant.
LEMMA InitIInv == Init => IInv
<1> SUFFICES ASSUME Init PROVE IInv
  OBVIOUS
<1>1. TypeOK
  <2>1. 0 \in Size /\ 0 \in 0..MaxSpurious
    BY SizeMaxAssumption, MaxSpuriousAssumption DEF Size
  <2>2. exit_ \in BOOLEAN /\ exited \in BOOLEAN
    BY Zenon DEF Init
  <2>3. step \in [Threads -> StepNames] /\ target_value \in [Threads -> Size]
    BY <2>1 DEF Init, StepNames
  <2> QED
    BY <2>1, <2>2, <2>3, Zenon DEF Init, TypeOK
<1>2. MutexInv
  BY NoThreadAssumption DEF Init, MutexInv, Holding
<1>3. CondInv /\ BlockInv /\ NoLostNotification
  BY DEF Init, CondInv, BlockInv, NoLostNotification
<1>4. WaitReturnsOnTarget /\ ExitInv
  BY DEF Init, WaitReturnsOnTarget, ExitInv
<1> QED
  BY <1>1, <1>2, <1>3, <1>4 DEF IInv

\* size_t arithmetic stays in size_t.
LEMMA SizeClosed == \A v \in Size : Succ(v) \in Size /\ Pred(v) \in Size
  BY SizeMaxAssumption DEF Size, Succ, Pred

\* Taking the mutex: inc, dec and wait_value start, and a woken waiter goes
\* back to its test.
LEMMA LockPreservesIInv ==
  ASSUME IInv, NEW t \in Threads,
         \/ Inc(t)
         \/ Dec(t)
         \/ \E v \in Size : WaitValue(t, v)
         \/ Reacquire(t)
  PROVE  IInv'
<1> USE NoThreadAssumption DEF IInv, TypeOK, MutexInv, CondInv, BlockInv,
        NoLostNotification, WaitReturnsOnTarget, ExitInv, StepNames, Holding,
        Lock, GoTo
<1>1. CASE Inc(t)
  BY <1>1 DEF Inc
<1>2. CASE Dec(t)
  BY <1>2 DEF Dec
<1>3. CASE \E v \in Size : WaitValue(t, v)
  BY <1>3 DEF WaitValue
<1>4. CASE Reacquire(t)
  BY <1>4 DEF Reacquire
<1> QED
  BY <1>1, <1>2, <1>3, <1>4

\* Changing the counter: the thread that does it owns the mutex, so no
\* waiter is between its test and its sleep, and it notifies next.
LEMMA ChangePreservesIInv ==
  ASSUME IInv, NEW t \in Threads, FetchAdd(t) \/ FetchSub(t)
  PROVE  IInv'
<1> USE NoThreadAssumption DEF IInv, TypeOK, MutexInv, CondInv, BlockInv,
        NoLostNotification, WaitReturnsOnTarget, ExitInv, StepNames, Holding, GoTo
<1>1. CASE FetchAdd(t)
  BY <1>1, SizeClosed DEF FetchAdd
<1>2. CASE FetchSub(t)
  BY <1>2, SizeClosed DEF FetchSub
<1> QED
  BY <1>1, <1>2

\* Waking every sleeper, from inc() and dec() or from exit().
LEMMA NotifyPreservesIInv ==
  ASSUME IInv, NEW t \in Threads, NotifyAll(t) \/ ExitNotify(t)
  PROVE  IInv'
<1> USE NoThreadAssumption DEF IInv, TypeOK, MutexInv, CondInv, BlockInv,
        NoLostNotification, WaitReturnsOnTarget, ExitInv, StepNames, Holding,
        WakeAllAndGoTo
<1>1. CASE NotifyAll(t)
  BY <1>1 DEF NotifyAll
<1>2. CASE ExitNotify(t)
  BY <1>2 DEF ExitNotify
<1> QED
  BY <1>1, <1>2

\* The rest of wait_value, the unlock and the store of exit_.
LEMMA WaitPreservesIInv ==
  ASSUME IInv, NEW t \in Threads,
         Check(t) \/ Block(t) \/ SpuriousWake(t) \/ Unlock(t) \/ Exit(t)
  PROVE  IInv'
<1> USE NoThreadAssumption DEF IInv, TypeOK, MutexInv, CondInv, BlockInv,
        NoLostNotification, WaitReturnsOnTarget, ExitInv, StepNames, Holding, GoTo
<1>1. CASE Check(t)
  BY <1>1 DEF Check
<1>2. CASE Block(t)
  BY <1>2 DEF Block
<1>3. CASE SpuriousWake(t)
  BY <1>3, MaxSpuriousAssumption DEF SpuriousWake
<1>4. CASE Unlock(t)
  BY <1>4 DEF Unlock
<1>5. CASE Exit(t)
  BY <1>5 DEF Exit
<1> QED
  BY <1>1, <1>2, <1>3, <1>4, <1>5

\* Every step of the counter preserves the inductive invariant.
LEMMA NextIInv == IInv /\ [Next]_vars => IInv'
<1> SUFFICES ASSUME IInv, [Next]_vars PROVE IInv'
  OBVIOUS
<1>1. CASE UNCHANGED vars
  BY <1>1 DEF vars, IInv, TypeOK, MutexInv, CondInv, BlockInv,
     NoLostNotification, WaitReturnsOnTarget, ExitInv
<1>2. ASSUME NEW t \in Threads, Call(t) PROVE IInv'
  BY <1>2, LockPreservesIInv, WaitPreservesIInv DEF Call
<1>3. ASSUME NEW t \in Threads, Resume(t) \/ SpuriousWake(t) PROVE IInv'
  BY <1>3, LockPreservesIInv, ChangePreservesIInv, NotifyPreservesIInv,
     WaitPreservesIInv DEF Resume
<1> QED
  BY <1>1, <1>2, <1>3 DEF Next

LEMMA Invariance == Spec => []IInv
  BY InitIInv, NextIInv, PTL DEF Spec

-----------------------------------------------------------------------------
\* Type correctness.
THEOREM TypeCorrect == Spec => []TypeOK
<1>1. IInv => TypeOK
  BY DEF IInv
<1> QED
  BY <1>1, Invariance, PTL

\* inc() and dec() never lose a wake-up.
THEOREM NotificationsReachWaiters == Spec => []NoLostNotification
<1>1. IInv => NoLostNotification
  BY DEF IInv
<1> QED
  BY <1>1, Invariance, PTL

\* wait_value returns for a reason.
THEOREM WaitReturnsForAReason == Spec => []WaitReturnsOnTarget
<1>1. IInv => WaitReturnsOnTarget
  BY DEF IInv
<1> QED
  BY <1>1, Invariance, PTL

\* exit() can miss no waiter but those that race with it.
THEOREM ExitMissesOnlyRacingWaiters == Spec => []ExitMissesOnlyRacers
<1>1. IInv => ExitMissesOnlyRacers
  BY DEF IInv, CondInv, ExitInv, ExitMissesOnlyRacers
<1> QED
  BY <1>1, Invariance, PTL

\* value_wait_mutex_ excludes: two threads are never both between a lock and
\* its unlock.
MutualExclusion ==
  \A t, u \in Threads :
    step[t] \in Holding /\ step[u] \in Holding => t = u

THEOREM CounterMutualExclusion == Spec => []MutualExclusion
<1>1. IInv => MutualExclusion
  BY DEF IInv, MutexInv, MutualExclusion
<1> QED
  BY <1>1, Invariance, PTL
=============================================================================
