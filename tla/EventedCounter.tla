--------------------------- MODULE EventedCounter ---------------------------
(***************************************************************************)
(* evented_counter_t of producer_consumer: an atomic counter whose         *)
(* wait_value blocks until the counter holds a given value or exit() was   *)
(* called.  Any thread may call any operation at any time; the modules     *)
(* CounterDemo and EventedBuffer use the same actions through INSTANCE.    *)
(*                                                                         *)
(* std::mutex and std::condition_variable are external: the mutex is its   *)
(* owner, the condition variable is the set of threads asleep in it, and   *)
(* wait() releases the mutex and goes to sleep in one step, may wake       *)
(* spuriously, and takes the mutex again before it returns.                *)
(***************************************************************************)
EXTENDS Naturals

CONSTANTS
  Threads,      \* the threads that share the counter
  NoThread,     \* the owner of a free mutex
  SizeMax,      \* the largest value of size_t
  MaxSpurious   \* bound: spurious wake-ups in one behaviour

ASSUME NoThreadAssumption == NoThread \notin Threads
ASSUME SizeMaxAssumption == SizeMax \in Nat \ {0}
ASSUME MaxSpuriousAssumption == MaxSpurious \in Nat

VARIABLES
  value_,             \* the counter
  exit_,              \* the exit flag, an atomic the mutex does not protect
  value_wait_mutex_,  \* the owner of the mutex, or NoThread
  value_wait_cond_,   \* the threads asleep in the condition variable
  step,               \* step[t]: the next step of the call thread t is in
  target_value,       \* target_value[t]: the argument of t's last wait_value
  spurious,           \* spurious wake-ups so far
  exited,             \* history: some exit() has returned
  raced               \* history: waiters an exit() found between their last
                      \* test of the predicate and their sleep

vars == <<value_, exit_, value_wait_mutex_, value_wait_cond_, step,
          target_value, spurious, exited, raced>>

Size == 0..SizeMax

StepNames == {"out", "inc", "dec", "notify", "unlock", "check", "block",
          "asleep", "awake", "return", "exit"}

\* The steps a thread takes while it owns value_wait_mutex_.
Holding == {"inc", "dec", "notify", "unlock", "check", "block", "return"}

Init ==
  /\ value_ = 0
  /\ exit_ = FALSE
  /\ value_wait_mutex_ = NoThread
  /\ value_wait_cond_ = {}
  /\ step = [t \in Threads |-> "out"]
  /\ target_value = [t \in Threads |-> 0]
  /\ spurious = 0
  /\ exited = FALSE
  /\ raced = {}

-----------------------------------------------------------------------------
(* The mutex and the condition variable.                                   *)

Lock(t) ==
  /\ value_wait_mutex_ = NoThread
  /\ value_wait_mutex_' = t

GoTo(t, s) == step' = [step EXCEPT ![t] = s]

\* Every sleeping thread wakes, and the caller goes on to step s.
WakeAllAndGoTo(t, s) ==
  /\ value_wait_cond_' = {}
  /\ step' = [u \in Threads |-> IF u \in value_wait_cond_ THEN "awake"
                                ELSE IF u = t THEN s ELSE step[u]]

\* size_t arithmetic wraps around.
Succ(v) == IF v = SizeMax THEN 0 ELSE v + 1
\* A mutant of Pred: no wrapping.
PredSigned(v) == v - 1
Pred(v) == IF v = 0 THEN SizeMax ELSE v - 1

-----------------------------------------------------------------------------
(* inc() and dec(): lock, change the counter, notify, unlock.              *)

Inc(t) ==
  /\ step[t] = "out"
  /\ Lock(t)
  /\ GoTo(t, "inc")
  /\ UNCHANGED <<value_, exit_, value_wait_cond_, target_value, spurious,
                 exited, raced>>

Dec(t) ==
  /\ step[t] = "out"
  /\ Lock(t)
  /\ GoTo(t, "dec")
  /\ UNCHANGED <<value_, exit_, value_wait_cond_, target_value, spurious,
                 exited, raced>>

FetchAdd(t) ==
  /\ step[t] = "inc"
  /\ value_' = Succ(value_)
  /\ GoTo(t, "notify")
  /\ UNCHANGED <<exit_, value_wait_mutex_, value_wait_cond_, target_value,
                 spurious, exited, raced>>

\* A mutant of FetchSub: dec() forgets to notify.
FetchSubSilent(t) ==
  /\ step[t] = "dec"
  /\ value_' = Pred(value_)
  /\ GoTo(t, "unlock")
  /\ UNCHANGED <<exit_, value_wait_mutex_, value_wait_cond_, target_value,
                 spurious, exited, raced>>

FetchSub(t) ==
  /\ step[t] = "dec"
  /\ value_' = Pred(value_)
  /\ GoTo(t, "notify")
  /\ UNCHANGED <<exit_, value_wait_mutex_, value_wait_cond_, target_value,
                 spurious, exited, raced>>

\* A mutant of NotifyAll: notify_one, which wakes one thread if any sleeps.
NotifyOne(t) ==
  /\ step[t] = "notify"
  /\ \/ /\ value_wait_cond_ = {}
        /\ GoTo(t, "unlock")
        /\ UNCHANGED value_wait_cond_
     \/ \E u \in value_wait_cond_ :
          /\ value_wait_cond_' = value_wait_cond_ \ {u}
          /\ step' = [step EXCEPT ![u] = "awake", ![t] = "unlock"]
  /\ UNCHANGED <<value_, exit_, value_wait_mutex_, target_value, spurious,
                 exited, raced>>

NotifyAll(t) ==
  /\ step[t] = "notify"
  /\ WakeAllAndGoTo(t, "unlock")
  /\ UNCHANGED <<value_, exit_, value_wait_mutex_, target_value, spurious,
                 exited, raced>>

\* The unique_lock's destructor, at the end of inc, dec and wait_value.
Unlock(t) ==
  /\ step[t] \in {"unlock", "return"}
  /\ value_wait_mutex_' = NoThread
  /\ GoTo(t, "out")
  /\ UNCHANGED <<value_, exit_, value_wait_cond_, target_value, spurious,
                 exited, raced>>

-----------------------------------------------------------------------------
(* wait_value(v): while neither value_ = v nor exit_, sleep.               *)

WaitValue(t, v) ==
  /\ step[t] = "out"
  /\ Lock(t)
  /\ target_value' = [target_value EXCEPT ![t] = v]
  /\ GoTo(t, "check")
  /\ UNCHANGED <<value_, exit_, value_wait_cond_, spurious, exited, raced>>

\* The predicate.  value_ cannot change while t owns the mutex, so its load
\* and the load of exit_ count as one step.
Check(t) ==
  /\ step[t] = "check"
  /\ GoTo(t, IF value_ = target_value[t] \/ exit_ THEN "return" ELSE "block")
  /\ UNCHANGED <<value_, exit_, value_wait_mutex_, value_wait_cond_,
                 target_value, spurious, exited, raced>>

\* A mutant of Block: the waiter sleeps with the mutex locked.
BlockHoldingMutex(t) ==
  /\ step[t] = "block"
  /\ value_wait_cond_' = value_wait_cond_ \cup {t}
  /\ GoTo(t, "asleep")
  /\ UNCHANGED <<value_, exit_, value_wait_mutex_, target_value, spurious,
                 exited, raced>>

\* The predicate was false: release the mutex and sleep, in one step.
Block(t) ==
  /\ step[t] = "block"
  /\ value_wait_mutex_' = NoThread
  /\ value_wait_cond_' = value_wait_cond_ \cup {t}
  /\ GoTo(t, "asleep")
  /\ UNCHANGED <<value_, exit_, target_value, spurious, exited, raced>>

SpuriousWake(t) ==
  /\ step[t] = "asleep"
  /\ spurious < MaxSpurious
  /\ spurious' = spurious + 1
  /\ value_wait_cond_' = value_wait_cond_ \ {t}
  /\ GoTo(t, "awake")
  /\ UNCHANGED <<value_, exit_, value_wait_mutex_, target_value, exited, raced>>

\* A mutant of Reacquire: an if in the place of the while around the wait.
ReacquireNoRecheck(t) ==
  /\ step[t] = "awake"
  /\ Lock(t)
  /\ GoTo(t, "return")
  /\ UNCHANGED <<value_, exit_, value_wait_cond_, target_value, spurious,
                 exited, raced>>

Reacquire(t) ==
  /\ step[t] = "awake"
  /\ Lock(t)
  /\ GoTo(t, "check")
  /\ UNCHANGED <<value_, exit_, value_wait_cond_, target_value, spurious,
                 exited, raced>>

-----------------------------------------------------------------------------
(* exit(): store the flag and notify, without the mutex.                   *)

Exit(t) ==
  /\ step[t] = "out"
  /\ exit_' = TRUE
  /\ GoTo(t, "exit")
  /\ UNCHANGED <<value_, value_wait_mutex_, value_wait_cond_, target_value,
                 spurious, exited, raced>>

\* A mutant of ExitNotify: exit() forgets to notify.
ExitSilent(t) ==
  /\ step[t] = "exit"
  /\ GoTo(t, "out")
  /\ exited' = TRUE
  /\ raced' = raced \cup {u \in Threads : step[u] = "block"}
  /\ UNCHANGED <<value_, exit_, value_wait_mutex_, value_wait_cond_,
                 target_value, spurious>>

ExitNotify(t) ==
  /\ step[t] = "exit"
  /\ WakeAllAndGoTo(t, "out")
  /\ exited' = TRUE
  /\ raced' = raced \cup {u \in Threads : step[u] = "block"}
  /\ UNCHANGED <<value_, exit_, value_wait_mutex_, target_value, spurious>>

-----------------------------------------------------------------------------
\* A thread that is outside calls an operation.
Call(t) ==
  \/ Inc(t)
  \/ Dec(t)
  \/ Exit(t)
  \/ \E v \in Size : WaitValue(t, v)

\* The steps of a thread that is inside a call.
Resume(t) ==
  \/ FetchAdd(t)
  \/ FetchSub(t)
  \/ NotifyAll(t)
  \/ Unlock(t)
  \/ Check(t)
  \/ Block(t)
  \/ Reacquire(t)
  \/ ExitNotify(t)

Next == \E t \in Threads : Call(t) \/ Resume(t) \/ SpuriousWake(t)

\* A thread that can go on with its call does: the threads are preemptively
\* scheduled.  Nothing makes a thread call, and nothing wakes one spuriously.
Fairness == \A t \in Threads : WF_vars(Resume(t))

Spec == Init /\ [][Next]_vars /\ Fairness

-----------------------------------------------------------------------------
TypeOK ==
  /\ value_ \in Size
  /\ exit_ \in BOOLEAN
  /\ value_wait_mutex_ \in Threads \cup {NoThread}
  /\ value_wait_cond_ \subseteq Threads
  /\ step \in [Threads -> StepNames]
  /\ target_value \in [Threads -> Size]
  /\ spurious \in 0..MaxSpurious
  /\ exited \in BOOLEAN
  /\ raced \subseteq Threads

\* No wake-up of inc() or dec() is lost: while a thread sleeps although the
\* counter holds its target, the thread that changed the counter has yet to
\* call notify_all.
NoLostNotification ==
  \A t \in value_wait_cond_ :
    value_ = target_value[t] => \E u \in Threads : step[u] = "notify"

\* wait_value returns only while the counter holds its target, or after
\* exit(): the counter does not move between the test and the unlock.
WaitReturnsOnTarget ==
  \A t \in Threads :
    step[t] = "return" => value_ = target_value[t] \/ exit_

\* exit() stores exit_ without the mutex, so its notify_all can fall between
\* a waiter's test of the predicate and its sleep.  Those waiters are the
\* only ones that can still sleep once exit() has returned.
ExitMissesOnlyRacers == exited => value_wait_cond_ \subseteq raced

\* A thread that sleeps while the counter holds its target wakes up.
TargetWakes ==
  \A t \in Threads :
    (t \in value_wait_cond_ /\ value_ = target_value[t])
      ~> t \notin value_wait_cond_
=============================================================================
