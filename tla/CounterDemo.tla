----------------------------- MODULE CounterDemo -----------------------------
(***************************************************************************)
(* run_evented_counter of producer_consumer: a writer moves an             *)
(* evented_counter_t up and down between 0 and Target, readers wait for    *)
(* Target and 0 in turn, and main joins the writer, sets finish, calls     *)
(* exit() and joins the readers.                                           *)
(*                                                                         *)
(* The counter is the instance evcnt of EventedCounter: every action below *)
(* that is not a step of it leaves its variables unchanged.  The logging   *)
(* under log_mutex is left out: no thread takes another lock while it      *)
(* holds it, and get() changes nothing.                                    *)
(***************************************************************************)
EXTENDS Naturals

CONSTANTS
  Readers, Writer, Main, NoThread,
  Target,       \* 10 in the code
  Steps,        \* the writer's steps_count limit, 100 in the code
  SizeMax,
  MaxSpurious

ASSUME DemoAssumption ==
  /\ Writer \notin Readers \cup {Main}
  /\ Main \notin Readers
  /\ NoThread \notin Readers \cup {Writer, Main}
  /\ SizeMax \in Nat /\ Target \in 1..SizeMax
  /\ Steps \in Nat

VARIABLES
  value_, exit_, value_wait_mutex_, value_wait_cond_, step, target_value,
  spurious, exited, raced,
  pc,            \* pc[t]: where thread t stands in its function
  finish,        \* the global flag
  next_target,   \* the readers' local target_value
  steps_count,   \* the writer's locals
  up

Threads == Readers \cup {Writer, Main}

evcnt == INSTANCE EventedCounter

counter == <<value_, exit_, value_wait_mutex_, value_wait_cond_, step,
             target_value, spurious, exited, raced>>
locals == <<pc, finish, next_target, steps_count, up>>
vars == <<counter, locals>>

Init ==
  /\ evcnt!Init
  /\ pc = [t \in Threads |-> IF t = Main THEN "join_writer" ELSE "while"]
  /\ finish = FALSE
  /\ next_target = [r \in Readers |-> Target]
  /\ steps_count = 0
  /\ up = TRUE

At(t, label) == pc[t] = label /\ step[t] = "out"
GoTo(t, label) == pc' = [pc EXCEPT ![t] = label]

-----------------------------------------------------------------------------
(* reader_func_evented_counter                                             *)

ReaderEnters(r) ==
  /\ At(r, "while")
  /\ ~finish
  /\ GoTo(r, "wait")
  /\ UNCHANGED <<counter, finish, next_target, steps_count, up>>

ReaderWaits(r) ==
  /\ At(r, "wait")
  /\ evcnt!WaitValue(r, next_target[r])
  /\ GoTo(r, "toggle")
  /\ UNCHANGED <<finish, next_target, steps_count, up>>

ReaderToggles(r) ==
  /\ At(r, "toggle")
  /\ next_target' = [next_target EXCEPT ![r] = IF @ = 0 THEN Target ELSE 0]
  /\ GoTo(r, "while")
  /\ UNCHANGED <<counter, finish, steps_count, up>>

ReaderLeaves(r) ==
  /\ At(r, "while")
  /\ finish
  /\ GoTo(r, "done")
  /\ UNCHANGED <<counter, finish, next_target, steps_count, up>>

-----------------------------------------------------------------------------
(* writer_func_evented_counter                                             *)

WriterChanges ==
  /\ At(Writer, "while")
  /\ steps_count < Steps
  /\ IF up THEN evcnt!Inc(Writer) ELSE evcnt!Dec(Writer)
  /\ GoTo(Writer, "turn")
  /\ UNCHANGED <<finish, next_target, steps_count, up>>

\* A mutant of Turned: the writer never turns at 0.
TurnOnlyAtTheTop(v) == IF v = Target THEN FALSE ELSE up

\* The direction after the counter reached v; only the writer changes the
\* counter, so that its two get() calls return the same value.
Turned(v) == IF v = Target THEN FALSE ELSE IF v = 0 THEN TRUE ELSE up

WriterTurns ==
  /\ At(Writer, "turn")
  /\ up' = Turned(value_)
  /\ steps_count' = steps_count + 1
  /\ GoTo(Writer, "while")
  /\ UNCHANGED <<counter, finish, next_target>>

WriterLeaves ==
  /\ At(Writer, "while")
  /\ steps_count = Steps
  /\ GoTo(Writer, "done")
  /\ UNCHANGED <<counter, finish, next_target, steps_count, up>>

-----------------------------------------------------------------------------
(* run_evented_counter, once the threads run                               *)

\* A mutant of MainFinishes: finish is never stored.
MainForgetsFinish ==
  /\ At(Main, "join_writer")
  /\ pc[Writer] = "done"
  /\ GoTo(Main, "exit")
  /\ UNCHANGED <<counter, finish, next_target, steps_count, up>>

\* writer_thread.join() returns and finish is set.
MainFinishes ==
  /\ At(Main, "join_writer")
  /\ pc[Writer] = "done"
  /\ finish' = TRUE
  /\ GoTo(Main, "exit")
  /\ UNCHANGED <<counter, next_target, steps_count, up>>

MainCallsExit ==
  /\ At(Main, "exit")
  /\ evcnt!Exit(Main)
  /\ GoTo(Main, "join_readers")
  /\ UNCHANGED <<finish, next_target, steps_count, up>>

MainJoinsReaders ==
  /\ At(Main, "join_readers")
  /\ \A r \in Readers : pc[r] = "done"
  /\ GoTo(Main, "done")
  /\ UNCHANGED <<counter, finish, next_target, steps_count, up>>

-----------------------------------------------------------------------------
Reader(r) ==
  ReaderEnters(r) \/ ReaderWaits(r) \/ ReaderToggles(r) \/ ReaderLeaves(r)
WriterStep == WriterChanges \/ WriterTurns \/ WriterLeaves
MainStep == MainFinishes \/ MainCallsExit \/ MainJoinsReaders

\* A step inside a call on the counter.
InCounter(t) == evcnt!Resume(t) /\ UNCHANGED locals
Wakes(t) == evcnt!SpuriousWake(t) /\ UNCHANGED locals

Next ==
  \/ \E r \in Readers : Reader(r)
  \/ WriterStep
  \/ MainStep
  \/ \E t \in Threads : InCounter(t) \/ Wakes(t)

\* Each thread runs as long as it can; sleep_for and join end.
Fairness ==
  /\ \A r \in Readers : WF_vars(Reader(r))
  /\ WF_vars(WriterStep)
  /\ WF_vars(MainStep)
  /\ \A t \in Threads : WF_vars(InCounter(t))

Spec == Init /\ [][Next]_vars /\ Fairness

-----------------------------------------------------------------------------
TypeOK ==
  /\ evcnt!TypeOK
  /\ pc \in [Threads -> {"while", "wait", "toggle", "turn", "join_writer", "exit",
                         "join_readers", "done"}]
  /\ finish \in BOOLEAN
  /\ next_target \in [Readers -> {0, Target}]
  /\ steps_count \in 0..Steps
  /\ up \in BOOLEAN

\* The writer keeps the counter between 0 and 10: it turns in time at both
\* ends, and the size_t never wraps below 0.
CounterInRange == value_ \in 0..Target

\* The writer makes all its steps, whatever the readers do with the mutex.
WriterFinishes == <>(pc[Writer] = "done")

\* The readers end, and main with them, unless one of them was between its
\* test and its sleep when exit() notified.
ReadersLeaveUnlessRaced ==
  <>[](\A r \in Readers : pc[r] = "done" \/ r \in raced)

\* What the comment on exit() promises: "This function wakes all threads".
\* Nobody sleeps in the counter once main's exit() has returned.
ExitWakesAllThreads == At(Main, "join_readers") => value_wait_cond_ = {}
=============================================================================
