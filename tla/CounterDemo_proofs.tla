-------------------------- MODULE CounterDemo_proofs --------------------------
(***************************************************************************)
(* Proofs about the demo of evented_counter_t, for every number of         *)
(* readers, of steps and every Target that a size_t can hold.              *)
(***************************************************************************)
EXTENDS CounterDemo, TLAPS

\* Nobody but the writer moves the counter.
OnlyWriter == \A t \in Threads : step[t] \in {"inc", "dec"} => t = Writer

\* The writer, when it is not inside a call, has turned at the end it has reached.
TurnedInTime == pc[Writer] = "while" => IF up THEN value_ < Target ELSE value_ > 0

\* Inside its call it is yet to make a step that stays in the range.
RoomToMove ==
  /\ step[Writer] = "inc" => pc[Writer] = "turn" /\ up /\ value_ < Target
  /\ step[Writer] = "dec" => pc[Writer] = "turn" /\ ~up /\ value_ > 0

RangeInv ==
  /\ CounterInRange /\ up \in BOOLEAN
  /\ pc \in [Threads -> {"while", "wait", "toggle", "turn", "join_writer", "exit", "join_readers", "done"}]
  /\ step \in [Threads -> evcnt!StepNames]
  /\ OnlyWriter /\ TurnedInTime /\ RoomToMove

LEMMA InitRange == Init => RangeInv
BY DemoAssumption
   DEF Init, evcnt!Init, evcnt!StepNames, RangeInv, CounterInRange, OnlyWriter, TurnedInTime, RoomToMove, Threads

\* A thread's own step that does not touch the counter, nor the writer if it is another's.
Aside(t) ==
  /\ t \in Threads /\ UNCHANGED <<value_, up>>
  /\ \E l \in {"while", "wait", "toggle", "join_writer", "exit", "join_readers", "done"} :
       pc' = [pc EXCEPT ![t] = l] /\ (t = Writer => l = "done")
  /\ \A u \in Threads : step'[u] = step[u] \/ step'[u] \notin {"inc", "dec"}
  /\ step' \in [Threads -> evcnt!StepNames]
  /\ t = Writer => step[t] = "out" /\ step' = step

LEMMA AsideKeeps == ASSUME RangeInv, NEW t, Aside(t) PROVE RangeInv'
BY DemoAssumption DEF Aside, RangeInv, CounterInRange, OnlyWriter, TurnedInTime, RoomToMove, Threads

LEMMA ReaderKeeps == ASSUME RangeInv, NEW r \in Readers, Reader(r) PROVE RangeInv'
<1>1. r \in Threads /\ r # Writer
  BY DemoAssumption DEF Threads
<1>2. CASE ReaderWaits(r)
  <2>1. evcnt!WaitValue(r, next_target[r]) /\ GoTo(r, "toggle") /\ up' = up
    BY <1>2 DEF ReaderWaits
  <2>2. value_' = value_ /\ step' = [step EXCEPT ![r] = "check"]
    BY <2>1 DEF evcnt!WaitValue, evcnt!GoTo
  <2>3. Aside(r)
    BY <1>1, <2>1, <2>2 DEF Aside, GoTo, RangeInv, evcnt!StepNames
  <2> QED BY <2>3, AsideKeeps
<1>3. CASE ReaderEnters(r) \/ ReaderToggles(r) \/ ReaderLeaves(r)
  <2>1. /\ UNCHANGED <<value_, up, step>>
        /\ GoTo(r, "wait") \/ GoTo(r, "while") \/ GoTo(r, "done")
    BY <1>3 DEF ReaderEnters, ReaderToggles, ReaderLeaves, counter
  <2>2. Aside(r)
    BY <1>1, <2>1 DEF Aside, GoTo, RangeInv
  <2> QED BY <2>2, AsideKeeps
<1> QED
  BY <1>2, <1>3 DEF Reader

LEMMA MainKeeps == ASSUME RangeInv, MainStep PROVE RangeInv'
<1>1. Main \in Threads /\ Main # Writer
  BY DemoAssumption DEF Threads
<1>2. CASE MainCallsExit
  <2>1. evcnt!Exit(Main) /\ GoTo(Main, "join_readers") /\ up' = up
    BY <1>2 DEF MainCallsExit
  <2>2. value_' = value_ /\ step' = [step EXCEPT ![Main] = "exit"]
    BY <2>1 DEF evcnt!Exit, evcnt!GoTo
  <2>3. Aside(Main)
    BY <1>1, <2>1, <2>2 DEF Aside, GoTo, RangeInv, evcnt!StepNames
  <2> QED BY <2>3, AsideKeeps
<1>3. CASE MainFinishes \/ MainJoinsReaders
  <2>1. UNCHANGED <<value_, up, step>> /\ (GoTo(Main, "exit") \/ GoTo(Main, "done"))
    BY <1>3 DEF MainFinishes, MainJoinsReaders, counter
  <2>2. Aside(Main)
    BY <1>1, <2>1 DEF Aside, GoTo, RangeInv
  <2> QED BY <2>2, AsideKeeps
<1> QED
  BY <1>2, <1>3 DEF MainStep

LEMMA WriterKeeps == ASSUME RangeInv, WriterStep PROVE RangeInv'
<1>1. Writer \in Threads
  BY DEF Threads
<1>2. CASE WriterChanges
  <2>1. /\ pc[Writer] = "while" /\ pc' = [pc EXCEPT ![Writer] = "turn"] /\ UNCHANGED <<value_, up>>
        /\ step' = [step EXCEPT ![Writer] = IF up THEN "inc" ELSE "dec"]
    BY <1>2 DEF WriterChanges, At, GoTo, evcnt!Inc, evcnt!Dec, evcnt!GoTo
  <2> QED
    BY <1>1, <2>1 DEF RangeInv, CounterInRange, OnlyWriter, TurnedInTime, RoomToMove, evcnt!StepNames
<1>3. CASE WriterTurns
  <2>1. /\ step[Writer] = "out" /\ step' = step /\ value_' = value_
        /\ up' = Turned(value_) /\ pc' = [pc EXCEPT ![Writer] = "while"]
    BY <1>3 DEF WriterTurns, At, GoTo, counter
  <2>2. value_ \in 0..Target /\ Target \in Nat \ {0} /\ up \in BOOLEAN
    BY DemoAssumption DEF RangeInv, CounterInRange
  <2>3. up' \in BOOLEAN /\ (up' => value_ < Target) /\ (~up' => value_ > 0)
    <3>1. CASE value_ = Target
      BY <2>1, <2>2, <3>1 DEF Turned
    <3>2. CASE value_ = 0
      BY <2>1, <2>2, <3>2 DEF Turned
    <3>3. CASE value_ # Target /\ value_ # 0
      <4>1. up' = up
        BY <2>1, <3>3 DEF Turned
      <4>2. value_ < Target /\ value_ > 0
        BY <2>2, <3>3
      <4> QED BY <2>2, <4>1, <4>2, Zenon
    <3> QED BY <3>1, <3>2, <3>3
  <2> QED
    BY <1>1, <2>1, <2>3 DEF RangeInv, CounterInRange, OnlyWriter, TurnedInTime, RoomToMove
<1>4. CASE WriterLeaves
  <2>1. /\ step[Writer] = "out" /\ UNCHANGED <<value_, up, step>> /\ GoTo(Writer, "done")
    BY <1>4 DEF WriterLeaves, At, counter
  <2>2. Aside(Writer)
    BY <1>1, <2>1 DEF Aside, GoTo, RangeInv
  <2> QED BY <2>2, AsideKeeps
<1> QED
  BY <1>2, <1>3, <1>4 DEF WriterStep

\* A step inside the counter moves it by one, if it is the writer's, and else not at all.
LEMMA CounterKeeps == ASSUME RangeInv, NEW t \in Threads, InCounter(t) \/ Wakes(t) PROVE RangeInv'
<1> USE DEF RangeInv, CounterInRange, OnlyWriter, TurnedInTime, RoomToMove, evcnt!StepNames
<1>1. UNCHANGED <<pc, up>> /\ Writer \in Threads
  BY DEF InCounter, Wakes, locals, Threads
<1>2. CASE evcnt!FetchAdd(t)
  <2>1. t = Writer /\ step[t] = "inc" /\ value_' = value_ + 1 /\ step' = [step EXCEPT ![t] = "notify"]
    BY <1>2, DemoAssumption DEF evcnt!FetchAdd, evcnt!GoTo, evcnt!Succ
  <2> QED BY <1>1, <2>1, DemoAssumption
<1>3. CASE evcnt!FetchSub(t)
  <2>1. t = Writer /\ step[t] = "dec" /\ value_' = value_ - 1 /\ step' = [step EXCEPT ![t] = "notify"]
    BY <1>3, DemoAssumption DEF evcnt!FetchSub, evcnt!GoTo, evcnt!Pred
  <2> QED BY <1>1, <2>1, DemoAssumption
<1>4. ASSUME value_' = value_, step' \in [Threads -> evcnt!StepNames],
             \A u \in Threads : step'[u] \in {"inc", "dec"} => step'[u] = step[u]
      PROVE  RangeInv'
  BY <1>1, <1>4
<1>5. CASE \/ evcnt!NotifyAll(t) \/ evcnt!ExitNotify(t) \/ evcnt!Unlock(t) \/ evcnt!Check(t) \/ evcnt!Block(t)
           \/ evcnt!Reacquire(t) \/ evcnt!SpuriousWake(t)
  <2>1. /\ value_' = value_ /\ step' \in [Threads -> evcnt!StepNames]
        /\ \A u \in Threads : step'[u] \in {"inc", "dec"} => step'[u] = step[u]
    BY <1>5
       DEF evcnt!NotifyAll, evcnt!ExitNotify, evcnt!Unlock, evcnt!Check, evcnt!Block, evcnt!Reacquire,
           evcnt!SpuriousWake, evcnt!WakeAllAndGoTo, evcnt!GoTo
  <2> QED BY <1>4, <2>1
<1> QED
  BY <1>2, <1>3, <1>5 DEF InCounter, Wakes, evcnt!Resume

LEMMA NextRange == RangeInv /\ [Next]_vars => RangeInv'
<1> SUFFICES ASSUME RangeInv, [Next]_vars PROVE RangeInv'
  OBVIOUS
<1>1. CASE UNCHANGED vars
  BY <1>1 DEF vars, counter, locals, RangeInv, CounterInRange, OnlyWriter, TurnedInTime, RoomToMove
<1> QED
  BY <1>1, ReaderKeeps, WriterKeeps, MainKeeps, CounterKeeps DEF Next

(***************************************************************************)
(* However the readers and main interleave with the writer, it turns in    *)
(* time at both ends: the counter stays between 0 and Target, and the      *)
(* size_t never wraps (main.cpp, writer_func_evented_counter).             *)
(***************************************************************************)
THEOREM WriterStaysInRange == Spec => []CounterInRange
<1>1. RangeInv => CounterInRange
  BY DEF RangeInv
<1> QED
  BY <1>1, InitRange, NextRange, PTL DEF Spec
=============================================================================
