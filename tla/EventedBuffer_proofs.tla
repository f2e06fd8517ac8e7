------------------------ MODULE EventedBuffer_proofs ------------------------
(***************************************************************************)
(* Proofs about EventedBuffer, for every finite set of readers, every set  *)
(* of writers and every number of writes.                                  *)
(*                                                                         *)
(* The invariant is built in four layers, each proved from the ones above  *)
(* it: who is where and holds which mutex (Control), what the counter of   *)
(* waiters counts (CountInv), when a write may be withdrawn (Draining) and *)
(* what the memory holds (Memory).                                         *)
(***************************************************************************)
EXTENDS EventedBuffer, FiniteSetTheorems, TLAPS

-----------------------------------------------------------------------------
(* Control: the program counters, the steps inside the counter's calls and *)
(* the three mutexes.                                                      *)

ReaderPc == {"idle", "count_in", "check", "block", "asleep", "awake",
             "count_out", "return", "told", "copy_out"}
WriterPc == {"idle", "lock_publish", "copy_in", "publish", "notify", "drain",
             "lock_reset", "reset", "release"}

\* The labels between the lock and the unlock of each mutex.
HoldingWait == {"count_in", "check", "block", "count_out", "return",
                "copy_in", "publish", "reset"}
HoldingData == {"copy_out", "lock_publish", "copy_in", "publish", "notify",
                "drain", "lock_reset", "reset", "release"}

PcInv ==
  /\ \A r \in Readers : pc[r] \in ReaderPc
  /\ \A w \in Writers : pc[w] \in WriterPc

\* Readers call inc and dec, writers call wait_value(0).
StepInv ==
  /\ \A r \in Readers :
       \/ step[r] = "out"
       \/ pc[r] = "check" /\ step[r] \in {"inc", "notify", "unlock"}
       \/ pc[r] = "return" /\ step[r] \in {"dec", "notify", "unlock"}
  /\ \A w \in Writers :
       \/ step[w] = "out"
       \/ /\ pc[w] = "lock_reset"
          /\ step[w] \in {"check", "block", "asleep", "awake", "return"}
          /\ target_value[w] = 0

MutexInv ==
  \A t \in Threads :
    /\ pc[t] \in HoldingWait <=> write_wait_mutex_ = t
    /\ pc[t] \in HoldingData <=> data_mutex_ = t
    /\ step[t] \in waiters_count_!Holding <=> value_wait_mutex_ = t

CondInv ==
  /\ value_wait_cond_ = {t \in Threads : step[t] = "asleep"}
  /\ write_wait_cond_ = {r \in Readers : pc[r] = "asleep"}

\* A write that has not been published is within the bound.
BoundInv ==
  \A w \in Writers :
    pc[w] \in {"lock_publish", "copy_in", "publish"} => writes < MaxWrites

Control ==
  /\ TypeOK
  /\ PcInv
  /\ StepInv
  /\ MutexInv
  /\ CondInv
  /\ BoundInv
  /\ ~exit_

-----------------------------------------------------------------------------
(* What the counter counts.                                                *)

Counted ==
  {r \in Readers :
     \/ pc[r] = "check" /\ step[r] # "inc"
     \/ pc[r] \in {"block", "asleep", "awake", "count_out"}
     \/ pc[r] = "return" /\ step[r] = "dec"}

CountInv == value_ = Cardinality(Counted)

-----------------------------------------------------------------------------
(* When a write is open, and when it may be withdrawn.                     *)

Draining ==
  /\ write_occured_ <=>
       \E w \in Writers : pc[w] \in {"notify", "drain", "lock_reset", "reset"}
  /\ \A r \in Readers : pc[r] \in {"count_out", "return"} => write_occured_
  /\ \A w \in Writers :
       pc[w] = "lock_reset" /\ step[w] \in {"return", "out"} =>
         \A r \in Readers : pc[r] \notin {"block", "asleep", "awake"}
  /\ DrainedAtReset

-----------------------------------------------------------------------------
(* What the memory holds.                                                  *)

\* The write that last_write_info_ describes is in its region.
LastInv ==
  \/ /\ \E w \in Writers :
          /\ pc[w] = "publish"
          /\ last_write_info_.offset = request[w].offset
          /\ last_write_info_.size = request[w].size
     /\ last_write_info_.write = writes + 1
  \/ /\ \A w \in Writers : pc[w] # "publish"
     /\ last_write_info_.write = writes
     /\ writes > 0 /\ last_write_info_.size > 0
          => data_[last_write_info_.offset] = writes

\* Only the region a memcpy is at work on is torn.
TornInv ==
  \A o \in Regions :
    data_[o] = Torn =>
      \E w \in Writers :
        pc[w] = "publish" /\ request[w].size # 0 /\ request[w].offset = o

\* A reader was told of a write that is in its region or was overwritten by
\* a later one, and of the open write only if it is about to read.
InfoInv ==
  \A r \in Readers :
    /\ info[r].write =< writes
    /\ info[r].size > 0 =>
         \/ data_[info[r].offset] = Torn
         \/ data_[info[r].offset] >= info[r].write
    /\ write_occured_ /\ info[r].write = writes => pc[r] = "told"

Memory == LastInv /\ TornInv /\ InfoInv

IInv == Control /\ CountInv /\ Draining /\ Memory

-----------------------------------------------------------------------------
(* Control is inductive.                                                   *)

\* size_t arithmetic stays in size_t.
LEMMA SizeClosed ==
  \A v \in waiters_count_!Size :
    /\ waiters_count_!Succ(v) \in waiters_count_!Size
    /\ waiters_count_!Pred(v) \in waiters_count_!Size
  BY BoundsAssumption DEF waiters_count_!Size, waiters_count_!Succ,
     waiters_count_!Pred

\* The constructor's state.
LEMMA InitControl == Init => Control
<1> SUFFICES ASSUME Init PROVE Control
  OBVIOUS
<1>1. waiters_count_!TypeOK
  <2>1. 0 \in waiters_count_!Size /\ 0 \in 0..MaxSpurious
    BY BoundsAssumption DEF waiters_count_!Size
  <2>2. exit_ \in BOOLEAN /\ exited \in BOOLEAN
    BY Zenon DEF Init, waiters_count_!Init
  <2>3. /\ step \in [Threads -> waiters_count_!StepNames]
        /\ target_value \in [Threads -> waiters_count_!Size]
    BY <2>1 DEF Init, waiters_count_!Init, waiters_count_!StepNames
  <2> QED
    BY <2>1, <2>2, <2>3, Zenon DEF Init, waiters_count_!Init,
       waiters_count_!TypeOK
<1>2. TypeOK
  <2>1. write_occured_ \in BOOLEAN
    BY Zenon DEF Init
  <2>2. last_write_info_ \in Info /\ writes \in 0..MaxWrites
    BY BoundsAssumption DEF Init, Info
  <2>3. data_ \in [Regions -> Torn..MaxWrites] /\ dst \in [Readers -> Torn..MaxWrites]
    BY BoundsAssumption DEF Init, Junk, Torn
  <2>4. request \in [Writers -> Request] /\ info \in [Readers -> Info]
    BY BoundsAssumption DEF Init, Request, Info
  <2> QED
    BY <1>1, <2>1, <2>2, <2>3, <2>4 DEF Init, TypeOK
<1>3. PcInv /\ StepInv /\ BoundInv
  BY DEF Init, waiters_count_!Init, PcInv, StepInv, BoundInv, ReaderPc,
     WriterPc, Threads
<1>4. MutexInv /\ CondInv
  BY ThreadsAssumption DEF Init, waiters_count_!Init, MutexInv, CondInv,
     HoldingWait, HoldingData, waiters_count_!Holding, Threads
<1>5. ~exit_
  BY Zenon DEF Init, waiters_count_!Init
<1> QED
  BY <1>2, <1>3, <1>4, <1>5 DEF Control

\* wait_write() and read(), outside the calls of the counter.
LEMMA ReaderControl ==
  ASSUME Control, NEW r \in Readers,
         \/ WaitWrite(r)
         \/ Check(r)
         \/ Block(r)
         \/ SpuriousWake(r)
         \/ Reacquire(r)
         \/ ReturnInfo(r)
         \/ ReadLock(r)
         \/ ReadCopy(r)
  PROVE  Control'
<1> USE ThreadsAssumption DEF Control, TypeOK, PcInv, StepInv, MutexInv,
        CondInv, BoundInv, ReaderPc, WriterPc, HoldingWait, HoldingData,
        waiters_count_!TypeOK, waiters_count_!Holding, Threads, At, GoTo,
        Lock, Unlock, counter, locks, content, locals
<1>1. CASE WaitWrite(r)
  BY <1>1 DEF WaitWrite
<1>2. CASE Check(r)
  BY <1>2 DEF Check
<1>3. CASE Block(r)
  BY <1>3 DEF Block
<1>4. CASE SpuriousWake(r)
  BY <1>4, BoundsAssumption DEF SpuriousWake
<1>5. CASE Reacquire(r)
  BY <1>5 DEF Reacquire
<1>6. CASE ReturnInfo(r)
  BY <1>6 DEF ReturnInfo
<1>7. CASE ReadLock(r)
  BY <1>7 DEF ReadLock
<1>8. CASE ReadCopy(r)
  BY <1>8 DEF ReadCopy, Info
<1> QED
  BY <1>1, <1>2, <1>3, <1>4, <1>5, <1>6, <1>7, <1>8

\* write(), outside the calls of the counter.
LEMMA WriterControl ==
  ASSUME Control, NEW w \in Writers,
         \/ \E o \in Regions, s \in {0, 1} : Write(w, o, s)
         \/ LockToPublish(w)
         \/ CopyIn(w)
         \/ Publish(w)
         \/ NotifyAll(w)
         \/ LockToReset(w)
         \/ Reset(w)
         \/ Release(w)
  PROVE  Control'
<1> USE ThreadsAssumption DEF Control, TypeOK, PcInv, StepInv, MutexInv,
        CondInv, BoundInv, ReaderPc, WriterPc, HoldingWait, HoldingData,
        waiters_count_!TypeOK, waiters_count_!Holding, Threads, At, GoTo,
        Lock, Unlock, counter, locks, content, locals
<1>1. ASSUME NEW o \in Regions, NEW s \in {0, 1}, Write(w, o, s)
      PROVE  Control'
  BY <1>1 DEF Write, Request
<1>2. CASE LockToPublish(w)
  BY <1>2 DEF LockToPublish
<1>3. CASE CopyIn(w)
  <2>1. last_write_info_' \in Info
    BY <1>3, BoundsAssumption DEF CopyIn, Request, Info
  <2>2. data_' \in [Regions -> Torn..MaxWrites]
    <3>1. Torn \in Torn..MaxWrites
      BY BoundsAssumption DEF Torn
    <3> QED
      BY <1>3, <3>1 DEF CopyIn, Filled
  <2>3. /\ pc[w] = "copy_in" /\ step[w] = "out"
        /\ pc' = [pc EXCEPT ![w] = "publish"]
        /\ UNCHANGED <<counter, locks, write_occured_, writes, locals>>
    BY <1>3 DEF CopyIn
  <2> QED
    BY <2>1, <2>2, <2>3
<1>4. CASE Publish(w)
  <2>1. writes + 1 \in 0..MaxWrites /\ writes + 1 \in Torn..MaxWrites
    BY <1>4, BoundsAssumption DEF Publish, Torn
  <2>2. data_' \in [Regions -> Torn..MaxWrites]
    BY <1>4, <2>1 DEF Publish, Filled, Request
  <2> QED
    BY <1>4, <2>1, <2>2 DEF Publish
<1>5. CASE NotifyAll(w)
  BY <1>5 DEF NotifyAll
<1>6. CASE LockToReset(w)
  BY <1>6 DEF LockToReset
<1>7. CASE Reset(w)
  <2>1. write_occured_' \in BOOLEAN
    BY <1>7, Zenon DEF Reset
  <2> QED
    BY <1>7, <2>1 DEF Reset
<1>8. CASE Release(w)
  BY <1>8 DEF Release
<1> HIDE DEF Control
<1> QED
  BY <1>1, <1>2, <1>3, <1>4, <1>5, <1>6, <1>7, <1>8

\* The calls of the counter and the steps inside them.
LEMMA CounterControl ==
  ASSUME Control, NEW t \in Threads,
         \/ t \in Readers /\ (CountIn(t) \/ CountOut(t))
         \/ t \in Writers /\ (Drain(t) \/ DrainWakes(t))
         \/ InCounter(t)
  PROVE  Control'
<1> USE ThreadsAssumption DEF Control, TypeOK, PcInv, StepInv, MutexInv,
        CondInv, BoundInv, ReaderPc, WriterPc, HoldingWait, HoldingData,
        waiters_count_!TypeOK, waiters_count_!StepNames,
        waiters_count_!Holding, waiters_count_!Lock, waiters_count_!GoTo,
        Threads, At, GoTo, locks, content, locals
<1>1. CASE t \in Readers /\ CountIn(t)
  BY <1>1 DEF CountIn, waiters_count_!Inc
<1>2. CASE t \in Readers /\ CountOut(t)
  BY <1>2 DEF CountOut, waiters_count_!Dec
<1>3. CASE t \in Writers /\ Drain(t)
  BY <1>3, BoundsAssumption DEF Drain, waiters_count_!WaitValue, waiters_count_!Size
<1>4. CASE t \in Writers /\ DrainWakes(t)
  BY <1>4, BoundsAssumption DEF DrainWakes, waiters_count_!SpuriousWake
<1>5. ASSUME waiters_count_!FetchAdd(t), UNCHANGED <<locks, content, locals, pc>>
      PROVE  Control'
  BY <1>5, SizeClosed DEF waiters_count_!FetchAdd
<1>6. ASSUME waiters_count_!FetchSub(t), UNCHANGED <<locks, content, locals, pc>>
      PROVE  Control'
  BY <1>6, SizeClosed DEF waiters_count_!FetchSub
<1>7. ASSUME waiters_count_!NotifyAll(t), UNCHANGED <<locks, content, locals, pc>>
      PROVE  Control'
  BY <1>7 DEF waiters_count_!NotifyAll, waiters_count_!WakeAllAndGoTo
<1>8. ASSUME waiters_count_!Unlock(t), UNCHANGED <<locks, content, locals, pc>>
      PROVE  Control'
  BY <1>8 DEF waiters_count_!Unlock
<1>9. ASSUME waiters_count_!Check(t), UNCHANGED <<locks, content, locals, pc>>
      PROVE  Control'
  BY <1>9 DEF waiters_count_!Check
<1>10. ASSUME waiters_count_!Block(t), UNCHANGED <<locks, content, locals, pc>>
       PROVE  Control'
  BY <1>10 DEF waiters_count_!Block
<1>11. ASSUME waiters_count_!Reacquire(t), UNCHANGED <<locks, content, locals, pc>>
       PROVE  Control'
  BY <1>11 DEF waiters_count_!Reacquire
<1>12. ~waiters_count_!ExitNotify(t)
  BY DEF waiters_count_!ExitNotify
<1> HIDE DEF Control, locks, content, locals
<1> QED
  BY <1>1, <1>2, <1>3, <1>4, <1>5, <1>6, <1>7, <1>8, <1>9, <1>10, <1>11,
     <1>12 DEF InCounter, waiters_count_!Resume

-----------------------------------------------------------------------------
(* CountInv is inductive.  Outside the fetch_add and the fetch_sub neither *)
(* the counter nor the set of the counted readers changes.                 *)

LEMMA SameCount ==
  ASSUME CountInv, value_' = value_, Counted' = Counted
  PROVE  CountInv'
  BY DEF CountInv

LEMMA ReaderCount ==
  ASSUME Control, CountInv, NEW r \in Readers,
         \/ WaitWrite(r)
         \/ CountIn(r)
         \/ Check(r)
         \/ Block(r)
         \/ SpuriousWake(r)
         \/ Reacquire(r)
         \/ CountOut(r)
         \/ ReturnInfo(r)
         \/ ReadLock(r)
         \/ ReadCopy(r)
  PROVE  CountInv'
<1> USE DEF Control, TypeOK, StepInv, waiters_count_!TypeOK, Threads, At,
        GoTo, counter, Counted
<1>1. CASE WaitWrite(r)
  BY <1>1, SameCount DEF WaitWrite
<1>2. CASE CountIn(r)
  BY <1>2, SameCount DEF CountIn, waiters_count_!Inc, waiters_count_!GoTo
<1>3. CASE Check(r)
  BY <1>3, SameCount DEF Check
<1>4. CASE Block(r)
  BY <1>4, SameCount DEF Block
<1>5. CASE SpuriousWake(r)
  BY <1>5, SameCount DEF SpuriousWake
<1>6. CASE Reacquire(r)
  BY <1>6, SameCount DEF Reacquire
<1>7. CASE CountOut(r)
  BY <1>7, SameCount DEF CountOut, waiters_count_!Dec, waiters_count_!GoTo
<1>8. CASE ReturnInfo(r)
  BY <1>8, SameCount DEF ReturnInfo
<1>9. CASE ReadLock(r)
  BY <1>9, SameCount DEF ReadLock
<1>10. CASE ReadCopy(r)
  BY <1>10, SameCount DEF ReadCopy
<1> HIDE DEF Control
<1> QED
  BY <1>1, <1>2, <1>3, <1>4, <1>5, <1>6, <1>7, <1>8, <1>9, <1>10

LEMMA WriterCount ==
  ASSUME Control, CountInv, NEW w \in Writers,
         \/ \E o \in Regions, s \in {0, 1} : Write(w, o, s)
         \/ LockToPublish(w)
         \/ CopyIn(w)
         \/ Publish(w)
         \/ NotifyAll(w)
         \/ Drain(w)
         \/ DrainWakes(w)
         \/ LockToReset(w)
         \/ Reset(w)
         \/ Release(w)
  PROVE  CountInv'
<1> USE ThreadsAssumption DEF Control, TypeOK, StepInv, CondInv,
        waiters_count_!TypeOK, waiters_count_!GoTo, Threads, At, GoTo,
        counter, Counted
<1>1. ASSUME NEW o \in Regions, NEW s \in {0, 1}, Write(w, o, s)
      PROVE  CountInv'
  BY <1>1, SameCount DEF Write
<1>2. CASE LockToPublish(w)
  BY <1>2, SameCount DEF LockToPublish
<1>3. CASE CopyIn(w)
  BY <1>3, SameCount DEF CopyIn
<1>4. CASE Publish(w)
  BY <1>4, SameCount DEF Publish
<1>5. CASE NotifyAll(w)
  BY <1>5, SameCount DEF NotifyAll
<1>6. CASE Drain(w)
  BY <1>6, SameCount DEF Drain, waiters_count_!WaitValue
<1>7. CASE DrainWakes(w)
  BY <1>7, SameCount DEF DrainWakes, waiters_count_!SpuriousWake
<1>8. CASE LockToReset(w)
  BY <1>8, SameCount DEF LockToReset
<1>9. CASE Reset(w)
  BY <1>9, SameCount DEF Reset
<1>10. CASE Release(w)
  BY <1>10, SameCount DEF Release
<1> HIDE DEF Control
<1> QED
  BY <1>1, <1>2, <1>3, <1>4, <1>5, <1>6, <1>7, <1>8, <1>9, <1>10

\* inc() counts its caller in and dec() counts it out; neither wraps around,
\* because SizeMax is at least the number of readers.
LEMMA CounterCount ==
  ASSUME Control, CountInv, NEW t \in Threads, InCounter(t)
  PROVE  CountInv'
<1> USE ThreadsAssumption DEF Control, TypeOK, StepInv, CondInv,
        waiters_count_!TypeOK, waiters_count_!GoTo, Threads, Counted
<1>1. UNCHANGED pc
  BY DEF InCounter
<1>2. IsFiniteSet(Counted) /\ Cardinality(Counted) \in Nat
  BY FS_Subset, FS_CardinalityType
<1>3. CASE waiters_count_!FetchAdd(t)
  <2>1. t \in Readers /\ t \notin Counted /\ Counted' = Counted \cup {t}
    BY <1>1, <1>3 DEF waiters_count_!FetchAdd
  <2>2. Cardinality(Counted \cup {t}) = Cardinality(Counted) + 1
    BY <1>2, <2>1, FS_AddElement
  <2>3. Cardinality(Counted \cup {t}) =< Cardinality(Readers)
    BY <2>1, FS_Subset
  <2>4. Cardinality(Counted) < SizeMax
    BY <1>2, <2>2, <2>3, BoundsAssumption, FS_CardinalityType
  <2> HIDE DEF Counted
  <2> QED
    BY <1>2, <1>3, <2>1, <2>2, <2>4
    DEF CountInv, waiters_count_!FetchAdd, waiters_count_!Succ
<1>4. CASE waiters_count_!FetchSub(t)
  <2>1. t \in Counted /\ Counted' = Counted \ {t}
    BY <1>1, <1>4 DEF waiters_count_!FetchSub
  <2>2. Cardinality(Counted \ {t}) = Cardinality(Counted) - 1
    BY <1>2, <2>1, FS_RemoveElement
  <2>3. Cardinality(Counted) # 0
    BY <1>2, <2>1, FS_EmptySet
  <2> QED
    BY <1>2, <1>4, <2>1, <2>2, <2>3
    DEF CountInv, waiters_count_!FetchSub, waiters_count_!Pred
<1>5. CASE waiters_count_!NotifyAll(t)
  BY <1>1, <1>5, SameCount DEF waiters_count_!NotifyAll, waiters_count_!WakeAllAndGoTo
<1>6. CASE waiters_count_!Unlock(t)
  BY <1>1, <1>6, SameCount DEF waiters_count_!Unlock
<1>7. CASE waiters_count_!Check(t)
  BY <1>1, <1>7, SameCount DEF waiters_count_!Check
<1>8. CASE waiters_count_!Block(t)
  BY <1>1, <1>8, SameCount DEF waiters_count_!Block
<1>9. CASE waiters_count_!Reacquire(t)
  BY <1>1, <1>9, SameCount DEF waiters_count_!Reacquire
<1>10. ~waiters_count_!ExitNotify(t)
  BY DEF waiters_count_!ExitNotify
<1> HIDE DEF Control
<1> QED
  BY <1>3, <1>4, <1>5, <1>6, <1>7, <1>8, <1>9, <1>10
  DEF InCounter, waiters_count_!Resume

-----------------------------------------------------------------------------
(* Draining is inductive.                                                  *)

\* wait_write() and read(): a reader that finds the write closed blocks, and
\* then no writer is past its wait for the readers.
LEMMA ReaderDraining ==
  ASSUME Control, Draining, NEW r \in Readers,
         \/ WaitWrite(r)
         \/ CountIn(r)
         \/ Check(r)
         \/ Block(r)
         \/ SpuriousWake(r)
         \/ Reacquire(r)
         \/ CountOut(r)
         \/ ReturnInfo(r)
         \/ ReadLock(r)
         \/ ReadCopy(r)
  PROVE  Draining'
<1> USE ThreadsAssumption DEF Control, TypeOK, PcInv, MutexInv, HoldingWait,
        waiters_count_!TypeOK, waiters_count_!GoTo, Threads, At, GoTo, Lock,
        counter, content, Draining, DrainedAtReset, Waiting
<1>1. CASE WaitWrite(r)
  BY <1>1 DEF WaitWrite
<1>2. CASE CountIn(r)
  BY <1>2 DEF CountIn, waiters_count_!Inc
<1>3. CASE Check(r)
  BY <1>3 DEF Check
<1>4. CASE Block(r)
  BY <1>4 DEF Block
<1>5. CASE SpuriousWake(r)
  BY <1>5 DEF SpuriousWake
<1>6. CASE Reacquire(r)
  BY <1>6 DEF Reacquire
<1>7. CASE CountOut(r)
  BY <1>7 DEF CountOut, waiters_count_!Dec
<1>8. CASE ReturnInfo(r)
  BY <1>8 DEF ReturnInfo
<1>9. CASE ReadLock(r)
  BY <1>9 DEF ReadLock
<1>10. CASE ReadCopy(r)
  BY <1>10 DEF ReadCopy
<1> HIDE DEF Control, Draining
<1> QED
  BY <1>1, <1>2, <1>3, <1>4, <1>5, <1>6, <1>7, <1>8, <1>9, <1>10

\* write(): one writer at a time has data_mutex_, and the mutex it takes to
\* withdraw the write is held by every reader that is awake in wait_write.
LEMMA WriterDraining ==
  ASSUME Control, Draining, NEW w \in Writers,
         \/ \E o \in Regions, s \in {0, 1} : Write(w, o, s)
         \/ LockToPublish(w)
         \/ CopyIn(w)
         \/ Publish(w)
         \/ NotifyAll(w)
         \/ Drain(w)
         \/ DrainWakes(w)
         \/ LockToReset(w)
         \/ Reset(w)
         \/ Release(w)
  PROVE  Draining'
<1> USE ThreadsAssumption DEF Control, TypeOK, PcInv, MutexInv, CondInv,
        HoldingWait, HoldingData, waiters_count_!TypeOK,
        waiters_count_!GoTo, Threads, At, GoTo, Lock, counter, content,
        Draining, DrainedAtReset, Waiting, ReaderPc, WriterPc
<1>1. ASSUME NEW o \in Regions, NEW s \in {0, 1}, Write(w, o, s)
      PROVE  Draining'
  BY <1>1 DEF Write
<1>2. CASE LockToPublish(w)
  BY <1>2 DEF LockToPublish
<1>3. CASE CopyIn(w)
  BY <1>3 DEF CopyIn
<1>4. CASE Publish(w)
  BY <1>4 DEF Publish
<1>5. CASE NotifyAll(w)
  BY <1>5 DEF NotifyAll
<1>6. CASE Drain(w)
  BY <1>6 DEF Drain, waiters_count_!WaitValue
<1>7. CASE DrainWakes(w)
  BY <1>7 DEF DrainWakes, waiters_count_!SpuriousWake
<1>8. CASE LockToReset(w)
  BY <1>8 DEF LockToReset
<1>9. CASE Reset(w)
  BY <1>9 DEF Reset
<1>10. CASE Release(w)
  BY <1>10 DEF Release
<1> HIDE DEF Control, Draining
<1> QED
  BY <1>1, <1>2, <1>3, <1>4, <1>5, <1>6, <1>7, <1>8, <1>9, <1>10

\* The steps inside the calls of the counter: wait_value(0) finds no reader
\* counted, hence none that blocks or sleeps.
LEMMA CounterDraining ==
  ASSUME Control, CountInv, Draining, NEW t \in Threads, InCounter(t)
  PROVE  Draining'
<1>1. UNCHANGED <<pc, write_occured_>>
  BY DEF InCounter, content
<1>2. Draining' <=>
        \A w \in Writers :
          pc[w] = "lock_reset" /\ step'[w] \in {"return", "out"} =>
            \A r \in Readers : pc[r] \notin {"block", "asleep", "awake"}
  BY <1>1 DEF Draining, DrainedAtReset, Waiting
<1>3. ASSUME NEW w \in Writers, pc[w] = "lock_reset",
             step'[w] \in {"return", "out"},
             step[w] \notin {"return", "out"}
      PROVE  w = t /\ waiters_count_!Check(t) /\ step[w] = "check"
             /\ value_ = target_value[w]
  BY <1>3, ThreadsAssumption
  DEF Control, TypeOK, StepInv, CondInv, waiters_count_!TypeOK, Threads,
      waiters_count_!GoTo, InCounter, waiters_count_!Resume,
      waiters_count_!FetchAdd, waiters_count_!FetchSub,
      waiters_count_!NotifyAll, waiters_count_!WakeAllAndGoTo,
      waiters_count_!Unlock, waiters_count_!Check, waiters_count_!Block,
      waiters_count_!Reacquire, waiters_count_!ExitNotify
<1>4. ASSUME value_ = 0
      PROVE  \A r \in Readers : pc[r] \notin {"block", "asleep", "awake"}
  <2>1. IsFiniteSet(Counted)
    BY ThreadsAssumption, FS_Subset DEF Counted
  <2>2. Counted = {}
    BY <1>4, <2>1, FS_EmptySet DEF CountInv
  <2> QED
    BY <2>2 DEF Counted
<1>5. ASSUME NEW w \in Writers, step[w] = "check", pc[w] = "lock_reset"
      PROVE  target_value[w] = 0
  BY <1>5 DEF Control, StepInv
<1> QED
  BY <1>2, <1>3, <1>4, <1>5 DEF Draining

-----------------------------------------------------------------------------
(* Memory is inductive.                                                    *)

\* All steps but three leave the memory alone, start and end no memcpy, and
\* let no reader that was told of the open write go on to read it.
LEMMA SameMemory ==
  ASSUME Memory,
         UNCHANGED <<last_write_info_, data_, writes, info>>,
         write_occured_' => write_occured_,
         \A w \in Writers : pc'[w] = "publish" <=> pc[w] = "publish",
         \A w \in Writers : pc[w] = "publish" => request'[w] = request[w],
         \A r \in Readers :
           write_occured_ /\ pc[r] = "told" => pc'[r] = "told"
  PROVE  Memory'
  BY DEF Memory, LastInv, TornInv, InfoInv

LEMMA ReaderMemory ==
  ASSUME Control, Draining, Memory, NEW r \in Readers,
         \/ WaitWrite(r)
         \/ CountIn(r)
         \/ Check(r)
         \/ Block(r)
         \/ SpuriousWake(r)
         \/ Reacquire(r)
         \/ CountOut(r)
         \/ ReturnInfo(r)
         \/ ReadLock(r)
         \/ ReadCopy(r)
  PROVE  Memory'
<1> USE ThreadsAssumption DEF Control, TypeOK, PcInv, MutexInv, HoldingWait,
        HoldingData, WriterPc, Threads, At, GoTo, Lock, counter, content,
        locals
<1>1. CASE WaitWrite(r)
  BY <1>1, SameMemory DEF WaitWrite
<1>2. CASE CountIn(r)
  BY <1>2, SameMemory DEF CountIn
<1>3. CASE Check(r)
  BY <1>3, SameMemory DEF Check
<1>4. CASE Block(r)
  BY <1>4, SameMemory DEF Block
<1>5. CASE SpuriousWake(r)
  BY <1>5, SameMemory DEF SpuriousWake
<1>6. CASE Reacquire(r)
  BY <1>6, SameMemory DEF Reacquire
<1>7. CASE CountOut(r)
  BY <1>7, SameMemory DEF CountOut
\* The reader has write_wait_mutex_: no memcpy is going on.
<1>8. CASE ReturnInfo(r)
  <2>1. \A w \in Writers : pc[w] # "publish" /\ pc'[w] # "publish"
    BY <1>8 DEF ReturnInfo
  <2>2. LastInv' /\ TornInv'
    BY <1>8, <2>1 DEF ReturnInfo, Memory, LastInv, TornInv
  <2>3. /\ last_write_info_.write = writes
        /\ writes > 0 /\ last_write_info_.size > 0
             => data_[last_write_info_.offset] = writes
    BY <2>1 DEF Memory, LastInv
  <2>4. /\ last_write_info_.offset \in Regions
        /\ data_[last_write_info_.offset] \in Torn..MaxWrites
        /\ writes \in Nat
    BY DEF Info
  <2>5. last_write_info_.size > 0 =>
          \/ data_[last_write_info_.offset] = Torn
          \/ data_[last_write_info_.offset] >= last_write_info_.write
    BY <2>3, <2>4 DEF Torn
  <2>6. info' = [info EXCEPT ![r] = last_write_info_] /\ pc'[r] = "told"
    BY <1>8 DEF ReturnInfo
  <2> QED
    BY <1>8, <2>2, <2>3, <2>4, <2>5, <2>6 DEF ReturnInfo, Memory, InfoInv
\* The reader takes data_mutex_: no write is open.
<1>9. CASE ReadLock(r)
  <2>1. ~write_occured_
    BY <1>9 DEF ReadLock, Draining
  <2> QED
    BY <1>9, <2>1, SameMemory DEF ReadLock
<1>10. CASE ReadCopy(r)
  BY <1>10, SameMemory DEF ReadCopy
<1> HIDE DEF Control
<1> QED
  BY <1>1, <1>2, <1>3, <1>4, <1>5, <1>6, <1>7, <1>8, <1>9, <1>10

LEMMA WriterMemory ==
  ASSUME Control, Memory, NEW w \in Writers,
         \/ \E o \in Regions, s \in {0, 1} : Write(w, o, s)
         \/ LockToPublish(w)
         \/ CopyIn(w)
         \/ Publish(w)
         \/ NotifyAll(w)
         \/ Drain(w)
         \/ DrainWakes(w)
         \/ LockToReset(w)
         \/ Reset(w)
         \/ Release(w)
  PROVE  Memory'
<1> USE ThreadsAssumption DEF Control, TypeOK, PcInv, MutexInv, CondInv,
        HoldingWait, HoldingData, WriterPc, ReaderPc, Threads, At, GoTo, Lock,
        counter, content, locals
<1>1. ASSUME NEW o \in Regions, NEW s \in {0, 1}, Write(w, o, s)
      PROVE  Memory'
  BY <1>1, SameMemory DEF Write
<1>2. CASE LockToPublish(w)
  BY <1>2, SameMemory DEF LockToPublish
\* The memcpy begins: only the region of the write is torn.
<1>3. CASE CopyIn(w)
  <2>1. \A v \in Writers : pc[v] # "publish" /\ (pc'[v] = "publish" <=> v = w)
    BY <1>3 DEF CopyIn
  <2>2. request[w].offset \in Regions
    BY DEF Request
  <2>3. LastInv'
    BY <1>3, <2>1 DEF CopyIn, LastInv
  <2>4. TornInv' /\ InfoInv'
    BY <1>3, <2>1, <2>2 DEF CopyIn, Filled, Memory, TornInv, InfoInv
  <2> QED
    BY <2>3, <2>4 DEF Memory
\* The memcpy ends: the region holds the newest write, of which no reader
\* was told yet.
<1>4. CASE Publish(w)
  <2>1. \A v \in Writers : (pc[v] = "publish" <=> v = w) /\ pc'[v] # "publish"
    BY <1>4 DEF Publish
  <2>2. /\ last_write_info_.offset = request[w].offset
        /\ last_write_info_.size = request[w].size
        /\ last_write_info_.write = writes + 1
    BY <2>1 DEF Memory, LastInv
  <2>3. request[w].offset \in Regions /\ request[w].size \in {0, 1}
    BY DEF Request
  <2>4. writes \in Nat /\ writes' = writes + 1 /\ last_write_info_' = last_write_info_
        /\ data_' = Filled(w, writes + 1) /\ info' = info
    BY <1>4 DEF Publish
  <2>5. LastInv'
    BY <2>1, <2>2, <2>3, <2>4 DEF Filled, LastInv
  <2>6. TornInv'
    BY <2>1, <2>3, <2>4 DEF Filled, Memory, TornInv, Torn
  <2>7. \A r \in Readers : info[r].offset \in Regions /\ info[r].write \in Nat
    BY DEF Info
  <2>8. InfoInv'
    BY <2>3, <2>4, <2>7 DEF Filled, Memory, InfoInv
  <2> QED
    BY <2>5, <2>6, <2>8 DEF Memory
<1>5. CASE NotifyAll(w)
  BY <1>5, SameMemory DEF NotifyAll
<1>6. CASE Drain(w)
  BY <1>6, SameMemory DEF Drain
<1>7. CASE DrainWakes(w)
  BY <1>7, SameMemory DEF DrainWakes
<1>8. CASE LockToReset(w)
  BY <1>8, SameMemory DEF LockToReset
<1>9. CASE Reset(w)
  BY <1>9, SameMemory DEF Reset
<1>10. CASE Release(w)
  BY <1>10, SameMemory DEF Release
<1> HIDE DEF Control
<1> QED
  BY <1>1, <1>2, <1>3, <1>4, <1>5, <1>6, <1>7, <1>8, <1>9, <1>10

LEMMA CounterMemory ==
  ASSUME Memory, NEW t \in Threads, InCounter(t)
  PROVE  Memory'
  BY SameMemory DEF InCounter, content, locals

-----------------------------------------------------------------------------
(* The inductive invariant of the module, and the properties it implies.   *)

LEMMA InitIInv == Init => IInv
<1> SUFFICES ASSUME Init PROVE IInv
  OBVIOUS
<1>1. Control
  BY InitControl
<1>2. CountInv
  <2>1. Counted = {}
    BY DEF Init, Counted, Threads
  <2> QED
    BY <2>1, FS_EmptySet DEF Init, waiters_count_!Init, CountInv
<1>3. Draining
  BY Zenon DEF Init, Draining, DrainedAtReset, Threads
<1>4. Memory
  BY BoundsAssumption DEF Init, Memory, LastInv, TornInv, InfoInv, Threads,
     Junk, Torn
<1> QED
  BY <1>1, <1>2, <1>3, <1>4 DEF IInv

LEMMA NextIInv == IInv /\ [Next]_vars => IInv'
<1> SUFFICES ASSUME IInv, [Next]_vars PROVE IInv'
  OBVIOUS
<1>1. Control /\ CountInv /\ Draining /\ Memory
  BY DEF IInv
<1>2. CASE UNCHANGED vars
  <2>1. Control'
    BY <1>1, <1>2 DEF vars, counter, locks, content, locals, Control, TypeOK,
       waiters_count_!TypeOK, PcInv, StepInv, MutexInv, CondInv, BoundInv
  <2>2. CountInv'
    BY <1>1, <1>2 DEF vars, counter, CountInv, Counted
  <2>3. Draining'
    BY <1>1, <1>2 DEF vars, counter, content, Draining, DrainedAtReset, Waiting
  <2>4. Memory'
    BY <1>1, <1>2 DEF vars, content, locals, Memory, LastInv, TornInv, InfoInv
  <2> QED
    BY <2>1, <2>2, <2>3, <2>4 DEF IInv
<1>3. ASSUME NEW r \in Readers,
             WaitWrite(r) \/ ReadLock(r) \/ ReaderResumes(r) \/ SpuriousWake(r)
      PROVE  IInv'
  BY <1>1, <1>3, ReaderControl, CounterControl, ReaderCount, CounterCount,
     ReaderDraining, CounterDraining, ReaderMemory, CounterMemory
  DEF ReaderResumes, IInv, Threads
<1>4. ASSUME NEW w \in Writers,
             \/ \E o \in Regions, s \in {0, 1} : Write(w, o, s)
             \/ WriterResumes(w)
             \/ DrainWakes(w)
      PROVE  IInv'
  BY <1>1, <1>4, WriterControl, CounterControl, WriterCount, CounterCount,
     WriterDraining, CounterDraining, WriterMemory, CounterMemory
  DEF WriterResumes, IInv, Threads
<1> QED
  BY <1>2, <1>3, <1>4 DEF Next

LEMMA Invariance == Spec => []IInv
  BY InitIInv, NextIInv, PTL DEF Spec

\* Type correctness.
THEOREM TypeCorrect == Spec => []TypeOK
<1>1. IInv => TypeOK
  BY DEF IInv, Control
<1> QED
  BY <1>1, Invariance, PTL

\* write() withdraws its write only when wait_write is empty.
THEOREM WritersDrainReaders == Spec => []DrainedAtReset
<1>1. IInv => DrainedAtReset
  BY DEF IInv, Draining
<1> QED
  BY <1>1, Invariance, PTL

\* The region a reader is about to copy out is whole and not too old.
LEMMA IInvImpliesWhole == IInv => ReadsWhatItWasTold
<1> SUFFICES ASSUME IInv, NEW r \in Readers, pc[r] = "copy_out",
                    info[r].size > 0
             PROVE  data_[info[r].offset] >= info[r].write
  BY DEF ReadsWhatItWasTold
<1>1. \A w \in Writers : pc[w] # "publish"
  BY ThreadsAssumption DEF IInv, Control, MutexInv, HoldingData, Threads
<1>2. info[r].offset \in Regions
  BY DEF IInv, Control, TypeOK, Info
<1> QED
  BY <1>1, <1>2 DEF IInv, Memory, TornInv, InfoInv

\* read() copies a whole write out, the one its reader was told of or a later
\* one.
THEOREM ReadersSeeWholeWrites == Spec => []ReadsWhatItWasTold
  BY IInvImpliesWhole, Invariance, PTL

-----------------------------------------------------------------------------
(* The buffer implements the broadcast, fairness aside.                    *)

\* The constructor's state is an initial state of the broadcast.
LEMMA InitRefines == Init => broadcast!Init
  BY DEF Init, broadcast!Init, Waiting, Threads

\* wait_write() is the broadcast's Arrive until its last step, its Receive.
LEMMA ReaderRefines ==
  ASSUME IInv, NEW r \in Readers,
         WaitWrite(r) \/ ReadLock(r) \/ ReaderResumes(r) \/ SpuriousWake(r)
  PROVE  [broadcast!Next]_(broadcast!vars)
<1> USE DEF At, GoTo, counter, locks, content, locals
<1>1. pc \in [Threads -> {pc[t] : t \in Threads}] /\ r \in Threads
  BY DEF IInv, Control, TypeOK, Threads
<1>2. CASE WaitWrite(r)
  <2>1. r \notin Waiting /\ Waiting' = Waiting \cup {r}
    BY <1>1, <1>2 DEF WaitWrite, Waiting, Threads
  <2>2. info[r].write \in Nat /\ writes \in Nat
    BY DEF IInv, Control, TypeOK, Info
  <2>3. write_occured_ => info[r].write < writes
    BY <1>2, <2>2 DEF WaitWrite, IInv, Memory, InfoInv
  <2>4. broadcast!Arrive(r)
    BY <1>2, <2>1, <2>3 DEF WaitWrite, broadcast!Arrive
  <2> QED
    BY <2>4 DEF broadcast!Next
<1>3. CASE ReturnInfo(r)
  <2>1. r \in Waiting /\ Waiting' = Waiting \ {r}
    BY <1>1, <1>3 DEF ReturnInfo, Waiting, Threads
  <2>2. write_occured_
    BY <1>3 DEF ReturnInfo, IInv, Draining
  <2>3. last_write_info_.write = writes
    BY <1>3, ThreadsAssumption DEF ReturnInfo, IInv, Control, MutexInv,
       HoldingWait, Threads, Memory, LastInv
  <2>4. broadcast!Receive(r)
    BY <1>3, <2>1, <2>2, <2>3 DEF ReturnInfo, broadcast!Receive, IInv,
       Control, TypeOK
  <2> QED
    BY <2>4 DEF broadcast!Next
<1>4. ASSUME UNCHANGED <<write_occured_, writes, info>>, Waiting' = Waiting
      PROVE  UNCHANGED broadcast!vars
  BY <1>4 DEF broadcast!vars
<1>5. CASE ReadLock(r) \/ ReadCopy(r) \/ InCounter(r)
  BY <1>1, <1>4, <1>5 DEF ReadLock, ReadCopy, InCounter, Waiting, Threads
<1>6. CASE CountIn(r) \/ CountOut(r) \/ Check(r)
  BY <1>1, <1>4, <1>6 DEF CountIn, CountOut, Check, Waiting, Threads
<1>7. CASE Block(r) \/ SpuriousWake(r) \/ Reacquire(r)
  BY <1>1, <1>4, <1>7 DEF Block, SpuriousWake, Reacquire, Waiting, Threads
<1> QED
  BY <1>2, <1>3, <1>5, <1>6, <1>7 DEF ReaderResumes

\* write() is the broadcast's Publish when it unlocks write_wait_mutex_ for
\* the first time and its Close when it clears write_occured_.
LEMMA WriterRefines ==
  ASSUME IInv, NEW w \in Writers,
         \/ \E o \in Regions, s \in {0, 1} : Write(w, o, s)
         \/ WriterResumes(w)
         \/ DrainWakes(w)
  PROVE  [broadcast!Next]_(broadcast!vars)
<1> USE ThreadsAssumption DEF At, GoTo, counter, locks, content, locals
<1>1. pc \in [Threads -> {pc[t] : t \in Threads}] /\ w \in Threads /\ w \notin Readers
  BY DEF IInv, Control, TypeOK, Threads
<1>2. CASE Publish(w)
  <2>1. Waiting' = Waiting
    BY <1>1, <1>2 DEF Publish, Waiting, Threads
  <2>2. ~write_occured_
    BY <1>2 DEF Publish, IInv, Control, MutexInv, HoldingData, Threads, Draining
  <2>3. broadcast!Publish
    BY <1>2, <2>1, <2>2 DEF Publish, broadcast!Publish
  <2> QED
    BY <2>3 DEF broadcast!Next
<1>3. CASE Reset(w)
  <2>1. Waiting' = Waiting
    BY <1>1, <1>3 DEF Reset, Waiting, Threads
  <2>2. write_occured_ /\ Waiting = {}
    BY <1>3 DEF Reset, IInv, Draining, DrainedAtReset
  <2>3. broadcast!Close
    BY <1>3, <2>1, <2>2 DEF Reset, broadcast!Close
  <2> QED
    BY <2>3 DEF broadcast!Next
<1>4. ASSUME UNCHANGED <<write_occured_, writes, info>>, Waiting' = Waiting
      PROVE  UNCHANGED broadcast!vars
  BY <1>4 DEF broadcast!vars
<1>5. ASSUME NEW o \in Regions, NEW s \in {0, 1}, Write(w, o, s)
      PROVE  UNCHANGED broadcast!vars
  BY <1>1, <1>4, <1>5 DEF Write, Waiting, Threads
<1>6. CASE LockToPublish(w) \/ CopyIn(w) \/ LockToReset(w) \/ Release(w)
  BY <1>1, <1>4, <1>6 DEF LockToPublish, CopyIn, LockToReset, Release,
     Waiting, Threads
<1>7. CASE NotifyAll(w)
  BY <1>1, <1>4, <1>7 DEF NotifyAll, IInv, Control, CondInv, Waiting, Threads
<1>8. CASE Drain(w) \/ InCounter(w) \/ DrainWakes(w)
  BY <1>1, <1>4, <1>8 DEF Drain, InCounter, DrainWakes, Waiting, Threads
<1> QED
  BY <1>2, <1>3, <1>5, <1>6, <1>7, <1>8 DEF WriterResumes

\* Every behaviour of the buffer is one of the broadcast: each reader that
\* waits is told of each published write before it is withdrawn, once.
THEOREM ImplementsBroadcast ==
  Spec => broadcast!Init /\ [][broadcast!Next]_(broadcast!vars)
<1>1. IInv /\ [Next]_vars => [broadcast!Next]_(broadcast!vars)
  <2>1. ASSUME UNCHANGED vars PROVE UNCHANGED broadcast!vars
    BY <2>1 DEF vars, content, locals, broadcast!vars, Waiting
  <2> QED
    BY <2>1, ReaderRefines, WriterRefines DEF Next
<1> QED
  BY <1>1, InitRefines, Invariance, PTL DEF Spec
=============================================================================
