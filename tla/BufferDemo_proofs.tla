-------------------------- MODULE BufferDemo_proofs --------------------------
(***************************************************************************)
(* Proofs about the demo of evented_buffer_t, for every finite set of      *)
(* readers and every number of offsets of the writer.                      *)
(*                                                                         *)
(* The buffer keeps the invariant that EventedBuffer_proofs shows for any  *)
(* client (P!IInv); what the demo adds is which calls are made, in which   *)
(* order, and so which write has which number and place.                   *)
(***************************************************************************)
EXTENDS BufferDemo, FiniteSetTheorems, TLAPS

P == INSTANCE EventedBuffer_proofs WITH
  Writers <- {Writer, Main},
  Regions <- 0..LastRegion,
  MaxWrites <- LastRegion + 2

-----------------------------------------------------------------------------
(* The steps of the demo are steps of the buffer.                          *)

LEMMA BufferCardinality == \A S : P!Cardinality(S) = Cardinality(S)
BY DEF P!Cardinality, Cardinality

LEMMA BufferFinite == \A S : P!IsFiniteSet(S) <=> IsFiniteSet(S)
BY DEF P!IsFiniteSet, IsFiniteSet

LEMMA BufferAssumptions ==
  /\ P!ThreadsAssumption
  /\ P!BoundsAssumption
BY BufferCardinality, BufferFinite, DemoAssumption, ReadersAssumption
   DEF P!ThreadsAssumption, P!BoundsAssumption

LEMMA BufferInit == evbuf!Init => P!Init
BY DEF evbuf!Init, P!Init, evbuf!waiters_count_!Init, P!waiters_count_!Init,
       evbuf!Threads, P!Threads, evbuf!Junk, P!Junk

LEMMA CounterSteps == ASSUME NEW t, evbuf!InCounter(t) PROVE P!InCounter(t)
BY Zenon
   DEF evbuf!At, P!At, evbuf!GoTo, P!GoTo, evbuf!Lock, P!Lock, evbuf!Unlock, P!Unlock,
       evbuf!Filled, P!Filled, evbuf!Torn, P!Torn, evbuf!counter, P!counter, evbuf!locks,
       P!locks, evbuf!content, P!content, evbuf!locals, P!locals, evbuf!Threads,
       P!Threads, evbuf!InCounter, P!InCounter, evbuf!waiters_count_!Resume,
       P!waiters_count_!Resume, evbuf!waiters_count_!FetchAdd, P!waiters_count_!FetchAdd,
       evbuf!waiters_count_!FetchSub, P!waiters_count_!FetchSub,
       evbuf!waiters_count_!NotifyAll, P!waiters_count_!NotifyAll,
       evbuf!waiters_count_!Unlock, P!waiters_count_!Unlock, evbuf!waiters_count_!Check,
       P!waiters_count_!Check, evbuf!waiters_count_!Block, P!waiters_count_!Block,
       evbuf!waiters_count_!Reacquire, P!waiters_count_!Reacquire,
       evbuf!waiters_count_!ExitNotify, P!waiters_count_!ExitNotify,
       evbuf!waiters_count_!Lock, P!waiters_count_!Lock, evbuf!waiters_count_!GoTo,
       P!waiters_count_!GoTo, evbuf!waiters_count_!WakeAllAndGoTo,
       P!waiters_count_!WakeAllAndGoTo, evbuf!waiters_count_!Succ, P!waiters_count_!Succ,
       evbuf!waiters_count_!Pred, P!waiters_count_!Pred, evbuf!waiters_count_!Size,
       P!waiters_count_!Size

LEMMA ReaderSteps ==
  ASSUME NEW r
  PROVE  /\ evbuf!ReaderResumes(r) => P!ReaderResumes(r)
         /\ evbuf!WaitWrite(r) => P!WaitWrite(r)
         /\ evbuf!ReadLock(r) => P!ReadLock(r)
         /\ evbuf!SpuriousWake(r) => P!SpuriousWake(r)
BY CounterSteps, Zenon
   DEF evbuf!At, P!At, evbuf!GoTo, P!GoTo, evbuf!Lock, P!Lock, evbuf!Unlock, P!Unlock,
       evbuf!Filled, P!Filled, evbuf!Torn, P!Torn, evbuf!counter, P!counter, evbuf!locks,
       P!locks, evbuf!content, P!content, evbuf!locals, P!locals, evbuf!Threads,
       P!Threads, evbuf!ReaderResumes, P!ReaderResumes, evbuf!WaitWrite, P!WaitWrite,
       evbuf!ReadLock, P!ReadLock, evbuf!SpuriousWake, P!SpuriousWake, evbuf!CountIn,
       P!CountIn, evbuf!Check, P!Check, evbuf!Block, P!Block, evbuf!Reacquire,
       P!Reacquire, evbuf!CountOut, P!CountOut, evbuf!ReturnInfo, P!ReturnInfo,
       evbuf!ReadCopy, P!ReadCopy, evbuf!waiters_count_!Inc, P!waiters_count_!Inc,
       evbuf!waiters_count_!Dec, P!waiters_count_!Dec, evbuf!waiters_count_!Lock,
       P!waiters_count_!Lock, evbuf!waiters_count_!GoTo, P!waiters_count_!GoTo

LEMMA WriterSteps ==
  ASSUME NEW w
  PROVE  /\ evbuf!WriterResumes(w) => P!WriterResumes(w)
         /\ evbuf!DrainWakes(w) => P!DrainWakes(w)
         /\ \A o, s : evbuf!Write(w, o, s) => P!Write(w, o, s)
BY CounterSteps, Zenon
   DEF evbuf!At, P!At, evbuf!GoTo, P!GoTo, evbuf!Lock, P!Lock, evbuf!Unlock, P!Unlock,
       evbuf!Filled, P!Filled, evbuf!Torn, P!Torn, evbuf!counter, P!counter, evbuf!locks,
       P!locks, evbuf!content, P!content, evbuf!locals, P!locals, evbuf!Threads,
       P!Threads, evbuf!WriterResumes, P!WriterResumes, evbuf!DrainWakes, P!DrainWakes,
       evbuf!Write, P!Write, evbuf!LockToPublish, P!LockToPublish, evbuf!CopyIn, P!CopyIn,
       evbuf!Publish, P!Publish, evbuf!NotifyAll, P!NotifyAll, evbuf!Drain, P!Drain,
       evbuf!LockToReset, P!LockToReset, evbuf!Reset, P!Reset, evbuf!Release, P!Release,
       evbuf!waiters_count_!WaitValue, P!waiters_count_!WaitValue,
       evbuf!waiters_count_!SpuriousWake, P!waiters_count_!SpuriousWake,
       evbuf!waiters_count_!Lock, P!waiters_count_!Lock, evbuf!waiters_count_!GoTo,
       P!waiters_count_!GoTo

LEMMA BufferStep ==
  ASSUME [Next]_vars, write_pos \in Nat
  PROVE  [P!Next]_(P!vars)
<1>1. CASE UNCHANGED buffer
  BY <1>1 DEF buffer, P!vars, P!counter, P!locks, P!content, P!locals
<1>2. ASSUME NEW r \in Readers, Reader(r) PROVE P!Next \/ UNCHANGED buffer
  BY <1>2, ReaderSteps, Zenon
     DEF Reader, ReaderEnters, ReaderWaits, ReaderReads, ReaderAsserts, ReaderLeaves, P!Next
<1>3. CASE WriterStep
  <2>1. CASE WriterWrites
    <3>1. write_pos \in 0..LastRegion /\ 1 \in {0, 1}
      BY <2>1, DemoAssumption DEF WriterWrites
    <3>2. P!Write(Writer, write_pos, 1)
      BY <2>1, WriterSteps, Zenon DEF WriterWrites
    <3> QED BY <3>1, <3>2, Zenon DEF P!Next
  <2> QED BY <1>1, <1>3, <2>1, Zenon DEF WriterStep, WriterLeaves
<1>4. CASE MainStep
  <2>1. CASE MainWrites
    <3>1. 0 \in 0..LastRegion /\ 0 \in {0, 1}
      BY DemoAssumption
    <3>2. P!Write(Main, 0, 0)
      BY <2>1, WriterSteps, Zenon DEF MainWrites
    <3> QED BY <3>1, <3>2, Zenon DEF P!Next
  <2>2. CASE MainFinishes \/ MainJoinsReaders
    BY <1>1, <2>2, Zenon DEF MainFinishes, MainJoinsReaders, buffer
  <2> QED BY <1>4, <2>1, <2>2, Zenon DEF MainStep
<1>5. ASSUME NEW t \in Threads, InBuffer(t) \/ Wakes(t) PROVE P!Next
  BY <1>5, ReaderSteps, WriterSteps, Zenon DEF InBuffer, Wakes, Threads, P!Next
<1>6. Next \/ UNCHANGED buffer
  BY Zenon DEF vars
<1> QED BY <1>1, <1>2, <1>3, <1>4, <1>5, <1>6, Zenon DEF Next

-----------------------------------------------------------------------------
(* What the demo adds to the invariant of the buffer.                      *)

\* The number of main's write, after one for each offset of the writer.
LastWrite == LastRegion + 2

Unpublished == {"lock_publish", "copy_in", "publish"}

\* Where the threads of the demo are while they are inside the buffer.
WhereInv ==
  /\ at \in [Threads -> {"while", "wait", "assert", "join_writer", "last_write",
                         "join_readers", "done"}]
  /\ \A r \in Readers : pc[r] # "idle" => at[r] = "assert"
  /\ at[Writer] \in {"while", "done"}
  /\ at[Writer] = "done" => pc[Writer] = "idle" /\ write_pos = LastRegion + 1
  /\ at[Main] \in {"join_writer", "last_write", "join_readers", "done"}
  /\ at[Main] # "join_writer" => at[Writer] = "done"
  /\ pc[Main] # "idle" => at[Main] = "join_readers"

\* The writer's writes are numbered by their offsets, and main's comes last.
NumberInv ==
  /\ write_pos \in 0..LastRegion + 1
  /\ request[Main] = [offset |-> 0, size |-> 0]
  /\ IF write_pos = 0
     THEN request[Writer] = [offset |-> 0, size |-> 0] /\ pc[Writer] = "idle"
     ELSE request[Writer] = [offset |-> write_pos - 1, size |-> 1]
  /\ writes = IF pc[Writer] \in Unpublished THEN write_pos - 1
              ELSE IF at[Main] \in {"join_readers", "done"} /\ pc[Main] \notin Unpublished
                   THEN LastWrite
              ELSE write_pos

\* Each offset holds its own write or none, and what the buffer and the
\* readers say of a write is where it is.
PlaceInv ==
  /\ \A o \in 0..LastRegion : data_[o] \in {P!Junk, P!Torn, o + 1}
  /\ (\A w \in {Writer, Main} : pc[w] # "publish") /\ writes \in 1..LastRegion + 1
       => last_write_info_.offset = writes - 1 /\ last_write_info_.size = 1
  /\ \A r \in Readers :
       info[r].write \in 1..LastRegion + 1
         => info[r].offset = info[r].write - 1 /\ info[r].size = 1

\* Who has left wait_write was told of a write, and who has left read has it.
ToldInv ==
  \A r \in Readers :
    /\ pc[r] \in {"told", "copy_out"} => info[r].write > 0
    /\ at[r] = "assert" /\ pc[r] = "idle"
         => info[r].write > 0 /\ (info[r].write < LastWrite => dst[r] = info[r].write)

Facts == P!Control /\ P!Draining /\ P!Memory
HoldInv == Facts /\ WhereInv /\ NumberInv /\ PlaceInv /\ ToldInv

LEMMA InitHold == Init => WhereInv /\ NumberInv /\ PlaceInv /\ ToldInv
BY DemoAssumption
   DEF Init, evbuf!Init, evbuf!Threads, evbuf!Junk, Threads, WhereInv, NumberInv, PlaceInv, ToldInv,
       P!Junk, P!Torn, LastWrite, Unpublished

\* The reader's own statements.
LEMMA ReaderOwn ==
  ASSUME HoldInv, NEW r \in Readers, ReaderEnters(r) \/ ReaderAsserts(r) \/ ReaderLeaves(r)
  PROVE  WhereInv' /\ NumberInv' /\ PlaceInv' /\ ToldInv'
BY DemoAssumption
   DEF HoldInv, ReaderEnters, ReaderAsserts, ReaderLeaves, GoTo, At, evbuf!At, buffer, Threads,
       WhereInv, NumberInv, PlaceInv, ToldInv

\* What a write leaves behind in the buffer.
content == <<last_write_info_, data_, writes>>

\* A step of a thread that gets to label l of the buffer and leaves what is
\* written there alone.
Inside(t, l) ==
  /\ pc' = [pc EXCEPT ![t] = l]
  /\ UNCHANGED <<content, finish, write_pos, request, info, dst>>

\* A step that leaves all of that, and where the threads stand, alone.
LEMMA SameKeeps ==
  ASSUME HoldInv, UNCHANGED <<content, at, write_pos, request, info, dst, pc>>
  PROVE  WhereInv' /\ NumberInv' /\ PlaceInv' /\ ToldInv'
BY DEF HoldInv, content, WhereInv, NumberInv, PlaceInv, ToldInv

\* A reader on its way through wait_write or to read.
LEMMA ReaderInside ==
  ASSUME HoldInv, NEW r \in Readers, NEW l,
         Inside(r, l), l \in P!ReaderPc \ {"idle", "told"},
         l = "copy_out" => pc[r] = "told",
         \/ at[r] = "wait" /\ at' = [at EXCEPT ![r] = "assert"]
         \/ pc[r] # "idle" /\ at' = at
  PROVE  WhereInv' /\ NumberInv' /\ PlaceInv' /\ ToldInv'
<1>1. pc \in [Threads -> P!ReaderPc \cup P!WriterPc] /\ r # Writer /\ r # Main
  BY DemoAssumption DEF HoldInv, Facts, P!Control, P!TypeOK, Threads, P!Threads, P!ReaderPc, P!WriterPc
<1> QED
  BY <1>1, DemoAssumption
     DEF HoldInv, Inside, content, Threads, P!ReaderPc, Unpublished,
         WhereInv, NumberInv, PlaceInv, ToldInv

\* wait_write returns what the open write is.
LEMMA ReaderReturns ==
  ASSUME HoldInv, NEW r \in Readers, evbuf!ReturnInfo(r), UNCHANGED <<at, finish, write_pos>>
  PROVE  WhereInv' /\ NumberInv' /\ PlaceInv' /\ ToldInv'
<1>1. /\ pc \in [Threads -> P!ReaderPc \cup P!WriterPc] /\ r # Writer /\ r # Main
      /\ info \in [Readers -> P!Info]
  BY DemoAssumption DEF HoldInv, Facts, P!Control, P!TypeOK, Threads, P!Threads, P!ReaderPc, P!WriterPc
<1>2. pc[r] = "return" /\ pc' = [pc EXCEPT ![r] = "told"] /\ info' = [info EXCEPT ![r] = last_write_info_]
  BY DEF evbuf!ReturnInfo, evbuf!At, evbuf!GoTo
<1>3. UNCHANGED <<data_, last_write_info_, writes, request, dst, at, write_pos>>
  BY DEF evbuf!ReturnInfo, evbuf!content
<1>4. \A w \in {Writer, Main} : pc[w] # "publish"
  BY <1>2, DemoAssumption DEF HoldInv, Facts, P!Control, P!MutexInv, P!HoldingWait, P!Threads
<1>5. PICK w \in {Writer, Main} : pc[w] \in {"notify", "drain", "lock_reset", "reset"}
  BY <1>2 DEF HoldInv, Facts, P!Draining
<1>6. writes > 0 /\ writes \in Nat
  BY <1>5, DemoAssumption DEF HoldInv, WhereInv, NumberInv, Unpublished, LastWrite
<1>7. last_write_info_.write = writes
  BY <1>4 DEF HoldInv, Facts, P!Memory, P!LastInv
<1>8. WhereInv' /\ NumberInv'
  BY <1>1, <1>2, <1>3 DEF HoldInv, WhereInv, NumberInv, Unpublished, Threads
<1>9. PlaceInv'
  BY <1>1, <1>2, <1>3, <1>4, <1>7, DemoAssumption DEF HoldInv, PlaceInv, Threads
<1>10. ToldInv'
  BY <1>1, <1>2, <1>3, <1>6, <1>7, DemoAssumption DEF HoldInv, ToldInv, Threads
<1> QED BY <1>8, <1>9, <1>10

\* read copies the write it was told of: its region holds no other one.
LEMMA ReaderCopies ==
  ASSUME HoldInv, NEW r \in Readers, P!ReadsWhatItWasTold, evbuf!ReadCopy(r),
         UNCHANGED <<at, finish, write_pos>>
  PROVE  WhereInv' /\ NumberInv' /\ PlaceInv' /\ ToldInv'
<1>1. /\ pc \in [Threads -> P!ReaderPc \cup P!WriterPc] /\ r # Writer /\ r # Main
      /\ info[r] \in P!Info
      /\ dst \in [Readers -> P!Torn..LastWrite]
  BY DemoAssumption DEF HoldInv, Facts, P!Control, P!TypeOK, Threads, P!Threads, P!ReaderPc, P!WriterPc, LastWrite
<1>2. pc[r] = "copy_out" /\ pc' = [pc EXCEPT ![r] = "idle"]
  BY DEF evbuf!ReadCopy, evbuf!At, evbuf!GoTo
<1>3. /\ UNCHANGED <<data_, last_write_info_, writes, request, info, at, write_pos>>
      /\ dst' = IF info[r].size = 0 THEN dst ELSE [dst EXCEPT ![r] = data_[info[r].offset]]
  BY DEF evbuf!ReadCopy, evbuf!content
<1>4. WhereInv' /\ NumberInv' /\ PlaceInv'
  BY <1>1, <1>2, <1>3 DEF HoldInv, WhereInv, NumberInv, PlaceInv, Unpublished, Threads
<1>5. info[r].write > 0
  BY <1>2 DEF HoldInv, ToldInv
<1>6. ASSUME info[r].write < LastWrite PROVE dst'[r] = info[r].write
  <2>1. info[r].offset = info[r].write - 1 /\ info[r].size = 1 /\ info[r].offset \in 0..LastRegion
    BY <1>1, <1>5, <1>6, DemoAssumption DEF HoldInv, PlaceInv, P!Info, LastWrite
  <2>2. data_[info[r].offset] >= info[r].write
    BY <1>2, <2>1 DEF P!ReadsWhatItWasTold
  <2>3. data_[info[r].offset] = info[r].write
    BY <1>1, <1>5, <2>1, <2>2 DEF HoldInv, PlaceInv, P!Info, P!Junk, P!Torn
  <2> QED BY <1>1, <1>3, <2>1, <2>3
<1>7. \A s \in Readers : s # r => dst'[s] = dst[s] /\ pc'[s] = pc[s]
  BY <1>1, <1>2, <1>3
<1>8. ToldInv'
  BY <1>1, <1>2, <1>3, <1>5, <1>6, <1>7 DEF HoldInv, ToldInv, Threads
<1> QED BY <1>4, <1>8

\* All the steps of a reader.
LEMMA ReaderKeeps ==
  ASSUME HoldInv, P!ReadsWhatItWasTold, NEW r \in Readers,
         Reader(r) \/ InBuffer(r) \/ Wakes(r)
  PROVE  WhereInv' /\ NumberInv' /\ PlaceInv' /\ ToldInv'
<1> USE DEF evbuf!At, evbuf!GoTo, evbuf!counter, evbuf!locks, evbuf!content, evbuf!locals,
            content, Inside, P!ReaderPc
<1>1. CASE ReaderEnters(r) \/ ReaderAsserts(r) \/ ReaderLeaves(r)
  BY <1>1, ReaderOwn
<1>2. CASE ReaderWaits(r)
  <2>1. Inside(r, "count_in") /\ at[r] = "wait" /\ at' = [at EXCEPT ![r] = "assert"]
    BY <1>2 DEF ReaderWaits, At, GoTo, evbuf!WaitWrite
  <2> QED BY <2>1, ReaderInside
<1>3. CASE ReaderReads(r)
  <2>1. Inside(r, "copy_out") /\ pc[r] = "told" /\ at' = at
    BY <1>3 DEF ReaderReads, evbuf!ReadLock
  <2> QED BY <2>1, ReaderInside
<1>4. CASE Wakes(r)
  <2>1. Inside(r, "awake") /\ pc[r] = "asleep" /\ at' = at
    BY <1>4 DEF Wakes, evbuf!SpuriousWake
  <2> QED BY <2>1, ReaderInside
<1>5. CASE InBuffer(r)
  <2>1. evbuf!ReaderResumes(r) /\ UNCHANGED <<at, finish, write_pos>>
    BY <1>5 DEF InBuffer
  <2>2. CASE evbuf!ReturnInfo(r)
    BY <2>1, <2>2, ReaderReturns
  <2>3. CASE evbuf!ReadCopy(r)
    BY <2>1, <2>3, ReaderCopies
  <2>4. CASE evbuf!InCounter(r)
    <3>1. UNCHANGED <<content, at, finish, write_pos, request, info, dst, pc>>
      BY <2>1, <2>4 DEF evbuf!InCounter
    <3> QED BY <3>1, SameKeeps
  <2>5. CASE evbuf!CountIn(r) \/ evbuf!Check(r) \/ evbuf!Block(r) \/ evbuf!Reacquire(r) \/ evbuf!CountOut(r)
    <3>1. PICK l \in {"check", "count_out", "block", "asleep", "return"} : Inside(r, l)
      BY <2>1, <2>5 DEF evbuf!CountIn, evbuf!Check, evbuf!Block, evbuf!Reacquire, evbuf!CountOut
    <3>2. pc[r] # "idle"
      BY <2>5 DEF evbuf!CountIn, evbuf!Check, evbuf!Block, evbuf!Reacquire, evbuf!CountOut
    <3> QED BY <2>1, <3>1, <3>2, ReaderInside
  <2> QED BY <2>1, <2>2, <2>3, <2>4, <2>5 DEF evbuf!ReaderResumes
<1> QED BY <1>1, <1>2, <1>3, <1>4, <1>5 DEF Reader

\* The writer's and main's own statements, and their calls of write.
LEMMA WriterOwn ==
  ASSUME HoldInv, WriterStep \/ MainStep
  PROVE  WhereInv' /\ NumberInv' /\ PlaceInv' /\ ToldInv'
<1>1. pc \in [Threads -> P!ReaderPc \cup P!WriterPc] /\ request \in [{Writer, Main} -> P!Request]
  BY DEF HoldInv, Facts, P!Control, P!TypeOK, Threads, P!Threads, P!ReaderPc, P!WriterPc
<1> USE DemoAssumption
    DEF HoldInv, Threads, At, GoTo, evbuf!At, evbuf!GoTo, WhereInv, NumberInv, PlaceInv, ToldInv,
        Unpublished, LastWrite
<1>2. CASE WriterLeaves \/ MainFinishes \/ MainJoinsReaders
  BY <1>2 DEF WriterLeaves, MainFinishes, MainJoinsReaders, buffer
<1>3. CASE WriterWrites
  <2>1. /\ pc[Writer] = "idle" /\ pc' = [pc EXCEPT ![Writer] = "lock_publish"]
        /\ request' = [request EXCEPT ![Writer] = [offset |-> write_pos, size |-> 1]]
        /\ at[Writer] = "while" /\ write_pos =< LastRegion /\ write_pos' = write_pos + 1
        /\ UNCHANGED <<at, content, info, dst>>
    BY <1>3 DEF WriterWrites, evbuf!Write, evbuf!content, content
  <2>2. at[Main] = "join_writer"
    BY <2>1
  <2> QED BY <1>1, <2>1, <2>2 DEF content
<1>4. CASE MainWrites
  <2>1. /\ pc[Main] = "idle" /\ pc' = [pc EXCEPT ![Main] = "lock_publish"]
        /\ request' = [request EXCEPT ![Main] = [offset |-> 0, size |-> 0]]
        /\ at[Main] = "last_write" /\ at' = [at EXCEPT ![Main] = "join_readers"]
        /\ UNCHANGED <<write_pos, content, info, dst>>
    BY <1>4 DEF MainWrites, evbuf!Write, evbuf!content, content
  <2> QED BY <1>1, <2>1 DEF content
<1> QED BY <1>2, <1>3, <1>4 DEF WriterStep, MainStep

\* A write's steps that write nothing but where it stands.
LEMMA WriterInside ==
  ASSUME HoldInv, NEW w \in {Writer, Main}, NEW l,
         Inside(w, l), l \in P!WriterPc \ {"publish"}, at' = at,
         pc[w] # "idle", pc[w] # "publish",
         pc[w] \in Unpublished <=> l \in Unpublished
  PROVE  WhereInv' /\ NumberInv' /\ PlaceInv' /\ ToldInv'
<1>1. pc \in [Threads -> P!ReaderPc \cup P!WriterPc] /\ w \notin Readers /\ Writer # Main
  BY DemoAssumption DEF HoldInv, Facts, P!Control, P!TypeOK, Threads, P!Threads, P!ReaderPc, P!WriterPc
<1> QED
  BY <1>1, DemoAssumption
     DEF HoldInv, Inside, content, Threads, P!WriterPc, Unpublished, LastWrite,
         WhereInv, NumberInv, PlaceInv, ToldInv

\* While the memcpy is at work its region is torn.
LEMMA WriterCopies ==
  ASSUME HoldInv, NEW w \in {Writer, Main}, evbuf!CopyIn(w), UNCHANGED <<at, finish, write_pos>>
  PROVE  WhereInv' /\ NumberInv' /\ PlaceInv' /\ ToldInv'
<1>1. /\ pc \in [Threads -> P!ReaderPc \cup P!WriterPc] /\ w \notin Readers /\ Writer # Main
      /\ data_ \in [0..LastRegion -> P!Torn..LastWrite]
  BY DemoAssumption DEF HoldInv, Facts, P!Control, P!TypeOK, Threads, P!Threads, P!ReaderPc, P!WriterPc, LastWrite
<1>2. /\ pc[w] = "copy_in" /\ pc' = [pc EXCEPT ![w] = "publish"]
      /\ data_' = IF request[w].size = 0 THEN data_ ELSE [data_ EXCEPT ![request[w].offset] = P!Torn]
      /\ UNCHANGED <<writes, request, info, dst, at, write_pos>>
  BY DEF evbuf!CopyIn, evbuf!At, evbuf!GoTo, evbuf!Filled, evbuf!locals, evbuf!Torn, P!Torn
<1>3. PlaceInv'
  BY <1>1, <1>2 DEF HoldInv, PlaceInv, Threads
<1>4. WhereInv' /\ NumberInv' /\ ToldInv'
  BY <1>1, <1>2, DemoAssumption DEF HoldInv, WhereInv, NumberInv, ToldInv, Unpublished, Threads
<1> QED BY <1>3, <1>4

\* A published write is at its place and described by last_write_info_.
LEMMA WriterPublishes ==
  ASSUME HoldInv, NEW w \in {Writer, Main}, evbuf!Publish(w), UNCHANGED <<at, finish, write_pos>>
  PROVE  WhereInv' /\ NumberInv' /\ PlaceInv' /\ ToldInv'
<1>1. /\ pc \in [Threads -> P!ReaderPc \cup P!WriterPc] /\ w \notin Readers /\ Writer # Main
      /\ data_ \in [0..LastRegion -> P!Torn..LastWrite]
  BY DemoAssumption DEF HoldInv, Facts, P!Control, P!TypeOK, Threads, P!Threads, P!ReaderPc, P!WriterPc, LastWrite
<1>2. /\ pc[w] = "publish" /\ pc' = [pc EXCEPT ![w] = "notify"] /\ writes' = writes + 1
      /\ data_' = IF request[w].size = 0 THEN data_ ELSE [data_ EXCEPT ![request[w].offset] = writes + 1]
      /\ UNCHANGED <<last_write_info_, request, info, dst, at, write_pos>>
  BY DEF evbuf!Publish, evbuf!At, evbuf!GoTo, evbuf!Filled, evbuf!locals
<1>3. \A v \in {Writer, Main} : v # w => pc[v] \notin Unpublished
  BY <1>2, DemoAssumption DEF HoldInv, Facts, P!Control, P!MutexInv, P!HoldingData, P!Threads, Unpublished
<1>4. last_write_info_.offset = request[w].offset /\ last_write_info_.size = request[w].size
  BY <1>2, <1>3 DEF HoldInv, Facts, P!Memory, P!LastInv, Unpublished
<1>5. \/ w = Writer /\ write_pos > 0 /\ writes' = write_pos
            /\ request[w] = [offset |-> write_pos - 1, size |-> 1]
            /\ at[Main] = "join_writer"
      \/ w = Main /\ writes' = LastWrite /\ request[w].size = 0 /\ at[Writer] = "done" /\ at[Main] = "join_readers"
  BY <1>1, <1>2, <1>3, DemoAssumption DEF HoldInv, WhereInv, NumberInv, Unpublished, LastWrite
<1>6. WhereInv' /\ NumberInv'
  BY <1>1, <1>2, <1>3, <1>5, DemoAssumption DEF HoldInv, WhereInv, NumberInv, Unpublished, Threads
<1>7. PlaceInv'
  BY <1>1, <1>2, <1>4, <1>5, DemoAssumption DEF HoldInv, PlaceInv, NumberInv, Threads, LastWrite
<1>8. ToldInv'
  BY <1>1, <1>2 DEF HoldInv, ToldInv, Threads
<1> QED BY <1>6, <1>7, <1>8

\* A write ends: the next one starts where it said.
LEMMA WriterReleases ==
  ASSUME HoldInv, NEW w \in {Writer, Main}, evbuf!Release(w), UNCHANGED <<at, finish, write_pos>>
  PROVE  WhereInv' /\ NumberInv' /\ PlaceInv' /\ ToldInv'
<1>1. Inside(w, "idle") /\ pc[w] = "release"
  BY DEF evbuf!Release, Inside, evbuf!At, evbuf!GoTo, evbuf!content, evbuf!locals, content
<1> QED BY <1>1, WriterInside DEF Unpublished, P!WriterPc

\* The readers that are woken are still in wait_write.
LEMMA WriterNotifies ==
  ASSUME HoldInv, NEW w \in {Writer, Main}, evbuf!NotifyAll(w), UNCHANGED <<at, finish, write_pos>>
  PROVE  WhereInv' /\ NumberInv' /\ PlaceInv' /\ ToldInv'
<1>1. /\ pc \in [Threads -> P!ReaderPc \cup P!WriterPc] /\ w \notin Readers /\ Writer # Main
      /\ write_wait_cond_ = {r \in Readers : pc[r] = "asleep"}
  BY DemoAssumption DEF HoldInv, Facts, P!Control, P!TypeOK, P!CondInv, Threads, P!Threads, P!ReaderPc, P!WriterPc
<1>2. /\ pc[w] = "notify"
      /\ pc' = [t \in Threads |-> IF t \in write_wait_cond_ THEN "awake"
                                  ELSE IF t = w THEN "drain" ELSE pc[t]]
      /\ UNCHANGED <<content, request, info, dst, at, write_pos>>
  BY DEF evbuf!NotifyAll, evbuf!At, evbuf!Threads, Threads, evbuf!content, evbuf!locals, content
<1>3. /\ \A r \in Readers : pc'[r] = pc[r] \/ (pc[r] = "asleep" /\ pc'[r] = "awake")
      /\ \A v \in {Writer, Main} : pc'[v] = pc[v] \/ (pc[v] = "notify" /\ pc'[v] = "drain")
  <2>1. \A t \in Threads : pc'[t] = IF t \in write_wait_cond_ THEN "awake"
                                     ELSE IF t = w THEN "drain" ELSE pc[t]
    BY <1>2
  <2>2. \A r \in Readers : r # w /\ r \in Threads
    BY <1>1 DEF Threads
  <2>3. \A v \in {Writer, Main} : v \notin write_wait_cond_ /\ v \in Threads
    BY <1>1, DemoAssumption DEF Threads
  <2>4. \A v \in {Writer, Main} : pc'[v] = pc[v] \/ (pc[v] = "notify" /\ pc'[v] = "drain")
    BY <1>2, <2>1, <2>3
  <2>5. \A r \in Readers : pc'[r] = pc[r] \/ (pc[r] = "asleep" /\ pc'[r] = "awake")
    BY <1>1, <2>1, <2>2
  <2> QED BY <2>4, <2>5
<1>4. /\ \A v \in {Writer, Main} :
           /\ pc'[v] = "idle" <=> pc[v] = "idle"
           /\ pc'[v] = "publish" <=> pc[v] = "publish"
           /\ pc'[v] \in Unpublished <=> pc[v] \in Unpublished
      /\ \A r \in Readers :
           /\ pc'[r] = "idle" <=> pc[r] = "idle"
           /\ pc'[r] \in {"told", "copy_out"} <=> pc[r] \in {"told", "copy_out"}
  BY <1>3 DEF Unpublished
<1>5. WhereInv'
  BY <1>2, <1>4 DEF HoldInv, WhereInv
<1>6. NumberInv'
  BY <1>2, <1>4 DEF HoldInv, NumberInv, content
<1>7. PlaceInv'
  BY <1>2, <1>4 DEF HoldInv, PlaceInv, content
<1>8. ToldInv'
  BY <1>2, <1>4 DEF HoldInv, ToldInv
<1> QED BY <1>5, <1>6, <1>7, <1>8

\* All the steps of the writer and of main.
LEMMA WriterKeeps ==
  ASSUME HoldInv, NEW w \in {Writer, Main}, InBuffer(w) \/ Wakes(w)
  PROVE  WhereInv' /\ NumberInv' /\ PlaceInv' /\ ToldInv'
<1> USE DEF evbuf!At, evbuf!GoTo, evbuf!counter, evbuf!locks, evbuf!content, evbuf!locals,
            content, Inside, P!WriterPc
<1>1. w \notin Readers
  BY DemoAssumption
<1>2. CASE Wakes(w)
  <2>1. UNCHANGED <<content, at, write_pos, request, info, dst, pc>>
    BY <1>1, <1>2 DEF Wakes, evbuf!DrainWakes
  <2> QED BY <2>1, SameKeeps
<1>3. CASE InBuffer(w)
  <2>1. evbuf!WriterResumes(w) /\ UNCHANGED <<at, finish, write_pos>>
    BY <1>1, <1>3 DEF InBuffer
  <2>2. CASE evbuf!CopyIn(w)
    BY <2>1, <2>2, WriterCopies
  <2>3. CASE evbuf!Publish(w)
    BY <2>1, <2>3, WriterPublishes
  <2>4. CASE evbuf!Release(w)
    BY <2>1, <2>4, WriterReleases
  <2>5. CASE evbuf!NotifyAll(w)
    BY <2>1, <2>5, WriterNotifies
  <2>6. CASE evbuf!InCounter(w)
    <3>1. UNCHANGED <<content, at, write_pos, request, info, dst, pc>>
      BY <2>1, <2>6 DEF evbuf!InCounter
    <3> QED BY <3>1, SameKeeps
  <2>7. CASE evbuf!LockToPublish(w)
    <3>1. Inside(w, "copy_in") /\ pc[w] = "lock_publish"
      BY <2>1, <2>7 DEF evbuf!LockToPublish
    <3> QED BY <2>1, <3>1, WriterInside DEF Unpublished
  <2>8. CASE evbuf!Drain(w) \/ evbuf!LockToReset(w) \/ evbuf!Reset(w)
    <3>1. PICK l \in {"lock_reset", "reset", "release"} : Inside(w, l)
      BY <2>1, <2>8 DEF evbuf!Drain, evbuf!LockToReset, evbuf!Reset
    <3>2. pc[w] \in {"drain", "lock_reset", "reset"}
      BY <2>8 DEF evbuf!Drain, evbuf!LockToReset, evbuf!Reset
    <3> QED BY <2>1, <3>1, <3>2, WriterInside DEF Unpublished
  <2> QED BY <2>1, <2>2, <2>3, <2>4, <2>5, <2>6, <2>7, <2>8 DEF evbuf!WriterResumes
<1> QED BY <1>2, <1>3

-----------------------------------------------------------------------------
(* The inductive invariant, and the property it implies.                   *)

IInv == P!IInv /\ WhereInv /\ NumberInv /\ PlaceInv /\ ToldInv

LEMMA InitIInv == Init => IInv
<1>1. Init => P!IInv
  BY BufferInit, BufferAssumptions, P!InitIInv DEF Init
<1> QED
  BY <1>1, InitHold DEF IInv

LEMMA NextIInv == IInv /\ [Next]_vars => IInv'
<1> SUFFICES ASSUME IInv, [Next]_vars PROVE IInv'
  OBVIOUS
<1>1. P!IInv'
  <2>1. write_pos \in Nat
    BY DemoAssumption DEF IInv, NumberInv
  <2> QED BY <2>1, BufferStep, BufferAssumptions, P!NextIInv DEF IInv
<1>2. HoldInv /\ P!ReadsWhatItWasTold
  BY BufferAssumptions, P!IInvImpliesWhole DEF IInv, P!IInv, HoldInv, Facts
<1>3. CASE UNCHANGED vars
  <2>1. UNCHANGED <<content, at, write_pos, request, info, dst, pc>>
    BY <1>3 DEF vars, buffer, content
  <2>2. WhereInv' /\ NumberInv' /\ PlaceInv' /\ ToldInv'
    BY <1>2, <2>1, SameKeeps
  <2> QED BY <1>1, <2>2 DEF IInv
<1>4. ASSUME Next PROVE WhereInv' /\ NumberInv' /\ PlaceInv' /\ ToldInv'
  BY <1>2, <1>4, ReaderKeeps, WriterOwn, WriterKeeps DEF Next, Threads
<1> QED
  BY <1>1, <1>3, <1>4 DEF IInv

(***************************************************************************)
(* For any number of readers and of offsets, and however the writer runs   *)
(* ahead of a reader that is yet to read: a reader that was told of one of *)
(* the writer's writes holds that very write at its assert, and no write   *)
(* passes the end of the buffer (main.cpp, run_evented_buffer).            *)
(***************************************************************************)
THEOREM ReadersHoldTheirWrites == Spec => []HoldsTheWriteItWasTold
<1>1. IInv => HoldsTheWriteItWasTold
  <2> SUFFICES ASSUME IInv PROVE HoldsTheWriteItWasTold
    OBVIOUS
  <2>1. \A r \in Readers : At(r, "assert") /\ info[r].write < LastRegion + 2 => dst[r] = info[r].write
    BY DEF IInv, ToldInv, At, evbuf!At, LastWrite
  <2>2. \A w \in {Writer, Main} : request[w].offset + request[w].size =< LastRegion + 1
    BY DemoAssumption DEF IInv, NumberInv
  <2> QED BY <2>1, <2>2 DEF HoldsTheWriteItWasTold
<1> QED
  BY <1>1, InitIInv, NextIInv, PTL DEF Spec
=============================================================================
