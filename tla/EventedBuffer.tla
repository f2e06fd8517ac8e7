---------------------------- MODULE EventedBuffer ----------------------------
(***************************************************************************)
(* evented_buffer_t of producer_consumer: write() publishes what it wrote  *)
(* to the readers blocked in wait_write() and returns once all of them     *)
(* have been told; read() copies out of the buffer.  Readers follow the    *)
(* protocol of the program, wait_write() and then read(), and any number   *)
(* of writers write.                                                       *)
(*                                                                         *)
(* The waiters are counted by the instance waiters_count_ of               *)
(* EventedCounter, whose actions are the steps of its calls.  Mutexes and  *)
(* condition variables are external, as in that module.                    *)
(*                                                                         *)
(* Bytes are abstracted to regions: a write of size 1 fills the region at  *)
(* its offset, one of size 0 fills nothing, and what a region holds is the *)
(* number of the write that filled it.                                     *)
(***************************************************************************)
EXTENDS Integers, FiniteSets

CONSTANTS
  Readers, Writers, NoThread,
  Regions,      \* the offsets writes go to
  MaxWrites,    \* bound: calls of write() in one behaviour
  SizeMax,
  MaxSpurious   \* bound: spurious wake-ups in one behaviour

ASSUME ThreadsAssumption ==
  /\ IsFiniteSet(Readers)
  /\ Readers \cap Writers = {}
  /\ NoThread \notin Readers \cup Writers
ASSUME BoundsAssumption ==
  /\ 0 \in Regions
  /\ MaxWrites \in Nat
  /\ SizeMax \in Nat \ {0}
  /\ Cardinality(Readers) =< SizeMax
  /\ MaxSpurious \in Nat

VARIABLES
  value_, exit_, value_wait_mutex_, value_wait_cond_, step, target_value,
  spurious, exited, raced,       \* waiters_count_
  data_mutex_, write_wait_mutex_,
  write_wait_cond_,
  write_occured_,
  last_write_info_,              \* with the number of the write, a history
  data_,                         \* data_[o]: what region o holds
  pc,                            \* pc[t]: where t stands in its call
  request,                       \* request[w]: the arguments of w's write
  info,                          \* info[r]: what wait_write last returned to r
  dst,                           \* dst[r]: what r's destination buffer holds
  writes                         \* history: the writes published so far

counter == <<value_, exit_, value_wait_mutex_, value_wait_cond_, step,
             target_value, spurious, exited, raced>>
locks == <<data_mutex_, write_wait_mutex_, write_wait_cond_>>
content == <<write_occured_, last_write_info_, data_, writes>>
locals == <<request, info, dst>>
vars == <<counter, locks, content, locals, pc>>

Threads == Readers \cup Writers

waiters_count_ == INSTANCE EventedCounter

Junk == 0       \* memory nothing was written to
Torn == -1      \* memory a memcpy is at work on

Request == [offset : Regions, size : {0, 1}]
Info == [offset : Regions, size : {0, 1}, write : 0..MaxWrites]

Init ==
  /\ waiters_count_!Init
  /\ data_mutex_ = NoThread
  /\ write_wait_mutex_ = NoThread
  /\ write_wait_cond_ = {}
  /\ write_occured_ = FALSE
  /\ last_write_info_ \in [offset : Regions, size : {0, 1}, write : {0}]
  /\ data_ = [o \in Regions |-> Junk]
  /\ pc = [t \in Threads |-> "idle"]
  /\ request = [w \in Writers |-> [offset |-> 0, size |-> 0]]
  /\ info = [r \in Readers |-> [offset |-> 0, size |-> 0, write |-> 0]]
  /\ dst = [r \in Readers |-> Junk]
  /\ writes = 0

At(t, label) == pc[t] = label /\ step[t] = "out"
GoTo(t, label) == pc' = [pc EXCEPT ![t] = label]

Lock(mutex, t) == mutex = NoThread /\ mutex' = t
Unlock(mutex) == mutex' = NoThread

-----------------------------------------------------------------------------
(* wait_write(): lock, count in, wait for write_occured_, count out, copy  *)
(* last_write_info_, unlock.                                               *)

WaitWrite(r) ==
  /\ At(r, "idle")
  /\ Lock(write_wait_mutex_, r)
  /\ GoTo(r, "count_in")
  /\ UNCHANGED <<counter, data_mutex_, write_wait_cond_, content, locals>>

CountIn(r) ==
  /\ At(r, "count_in")
  /\ waiters_count_!Inc(r)
  /\ GoTo(r, "check")
  /\ UNCHANGED <<locks, content, locals>>

Check(r) ==
  /\ At(r, "check")
  /\ GoTo(r, IF write_occured_ THEN "count_out" ELSE "block")
  /\ UNCHANGED <<counter, locks, content, locals>>

Block(r) ==
  /\ At(r, "block")
  /\ Unlock(write_wait_mutex_)
  /\ write_wait_cond_' = write_wait_cond_ \cup {r}
  /\ GoTo(r, "asleep")
  /\ UNCHANGED <<counter, data_mutex_, content, locals>>

SpuriousWake(r) ==
  /\ At(r, "asleep")
  /\ spurious < MaxSpurious
  /\ spurious' = spurious + 1
  /\ write_wait_cond_' = write_wait_cond_ \ {r}
  /\ GoTo(r, "awake")
  /\ UNCHANGED <<value_, exit_, value_wait_mutex_, value_wait_cond_, step,
                 target_value, exited, raced, data_mutex_, write_wait_mutex_,
                 content, locals>>

\* A mutant of Reacquire: an if in the place of the while around the wait.
ReacquireNoRecheck(r) ==
  /\ At(r, "awake")
  /\ Lock(write_wait_mutex_, r)
  /\ GoTo(r, "count_out")
  /\ UNCHANGED <<counter, data_mutex_, write_wait_cond_, content, locals>>

Reacquire(r) ==
  /\ At(r, "awake")
  /\ Lock(write_wait_mutex_, r)
  /\ GoTo(r, "check")
  /\ UNCHANGED <<counter, data_mutex_, write_wait_cond_, content, locals>>

CountOut(r) ==
  /\ At(r, "count_out")
  /\ waiters_count_!Dec(r)
  /\ GoTo(r, "return")
  /\ UNCHANGED <<locks, content, locals>>

ReturnInfo(r) ==
  /\ At(r, "return")
  /\ info' = [info EXCEPT ![r] = last_write_info_]
  /\ Unlock(write_wait_mutex_)
  /\ GoTo(r, "told")
  /\ UNCHANGED <<counter, data_mutex_, write_wait_cond_, content, request, dst>>

-----------------------------------------------------------------------------
(* read(): copy out under data_mutex_.                                     *)

\* A mutant of ReadLock: read() does not take data_mutex_.
ReadWithoutLock(r) ==
  /\ At(r, "told")
  /\ GoTo(r, "copy_out")
  /\ UNCHANGED <<counter, locks, content, locals>>

ReadLock(r) ==
  /\ At(r, "told")
  /\ Lock(data_mutex_, r)
  /\ GoTo(r, "copy_out")
  /\ UNCHANGED <<counter, write_wait_mutex_, write_wait_cond_, content, locals>>

ReadCopy(r) ==
  /\ At(r, "copy_out")
  /\ dst' = IF info[r].size = 0 THEN dst
            ELSE [dst EXCEPT ![r] = data_[info[r].offset]]
  /\ Unlock(data_mutex_)
  /\ GoTo(r, "idle")
  /\ UNCHANGED <<counter, write_wait_mutex_, write_wait_cond_, content,
                 request, info>>

-----------------------------------------------------------------------------
(* write(): publish under both mutexes, notify, wait until no waiter is    *)
(* left, withdraw the write under both mutexes.                            *)

Write(w, offset, size) ==
  /\ At(w, "idle")
  /\ writes < MaxWrites
  /\ Lock(data_mutex_, w)
  /\ request' = [request EXCEPT ![w] = [offset |-> offset, size |-> size]]
  /\ GoTo(w, "lock_publish")
  /\ UNCHANGED <<counter, write_wait_mutex_, write_wait_cond_, content, info, dst>>

LockToPublish(w) ==
  /\ At(w, "lock_publish")
  /\ Lock(write_wait_mutex_, w)
  /\ GoTo(w, "copy_in")
  /\ UNCHANGED <<counter, data_mutex_, write_wait_cond_, content, locals>>

\* data_ after the memcpy of w's write reached stage c.
Filled(w, c) ==
  IF request[w].size = 0 THEN data_
  ELSE [data_ EXCEPT ![request[w].offset] = c]

\* A mutant of CopyIn: the offset and the size swapped.
CopyInSwapped(w) ==
  /\ At(w, "copy_in")
  /\ last_write_info_' = [offset |-> request[w].size,
                          size |-> request[w].offset, write |-> writes + 1]
  /\ data_' = Filled(w, Torn)
  /\ GoTo(w, "publish")
  /\ UNCHANGED <<counter, locks, write_occured_, writes, locals>>

\* last_write_info_ is set, and the memcpy begins.
CopyIn(w) ==
  /\ At(w, "copy_in")
  /\ last_write_info_' = [offset |-> request[w].offset,
                          size |-> request[w].size, write |-> writes + 1]
  /\ data_' = Filled(w, Torn)
  /\ GoTo(w, "publish")
  /\ UNCHANGED <<counter, locks, write_occured_, writes, locals>>

\* The memcpy ends, write_occured_ is set, and write_wait_mutex_ released.
Publish(w) ==
  /\ At(w, "publish")
  /\ data_' = Filled(w, writes + 1)
  /\ write_occured_' = TRUE
  /\ writes' = writes + 1
  /\ Unlock(write_wait_mutex_)
  /\ GoTo(w, "notify")
  /\ UNCHANGED <<counter, data_mutex_, write_wait_cond_, last_write_info_, locals>>

\* A mutant of NotifyAll: notify_one, which wakes one reader if any sleeps.
NotifyOne(w) ==
  /\ At(w, "notify")
  /\ \E woken \in IF write_wait_cond_ = {} THEN {{}} ELSE {{r} : r \in write_wait_cond_} :
       /\ write_wait_cond_' = write_wait_cond_ \ woken
       /\ pc' = [t \in Threads |-> IF t \in woken THEN "awake"
                                   ELSE IF t = w THEN "drain" ELSE pc[t]]
  /\ UNCHANGED <<counter, data_mutex_, write_wait_mutex_, content, locals>>

NotifyAll(w) ==
  /\ At(w, "notify")
  /\ write_wait_cond_' = {}
  /\ pc' = [t \in Threads |-> IF t \in write_wait_cond_ THEN "awake"
                              ELSE IF t = w THEN "drain" ELSE pc[t]]
  /\ UNCHANGED <<counter, data_mutex_, write_wait_mutex_, content, locals>>

\* A mutant of Drain: write() does not wait for the readers.
DrainAtOnce(w) ==
  /\ At(w, "drain")
  /\ GoTo(w, "lock_reset")
  /\ UNCHANGED <<counter, locks, content, locals>>

Drain(w) ==
  /\ At(w, "drain")
  /\ waiters_count_!WaitValue(w, 0)
  /\ GoTo(w, "lock_reset")
  /\ UNCHANGED <<locks, content, locals>>

LockToReset(w) ==
  /\ At(w, "lock_reset")
  /\ Lock(write_wait_mutex_, w)
  /\ GoTo(w, "reset")
  /\ UNCHANGED <<counter, data_mutex_, write_wait_cond_, content, locals>>

\* write_occured_ is cleared; the destructors release the two mutexes.
Reset(w) ==
  /\ At(w, "reset")
  /\ write_occured_' = FALSE
  /\ Unlock(write_wait_mutex_)
  /\ GoTo(w, "release")
  /\ UNCHANGED <<counter, data_mutex_, write_wait_cond_, last_write_info_,
                 data_, writes, locals>>

Release(w) ==
  /\ At(w, "release")
  /\ Unlock(data_mutex_)
  /\ GoTo(w, "idle")
  /\ UNCHANGED <<counter, write_wait_mutex_, write_wait_cond_, content, locals>>

-----------------------------------------------------------------------------
\* A step of a thread inside a call of waiters_count_.
InCounter(t) ==
  /\ waiters_count_!Resume(t)
  /\ UNCHANGED <<locks, content, locals, pc>>

\* The steps of a reader inside wait_write or read, and of a writer inside
\* write.
ReaderResumes(r) ==
  \/ CountIn(r)
  \/ Check(r)
  \/ Block(r)
  \/ Reacquire(r)
  \/ CountOut(r)
  \/ ReturnInfo(r)
  \/ ReadCopy(r)
  \/ InCounter(r)

WriterResumes(w) ==
  \/ LockToPublish(w)
  \/ CopyIn(w)
  \/ Publish(w)
  \/ NotifyAll(w)
  \/ Drain(w)
  \/ LockToReset(w)
  \/ Reset(w)
  \/ Release(w)
  \/ InCounter(w)

\* A writer asleep in wait_value wakes for no reason.
DrainWakes(w) ==
  /\ waiters_count_!SpuriousWake(w)
  /\ UNCHANGED <<locks, content, locals, pc>>

Next ==
  \/ \E r \in Readers :
       WaitWrite(r) \/ ReadLock(r) \/ ReaderResumes(r) \/ SpuriousWake(r)
  \/ \E w \in Writers :
       \/ \E o \in Regions, s \in {0, 1} : Write(w, o, s)
       \/ WriterResumes(w)
       \/ DrainWakes(w)

\* Threads inside a call go on as long as they can.  Nothing obliges a
\* thread to call, not even a reader that was told of a write to read it.
Fairness ==
  /\ \A r \in Readers : WF_vars(ReaderResumes(r))
  /\ \A w \in Writers : WF_vars(WriterResumes(w))

Spec == Init /\ [][Next]_vars /\ Fairness

-----------------------------------------------------------------------------
TypeOK ==
  /\ waiters_count_!TypeOK
  /\ data_mutex_ \in Threads \cup {NoThread}
  /\ write_wait_mutex_ \in Threads \cup {NoThread}
  /\ write_wait_cond_ \subseteq Readers
  /\ write_occured_ \in BOOLEAN
  /\ last_write_info_ \in Info
  /\ data_ \in [Regions -> Torn..MaxWrites]
  /\ pc \in [Threads -> {"idle", "count_in", "check", "block", "asleep",
                         "awake", "count_out", "return", "told", "copy_out",
                         "lock_publish", "copy_in", "publish", "notify",
                         "drain", "lock_reset", "reset", "release"}]
  /\ request \in [Writers -> Request]
  /\ info \in [Readers -> Info]
  /\ dst \in [Readers -> Torn..MaxWrites]
  /\ writes \in 0..MaxWrites

\* The readers inside wait_write.
Waiting == {r \in Readers : pc[r] \in {"count_in", "check", "block", "asleep",
                                       "awake", "count_out", "return"}}

\* When write() withdraws its write, every reader that entered wait_write
\* has left it: none can sleep through the write, or be told of a later one.
DrainedAtReset == \A w \in Writers : pc[w] = "reset" => Waiting = {}

\* A reader reads a whole write: the one wait_write told it of or a later
\* one to the same region, never an older one or a memcpy in progress.
ReadsWhatItWasTold ==
  \A r \in Readers :
    pc[r] = "copy_out" /\ info[r].size > 0
      => data_[info[r].offset] >= info[r].write

\* Each write() that starts ends: the readers drain, and no two threads wait
\* for each other's mutexes.
WritesEnd == \A w \in Writers : pc[w] = "lock_publish" ~> pc[w] = "idle"

\* The buffer implements the broadcast its clients rely on: every waiter is
\* told of a published write before the write ends, once, and nobody is told
\* of the same write twice.
broadcast == INSTANCE WriteBroadcast WITH
  open <- write_occured_,
  current <- writes,
  waiting <- Waiting,
  seen <- [r \in Readers |-> info[r].write]

Broadcasts == broadcast!Spec
=============================================================================
