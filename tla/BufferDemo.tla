----------------------------- MODULE BufferDemo -----------------------------
(***************************************************************************)
(* run_evented_buffer of producer_consumer: a writer thread writes the     *)
(* string write_data to one offset after another, readers wait for writes  *)
(* and read them until finish is set, and main joins the writer, sets      *)
(* finish, wakes the readers with a write of size 0 and joins them.        *)
(*                                                                         *)
(* The buffer is the instance evbuf of EventedBuffer; its steps are taken  *)
(* from there, and the actions here are the calls the threads make and     *)
(* their own steps.  The logging under log_mutex is left out, as in        *)
(* CounterDemo.                                                            *)
(***************************************************************************)
EXTENDS Integers, FiniteSets

CONSTANTS
  Readers, Writer, Main, NoThread,
  LastRegion,    \* the writer's last offset; 20 with 12 bytes in 256
  SizeMax,
  MaxSpurious

ASSUME DemoAssumption ==
  /\ Writer \notin Readers \cup {Main}
  /\ Main \notin Readers
  /\ NoThread \notin Readers \cup {Writer, Main}
  /\ LastRegion \in Nat
  /\ MaxSpurious \in Nat
\* The counter of waiters can count the readers.
ASSUME ReadersAssumption ==
  /\ IsFiniteSet(Readers)
  /\ SizeMax \in Nat \ {0}
  /\ Cardinality(Readers) =< SizeMax

VARIABLES
  value_, exit_, value_wait_mutex_, value_wait_cond_, step, target_value,
  spurious, exited, raced, data_mutex_, write_wait_mutex_, write_wait_cond_,
  write_occured_, last_write_info_, data_, pc, request, info, dst, writes,
  at,          \* at[t]: where thread t stands in its function
  finish,      \* the global flag
  write_pos    \* the writer's local, in regions

buffer == <<value_, exit_, value_wait_mutex_, value_wait_cond_, step,
            target_value, spurious, exited, raced, data_mutex_,
            write_wait_mutex_, write_wait_cond_, write_occured_,
            last_write_info_, data_, pc, request, info, dst, writes>>
vars == <<buffer, at, finish, write_pos>>

Threads == Readers \cup {Writer, Main}

evbuf == INSTANCE EventedBuffer WITH
  Writers <- {Writer, Main},
  Regions <- 0..LastRegion,
  MaxWrites <- LastRegion + 2

Init ==
  /\ evbuf!Init
  /\ at = [t \in Threads |-> IF t = Main THEN "join_writer" ELSE "while"]
  /\ finish = FALSE
  /\ write_pos = 0

\* Thread t is at label of its function, outside any call of the buffer.
At(t, label) == at[t] = label /\ evbuf!At(t, "idle")
GoTo(t, label) == at' = [at EXCEPT ![t] = label]

-----------------------------------------------------------------------------
(* reader_func_evented_buffer                                              *)

ReaderEnters(r) ==
  /\ At(r, "while")
  /\ ~finish
  /\ GoTo(r, "wait")
  /\ UNCHANGED <<buffer, finish, write_pos>>

ReaderWaits(r) ==
  /\ At(r, "wait")
  /\ evbuf!WaitWrite(r)
  /\ GoTo(r, "assert")
  /\ UNCHANGED <<finish, write_pos>>

\* wait_write has returned, and the reader goes on with read.
ReaderReads(r) ==
  /\ at[r] = "assert"
  /\ evbuf!ReadLock(r)
  /\ UNCHANGED <<at, finish, write_pos>>

\* The assert, and the line that logs what was read.
ReaderAsserts(r) ==
  /\ At(r, "assert")
  /\ GoTo(r, "while")
  /\ UNCHANGED <<buffer, finish, write_pos>>

ReaderLeaves(r) ==
  /\ At(r, "while")
  /\ finish
  /\ GoTo(r, "done")
  /\ UNCHANGED <<buffer, finish, write_pos>>

-----------------------------------------------------------------------------
(* writer_func_evented_buffer                                              *)

\* A mutant of WriterWrites: every write goes to the same offset.
WriterStaysInPlace ==
  /\ At(Writer, "while")
  /\ write_pos =< LastRegion
  /\ evbuf!Write(Writer, 0, 1)
  /\ write_pos' = write_pos + 1
  /\ UNCHANGED <<at, finish>>

WriterWrites ==
  /\ At(Writer, "while")
  /\ write_pos =< LastRegion
  /\ evbuf!Write(Writer, write_pos, 1)
  /\ write_pos' = write_pos + 1
  /\ UNCHANGED <<at, finish>>

WriterLeaves ==
  /\ At(Writer, "while")
  /\ write_pos > LastRegion
  /\ GoTo(Writer, "done")
  /\ UNCHANGED <<buffer, finish, write_pos>>

-----------------------------------------------------------------------------
(* run_evented_buffer, once the threads run                                *)

\* A mutant of MainFinishes: finish is never stored.
MainForgetsFinish ==
  /\ At(Main, "join_writer")
  /\ at[Writer] = "done"
  /\ GoTo(Main, "last_write")
  /\ UNCHANGED <<buffer, finish, write_pos>>

MainFinishes ==
  /\ At(Main, "join_writer")
  /\ at[Writer] = "done"
  /\ finish' = TRUE
  /\ GoTo(Main, "last_write")
  /\ UNCHANGED <<buffer, write_pos>>

\* write(0, 0, nullptr), the "last readers wakeup".
MainWrites ==
  /\ At(Main, "last_write")
  /\ evbuf!Write(Main, 0, 0)
  /\ GoTo(Main, "join_readers")
  /\ UNCHANGED <<finish, write_pos>>

MainJoinsReaders ==
  /\ At(Main, "join_readers")
  /\ \A r \in Readers : at[r] = "done"
  /\ GoTo(Main, "done")
  /\ UNCHANGED <<buffer, finish, write_pos>>

-----------------------------------------------------------------------------
InBuffer(t) ==
  /\ IF t \in Readers THEN evbuf!ReaderResumes(t) ELSE evbuf!WriterResumes(t)
  /\ UNCHANGED <<at, finish, write_pos>>

Wakes(t) ==
  /\ IF t \in Readers THEN evbuf!SpuriousWake(t) ELSE evbuf!DrainWakes(t)
  /\ UNCHANGED <<at, finish, write_pos>>

Reader(r) ==
  \/ ReaderEnters(r)
  \/ ReaderWaits(r)
  \/ ReaderReads(r)
  \/ ReaderAsserts(r)
  \/ ReaderLeaves(r)
WriterStep == WriterWrites \/ WriterLeaves
MainStep == MainFinishes \/ MainWrites \/ MainJoinsReaders

Next ==
  \/ \E r \in Readers : Reader(r)
  \/ WriterStep
  \/ MainStep
  \/ \E t \in Threads : InBuffer(t) \/ Wakes(t)

\* Each thread runs as long as it can; sleep_for and join end.
Fairness ==
  /\ \A r \in Readers : WF_vars(Reader(r))
  /\ WF_vars(WriterStep)
  /\ WF_vars(MainStep)
  /\ \A t \in Threads : WF_vars(InBuffer(t))

Spec == Init /\ [][Next]_vars /\ Fairness

-----------------------------------------------------------------------------
TypeOK ==
  /\ evbuf!TypeOK
  /\ at \in [Threads -> {"while", "wait", "assert", "join_writer", "last_write",
                         "join_readers", "done"}]
  /\ finish \in BOOLEAN
  /\ write_pos \in 0..LastRegion + 1

\* Past its assert, a reader that was told of one of the writer's writes
\* holds that very write: the writer goes on with the next one as soon as
\* the readers are told, and may be ahead of a reader that is yet to read,
\* but it never comes back to the same offset, nor writes past the end.
\* Told of main's empty write instead, the reader may compare memory that
\* nothing was copied to (main.cpp:238-242).
HoldsTheWriteItWasTold ==
  /\ \A r \in Readers :
       At(r, "assert") /\ info[r].write < LastRegion + 2 => dst[r] = info[r].write
  /\ \A w \in {Writer, Main} : request[w].offset + request[w].size =< LastRegion + 1

\* All writes end, the one that wakes the readers included: main gets to
\* join the readers.
MainReachesLastJoin == <>At(Main, "join_readers")

\* A reader that is told of the last write sees finish and leaves.
LastWriteReleases ==
  \A r \in Readers : info[r].write = LastRegion + 2 ~> at[r] = "done"

\* What the comment at the last write says of it: "last readers wakeup".
\* No reader sleeps in wait_write once that write has returned.
LastWriteWakesReaders ==
  At(Main, "join_readers") => \A r \in Readers : pc[r] # "asleep"
=============================================================================
