----------------------------- MODULE DataMonitor -----------------------------
(***************************************************************************)
(* thread_safe_obj/src/thread_safe_obj.h: an object is reached through     *)
(* monitors that carry the lock of its mutex and can be moved, swapped and *)
(* assigned; main.cpp holds two or three of them in one expression.        *)
(***************************************************************************)
EXTENDS Naturals, Sequences, FiniteSets

CONSTANTS
  Threads, NoThread,
  Objects, Null,       \* the thread-safe objects; Null is none of them
  MaxMonitors          \* bound: live monitors of a thread

VARIABLES
  mut_,        \* who has locked the mutex of each object
  wants,       \* the object whose mutex a thread is about to lock
  monitors     \* the live monitors of a thread, in order of construction; history:
               \* mixed if its lock may have come from a monitor of another object

vars == <<mut_, wants, monitors>>

Init ==
  /\ mut_ = [o \in Objects |-> NoThread] /\ wants = [t \in Threads |-> Null]
  /\ monitors = [t \in Threads |-> <<>>]

(* thread_safe_obj::monitor(): locks; the mutex is not recursive. *)
monitor(t, o) ==
  /\ wants[t] = Null /\ Len(monitors[t]) < MaxMonitors
  /\ wants' = [wants EXCEPT ![t] = o]
  /\ UNCHANGED <<mut_, monitors>>

Locked(t) ==
  /\ wants[t] # Null /\ mut_[wants[t]] = NoThread
  /\ mut_' = [mut_ EXCEPT ![wants[t]] = t]
  /\ monitors' = [monitors EXCEPT ![t] = Append(@, [lock |-> wants[t], object |-> wants[t], mixed |-> FALSE])]
  /\ wants' = [wants EXCEPT ![t] = Null]

(* data_monitor(data_monitor&&): the lock moves, both refer to the object (locked_add returns so). *)
move(t, k) ==
  LET m == monitors[t][k] IN
  /\ wants[t] = Null /\ k \in DOMAIN monitors[t] /\ Len(monitors[t]) < MaxMonitors
  /\ monitors' = [monitors EXCEPT ![t] = Append([@ EXCEPT ![k].lock = Null], m)]
  /\ UNCHANGED <<mut_, wants>>

Mixes(ms, j, k) == ms[j].object # ms[k].object \/ ms[j].mixed \/ ms[k].mixed

(* A mutant of Swapped: the lock that is overwritten stays with the target, too. *)
SwappedKept(ms, j, k) ==
  [ms EXCEPT ![k].lock = ms[j].lock, ![j].mixed = Mixes(ms, j, k), ![k].mixed = Mixes(ms, j, k)]

(* data_monitor::swap exchanges the locks; of the objects only the values, not what is referred to. *)
Swapped(ms, j, k) ==
  [ms EXCEPT ![j].lock = ms[k].lock, ![k].lock = ms[j].lock,
             ![j].mixed = Mixes(ms, j, k), ![k].mixed = Mixes(ms, j, k)]

swap(t, j, k) ==
  /\ wants[t] = Null /\ {j, k} \subseteq DOMAIN monitors[t] /\ j # k
  /\ monitors' = [monitors EXCEPT ![t] = Swapped(@, j, k)]
  /\ UNCHANGED <<mut_, wants>>

Released(l) == [o \in Objects |-> IF o = l THEN NoThread ELSE mut_[o]]

Assigned(ms, j, k) ==
  [ms EXCEPT ![j] = [@ EXCEPT !.lock = ms[k].lock, !.mixed = Mixes(ms, j, k)], ![k].lock = Null]

(***************************************************************************)
(* operator=(data_monitor other): the lock moves into the parameter, is    *)
(* swapped with that of the target, and the target's old lock is released  *)
(* with the parameter.                                                     *)
(***************************************************************************)
assign(t, j, k) ==
  /\ wants[t] = Null /\ {j, k} \subseteq DOMAIN monitors[t] /\ j # k
  /\ monitors' = [monitors EXCEPT ![t] = Assigned(@, j, k)]
  /\ mut_' = Released(monitors[t][j].lock)
  /\ UNCHANGED wants

(* The last temporary or local monitor goes and unlocks what it has. *)
Destroy(t) ==
  LET ms == monitors[t] IN
  /\ wants[t] = Null /\ ms # <<>>
  /\ mut_' = Released(ms[Len(ms)].lock)
  /\ monitors' = [monitors EXCEPT ![t] = SubSeq(ms, 1, Len(ms) - 1)]
  /\ UNCHANGED wants

Next == \E t \in Threads :
  \/ Locked(t) \/ Destroy(t)
  \/ \E o \in Objects : monitor(t, o)
  \/ \E j, k \in 1..MaxMonitors : move(t, k) \/ swap(t, j, k) \/ assign(t, j, k)

Spec == Init /\ [][Next]_vars
-----------------------------------------------------------------------------
Monitor == [lock : Objects \cup {Null}, object : Objects, mixed : BOOLEAN]

TypeOK ==
  /\ mut_ \in [Objects -> Threads \cup {NoThread}] /\ wants \in [Threads -> Objects \cup {Null}]
  /\ monitors \in [Threads -> Seq(Monitor)] /\ \A t \in Threads : Len(monitors[t]) <= MaxMonitors

(***************************************************************************)
(* However monitors are moved, swapped, assigned and destroyed, a mutex is *)
(* locked by a thread exactly while one monitor of that thread carries it: *)
(* none is unlocked twice or never.  A monitor carries the lock of the     *)
(* object it refers to, so that two threads never use the same object      *)
(* through two of them.  Only swap and operator= between monitors of       *)
(* different objects break that, for the two and for those that take their *)
(* locks over: the locks change places, and the references stay            *)
(* (thread_safe_obj.h:57-62).                                              *)
(***************************************************************************)
LocksFollowMonitors ==
  /\ \A t \in Threads, o \in Objects :
       mut_[o] = t <=> Cardinality({k \in DOMAIN monitors[t] : monitors[t][k].lock = o}) = 1
  /\ \A t \in Threads : \A k \in DOMAIN monitors[t] :
       LET m == monitors[t][k] IN m.lock \in {Null, m.object} \/ m.mixed
=============================================================================
