--------------------------- MODULE InterposedMutex ---------------------------
(***************************************************************************)
(* libmypthread: pthread_mutex_lock and pthread_mutex_unlock interposed    *)
(* with a check for recursive locking.  Each thread has a set of the       *)
(* mutexes it has locked, in a table under a lock of its own; a lock of a  *)
(* mutex in the thread's set is skipped, and returns at once.              *)
(*                                                                         *)
(* The clients are any threads that unlock what they have locked, each     *)
(* mutex as many times as they have locked it or fewer.  The mutexes of    *)
(* the C library are external: a mutex is its owner, a lock of a mutex     *)
(* that is not free waits, also if the caller owns it, and an unlock frees *)
(* the mutex whoever owns it, which is what the default mutex does.        *)
(***************************************************************************)
EXTENDS Naturals

CONSTANTS
  Threads, Mutexes, Nobody,
  MaxDepth,      \* bound: how often a thread locks a mutex before it unlocks
  MaxCalls,      \* bound: calls in one behaviour
  MaxFailures    \* bound: failures of operator new in one behaviour

ASSUME NobodyAssumption == Nobody \notin Threads
ASSUME BoundsAssumption ==
  MaxDepth \in Nat /\ MaxCalls \in Nat /\ MaxFailures \in Nat

VARIABLES
  owner,        \* owner[m]: who has the original mutex m, or Nobody
  state_lock,   \* the owner of mutex_nonrecursive_check_state_lock
  check_state,  \* check_state[t]: t's set in mutex_nonrecursive_check_state
  pc,           \* pc[t]: where t stands in its call
  mutex,        \* mutex[t]: the argument of t's call
  depth,        \* depth[t][m]: locks of m by t that returned, less unlocks
  holds,        \* history: holds[t], what t locked and has not unlocked since
  untracked,    \* history: the <<t, m>> that are locked but not in the table
  surplus,      \* history: mutexes unlocked by a thread that held them no more
  calls, failures

table == <<state_lock, check_state>>
client == <<mutex, depth, holds>>
history == <<untracked, surplus>>
bounds == <<calls, failures>>
vars == <<owner, table, pc, client, history, bounds>>

Init ==
  /\ owner = [m \in Mutexes |-> Nobody]
  /\ state_lock = Nobody
  /\ check_state = [t \in Threads |-> {}]
  /\ pc = [t \in Threads |-> "idle"]
  /\ mutex \in [Threads -> Mutexes]
  /\ depth = [t \in Threads |-> [m \in Mutexes |-> 0]]
  /\ holds = [t \in Threads |-> {}]
  /\ untracked = {}
  /\ surplus = {}
  /\ calls = 0
  /\ failures = 0

GoTo(t, label) == pc' = [pc EXCEPT ![t] = label]

\* t's client calls a function of the library on m.
Call(t, m, label) ==
  /\ pc[t] = "idle"
  /\ calls < MaxCalls
  /\ calls' = calls + 1
  /\ mutex' = [mutex EXCEPT ![t] = m]
  /\ GoTo(t, label)

\* The constructor of a pthread_mutex_locker_t on the lock of the table.
TakeTable(t, from, to) ==
  /\ pc[t] = from
  /\ state_lock = Nobody
  /\ state_lock' = t
  /\ GoTo(t, to)
  /\ UNCHANGED <<owner, check_state, client, history, bounds>>

-----------------------------------------------------------------------------
(* pthread_mutex_lock                                                      *)

LockCall(t, m) ==
  /\ depth[t][m] < MaxDepth
  /\ Call(t, m, "lock_check")
  /\ UNCHANGED <<owner, table, depth, holds, history, failures>>

LockTakesTable(t) == TakeTable(t, "lock_check", "lock_lookup")

\* A mutant of SkipRecursive: the table's lock is taken and released by hand,
\* and the return of false leaves it locked.
SkipRecursiveLocked(t) ==
  /\ pc[t] = "lock_lookup"
  /\ mutex[t] \in check_state[t]
  /\ depth' = [depth EXCEPT ![t][mutex[t]] = @ + 1]
  /\ GoTo(t, "idle")
  /\ UNCHANGED <<owner, table, mutex, holds, history, bounds>>

\* The mutex is in the thread's set: the call returns 0 and locks nothing.
SkipRecursive(t) ==
  /\ pc[t] = "lock_lookup"
  /\ mutex[t] \in check_state[t]
  /\ state_lock' = Nobody
  /\ depth' = [depth EXCEPT ![t][mutex[t]] = @ + 1]
  /\ GoTo(t, "idle")
  /\ UNCHANGED <<owner, check_state, mutex, holds, history, bounds>>

\* A mutant of Insert: the insertion is forgotten.
InsertNothing(t) ==
  /\ pc[t] = "lock_lookup"
  /\ mutex[t] \notin check_state[t]
  /\ state_lock' = Nobody
  /\ GoTo(t, "lock_original")
  /\ UNCHANGED <<owner, check_state, client, history, bounds>>

Insert(t) ==
  /\ pc[t] = "lock_lookup"
  /\ mutex[t] \notin check_state[t]
  /\ check_state' = [check_state EXCEPT ![t] = @ \cup {mutex[t]}]
  /\ state_lock' = Nobody
  /\ GoTo(t, "lock_original")
  /\ UNCHANGED <<owner, client, history, bounds>>

\* The table cannot grow: the exception is swallowed, and the mutex locked.
InsertFails(t) ==
  /\ pc[t] = "lock_lookup"
  /\ mutex[t] \notin check_state[t]
  /\ failures < MaxFailures
  /\ failures' = failures + 1
  /\ untracked' = untracked \cup {<<t, mutex[t]>>}
  /\ state_lock' = Nobody
  /\ GoTo(t, "lock_original")
  /\ UNCHANGED <<owner, check_state, client, surplus, calls>>

\* A mutant of LockOriginal: a lock that does not wait.
LockOriginalAtOnce(t) ==
  /\ pc[t] = "lock_original"
  /\ owner' = [owner EXCEPT ![mutex[t]] = t]
  /\ depth' = [depth EXCEPT ![t][mutex[t]] = @ + 1]
  /\ holds' = [holds EXCEPT ![t] = @ \cup {mutex[t]}]
  /\ GoTo(t, "idle")
  /\ UNCHANGED <<table, mutex, history, bounds>>

LockOriginal(t) ==
  /\ pc[t] = "lock_original"
  /\ owner[mutex[t]] = Nobody
  /\ owner' = [owner EXCEPT ![mutex[t]] = t]
  /\ depth' = [depth EXCEPT ![t][mutex[t]] = @ + 1]
  /\ holds' = [holds EXCEPT ![t] = @ \cup {mutex[t]}]
  /\ GoTo(t, "idle")
  /\ UNCHANGED <<table, mutex, history, bounds>>

-----------------------------------------------------------------------------
(* pthread_mutex_unlock                                                    *)

\* A mutant of UnlockCall: a client that unlocks what it never locked.
UnlockCallUnguarded(t, m) ==
  /\ Call(t, m, "unlock_check")
  /\ depth' = [depth EXCEPT ![t][m] = @ - 1]
  /\ holds' = [holds EXCEPT ![t] = @ \ {m}]
  /\ untracked' = untracked \ {<<t, m>>}
  /\ surplus' = IF m \in holds[t] THEN surplus ELSE surplus \cup {m}
  /\ UNCHANGED <<owner, table, failures>>

UnlockCall(t, m) ==
  /\ depth[t][m] > 0
  /\ Call(t, m, "unlock_check")
  /\ depth' = [depth EXCEPT ![t][m] = @ - 1]
  /\ holds' = [holds EXCEPT ![t] = @ \ {m}]
  /\ untracked' = untracked \ {<<t, m>>}
  /\ surplus' = IF m \in holds[t] THEN surplus ELSE surplus \cup {m}
  /\ UNCHANGED <<owner, table, failures>>

UnlockTakesTable(t) == TakeTable(t, "unlock_check", "unlock_erase")

\* A mutant of Erase: the mutex stays in the thread's set.
EraseNothing(t) ==
  /\ pc[t] = "unlock_erase"
  /\ state_lock' = Nobody
  /\ GoTo(t, "unlock_original")
  /\ UNCHANGED <<owner, check_state, client, history, bounds>>

Erase(t) ==
  /\ pc[t] = "unlock_erase"
  /\ check_state' = [check_state EXCEPT ![t] = @ \ {mutex[t]}]
  /\ state_lock' = Nobody
  /\ GoTo(t, "unlock_original")
  /\ UNCHANGED <<owner, client, history, bounds>>

UnlockOriginal(t) ==
  /\ pc[t] = "unlock_original"
  /\ owner' = [owner EXCEPT ![mutex[t]] = Nobody]
  /\ GoTo(t, "idle")
  /\ UNCHANGED <<table, client, history, bounds>>

-----------------------------------------------------------------------------
Resume(t) ==
  \/ LockTakesTable(t)
  \/ SkipRecursive(t)
  \/ Insert(t)
  \/ InsertFails(t)
  \/ LockOriginal(t)
  \/ UnlockTakesTable(t)
  \/ Erase(t)
  \/ UnlockOriginal(t)

Next ==
  \E t \in Threads :
    \/ \E m \in Mutexes : LockCall(t, m) \/ UnlockCall(t, m)
    \/ Resume(t)

\* A thread inside a call goes on while it can.  No client has to call.
Fairness == \A t \in Threads : WF_vars(Resume(t))

Spec == Init /\ [][Next]_vars /\ Fairness

-----------------------------------------------------------------------------
TypeOK ==
  /\ owner \in [Mutexes -> Threads \cup {Nobody}]
  /\ state_lock \in Threads \cup {Nobody}
  /\ check_state \in [Threads -> SUBSET Mutexes]
  /\ pc \in [Threads -> {"idle", "lock_check", "lock_lookup", "lock_original",
                         "unlock_check", "unlock_erase", "unlock_original"}]
  /\ mutex \in [Threads -> Mutexes]
  /\ depth \in [Threads -> [Mutexes -> 0..MaxDepth]]
  /\ holds \in [Threads -> SUBSET Mutexes]
  /\ untracked \subseteq Threads \X Mutexes
  /\ surplus \subseteq Mutexes
  /\ calls \in 0..MaxCalls
  /\ failures \in 0..MaxFailures

\* A client that locked a mutex has it to itself until it unlocks it for the
\* first time.  Only the surplus unlock of a nested pair, which the library
\* passes on although it skipped the lock, can break in on another thread.
HoldersExclude ==
  \A m \in Mutexes \ surplus :
    \A t, u \in Threads : m \in holds[t] \cap holds[u] => t = u

\* A thread waits for a mutex that it has itself only if the table had no
\* room for it: recursive locks of all others are detected.
NoSelfDeadlock ==
  \A t \in Threads :
    pc[t] = "lock_original" /\ mutex[t] \in holds[t]
      => <<t, mutex[t]>> \in untracked

\* A mutex in a thread's set is one it has, is about to lock, or unlocks: the
\* table never makes a thread skip a lock of what it does not have.
SkipsOnlyWhatItHolds ==
  \A t \in Threads :
    pc[t] = "lock_lookup" /\ mutex[t] \in check_state[t] => mutex[t] \in holds[t]

\* A lock that is skipped returns, and so does every unlock: neither can wait
\* for anything but the lock of the table, which is always given back.
SkipsAndUnlocksReturn ==
  \A t \in Threads :
    (\/ pc[t] = "unlock_check"
     \/ pc[t] = "lock_check" /\ mutex[t] \in check_state[t])
      ~> pc[t] = "idle"
=============================================================================
