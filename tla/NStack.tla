------------------------------- MODULE NStack -------------------------------
(***************************************************************************)
(* thread_safe_obj/src/main.cpp: n_stack, a vector behind a thread-safe    *)
(* object, and main's loop "while(!stack.empty()) { top; pop; }" run by    *)
(* several threads.  push, empty, top and pop lock for the length of the   *)
(* call, so each is one step; top() returns a reference that is read       *)
(* afterwards, when another thread may have popped the element or moved    *)
(* the vector.                                                             *)
(***************************************************************************)
EXTENDS Naturals

CONSTANTS
  Threads,
  MaxPushes            \* bound: elements pushed

VARIABLES
  size,        \* the number of elements
  pushed,      \* bound: number of pushes
  loop,        \* where a thread is in the loop
  raced,       \* history: threads whose loop another thread's push or pop ran into
  undefined    \* history: threads that used an element that is not there

vars == <<size, pushed, loop, raced, undefined>>

Init == size = 0 /\ pushed = 0 /\ loop = [t \in Threads |-> "out"] /\ raced = {} /\ undefined = {}

Runs(t) == t \notin undefined

Changed(t) ==
  LET others == {u \in Threads \ {t} : loop[u] # "out"} IN
  /\ raced' = raced \cup others
  /\ loop' = [u \in Threads |-> IF u = t THEN "out"
                              ELSE IF loop[u] = "read" THEN "stale" ELSE loop[u]]

push(t) ==
  /\ Runs(t) /\ loop[t] = "out" /\ pushed < MaxPushes
  /\ size' = size + 1 /\ pushed' = pushed + 1 /\ Changed(t)
  /\ UNCHANGED undefined

(* A mutant of empty: the loop is entered in any case. *)
emptyUntested(t) ==
  /\ Runs(t) /\ loop[t] = "out"
  /\ loop' = [loop EXCEPT ![t] = "top"] /\ raced' = raced \ {t}
  /\ UNCHANGED <<size, pushed, undefined>>

empty(t) ==
  /\ Runs(t) /\ loop[t] = "out" /\ size > 0
  /\ loop' = [loop EXCEPT ![t] = "top"] /\ raced' = raced \ {t}
  /\ UNCHANGED <<size, pushed, undefined>>

Uses(t, bad) == undefined' = IF bad THEN undefined \cup {t} ELSE undefined

top(t) ==
  /\ Runs(t) /\ loop[t] = "top"
  /\ loop' = [loop EXCEPT ![t] = "read"] /\ Uses(t, size = 0)
  /\ UNCHANGED <<size, pushed, raced>>

ReadTop(t) ==
  /\ Runs(t) /\ loop[t] \in {"read", "stale"}
  /\ loop' = [loop EXCEPT ![t] = "pop"] /\ Uses(t, loop[t] = "stale")
  /\ UNCHANGED <<size, pushed, raced>>

pop(t) ==
  /\ Runs(t) /\ loop[t] = "pop"
  /\ size' = (IF size = 0 THEN 0 ELSE size - 1) /\ Uses(t, size = 0) /\ Changed(t)
  /\ UNCHANGED pushed

Next == \E t \in Threads : push(t) \/ empty(t) \/ top(t) \/ ReadTop(t) \/ pop(t)

Spec == Init /\ [][Next]_vars
-----------------------------------------------------------------------------
TypeOK ==
  /\ size \in 0..MaxPushes /\ pushed \in 0..MaxPushes
  /\ loop \in [Threads -> {"out", "top", "read", "stale", "pop"}]
  /\ raced \subseteq Threads /\ undefined \subseteq Threads

(***************************************************************************)
(* Each call of the stack locks, the loop of main does not: its top and    *)
(* pop miss their element only if another thread's call came between.      *)
(***************************************************************************)
MissesOnlyWhenRaced == undefined \subseteq raced
=============================================================================
