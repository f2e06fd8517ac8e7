--------------------------- MODULE WriteBroadcast ---------------------------
(***************************************************************************)
(* What evented_buffer_t promises its clients: every reader that waits     *)
(* when a write is published is told of that write, exactly once, before   *)
(* the write ends; a reader that starts to wait during the write is told   *)
(* of it too, unless it has been told already.                             *)
(***************************************************************************)
EXTENDS Naturals

CONSTANT Readers

VARIABLES
  open,      \* a write is published and has not ended
  current,   \* the number of writes published
  waiting,   \* the readers that wait for a write
  seen       \* seen[r]: the last write r was told of

vars == <<open, current, waiting, seen>>

Init ==
  /\ open = FALSE
  /\ current = 0
  /\ waiting = {}
  /\ seen = [r \in Readers |-> 0]

Arrive(r) ==
  /\ r \notin waiting
  /\ open => seen[r] < current
  /\ waiting' = waiting \cup {r}
  /\ UNCHANGED <<open, current, seen>>

Publish ==
  /\ ~open
  /\ open' = TRUE
  /\ current' = current + 1
  /\ UNCHANGED <<waiting, seen>>

Receive(r) ==
  /\ open
  /\ r \in waiting
  /\ waiting' = waiting \ {r}
  /\ seen' = [seen EXCEPT ![r] = current]
  /\ UNCHANGED <<open, current>>

Close ==
  /\ open
  /\ waiting = {}
  /\ open' = FALSE
  /\ UNCHANGED <<current, waiting, seen>>

Next ==
  \/ \E r \in Readers : Arrive(r) \/ Receive(r)
  \/ Publish
  \/ Close

\* A published write reaches its readers and then ends.
Fairness ==
  /\ \A r \in Readers : WF_vars(Receive(r))
  /\ WF_vars(Close)

Spec == Init /\ [][Next]_vars /\ Fairness
=============================================================================
