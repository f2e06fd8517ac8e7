---------------------------- MODULE EventHandlers ----------------------------
(***************************************************************************)
(* events/src/event.h: events, the handlers added to them, the deleters    *)
(* that add() returns, and fire(), whose handlers are code of the program  *)
(* and may add, remove, move, destroy or fire again.  One thread.          *)
(***************************************************************************)
EXTENDS Naturals, Sequences

CONSTANTS
  Events,      \* the event objects
  MaxAdds,     \* bound: calls of add()
  MaxFires     \* bound: fire() called by handlers, nested

VARIABLES
  state_ptr_,  \* the state an event owns: itself at first, "null" when moved from
  states,      \* the states: live, handler_id_cntr_ and handlers_
  deleters,    \* the deleters: a raw pointer to a state and an id
  fires,       \* the loops of fire() in progress, the innermost last; history: the
               \* handlers called, and those called late, after their removal
  added,       \* history: calls of add(); the handler of the nth one is n
  removed,     \* history: the handlers whose deleter was called
  stopped      \* undefined behaviour was met, or an assertion failed

vars == <<state_ptr_, states, deleters, fires, added, removed, stopped>>

Init ==
  /\ state_ptr_ = [e \in Events |-> e]
  /\ states = [s \in Events |-> [live |-> TRUE, cntr |-> 0, handlers |-> <<>>]]
  /\ deleters = {} /\ fires = <<>> /\ added = 0 /\ removed = {} /\ stopped = FALSE

Top == fires[Len(fires)]
SetTop(f) == [fires EXCEPT ![Len(fires)] = f]
Firing(s) == \E k \in DOMAIN fires : fires[k].state = s

(* The program's own code runs: outside of fire(), or in a handler. *)
UserCode == ~stopped /\ (IF fires = <<>> THEN TRUE ELSE Top.running)

Stop == stopped' = TRUE /\ UNCHANGED <<state_ptr_, states, deleters, fires, removed>>

(* A mutant of AssertsId: as in a build without assertions. *)
AssertsIdNot(st) == TRUE

(* "naive implementation": the id is the index the handler will have. *)
AssertsId(st) == st.cntr = Len(st.handlers)

(***************************************************************************)
(* The counter moves before emplace_back, which may throw; a vector that   *)
(* grows while one of its elements is being called may move under the loop *)
(* of fire().                                                              *)
(***************************************************************************)
add(e) ==
  LET s == state_ptr_[e] st == states[s] IN
  /\ UserCode /\ added < MaxAdds /\ added' = added + 1
  /\ IF s = "null" THEN Stop
     ELSE IF ~AssertsId(st) THEN Stop
     ELSE \/ Firing(s) /\ Stop                                         \* reallocated
          \/ /\ states' = [states EXCEPT ![s].cntr = @ + 1,
                                        ![s].handlers = Append(@, [on |-> TRUE, handler |-> added'])]
             /\ deleters' = deleters \cup {[state |-> s, id |-> st.cntr + 1, handler |-> added']}
             /\ UNCHANGED <<state_ptr_, fires, removed, stopped>>
          \/ /\ states' = [states EXCEPT ![s].cntr = @ + 1]             \* emplace_back throws
             /\ UNCHANGED <<state_ptr_, deleters, fires, removed, stopped>>

Runs(d) == \E k \in DOMAIN fires : fires[k].state = d.state /\ fires[k].next = d.id /\ fires[k].running

(***************************************************************************)
(* event_handler_deleter::operator(); the element of a dead state, or      *)
(* none, is undefined.  A handler that is removed while it runs has its    *)
(* std::function destroyed under it, which may do no harm.                 *)
(***************************************************************************)
remove(d) ==
  /\ UserCode /\ UNCHANGED added
  /\ IF ~(states[d.state].live /\ d.id \in DOMAIN states[d.state].handlers) THEN Stop
     ELSE \/ Runs(d) /\ Stop
          \/ /\ states' = [states EXCEPT ![d.state].handlers[d.id].on = FALSE]
             /\ removed' = removed \cup {d.handler}
             /\ UNCHANGED <<state_ptr_, deleters, fires, stopped>>

fire(e) ==
  LET s == state_ptr_[e] IN
  /\ UserCode /\ Len(fires) < MaxFires /\ UNCHANGED added
  /\ IF s = "null" THEN Stop
     ELSE /\ fires' = Append(fires, [state |-> s, next |-> 1, running |-> FALSE, called |-> {},
                                     late |-> {}, end |-> Len(states[s].handlers)])
          /\ UNCHANGED <<state_ptr_, states, deleters, removed, stopped>>

Called(f, h) == [f EXCEPT !.running = TRUE, !.called = @ \cup {h.handler}, !.late = @ \cup ({h.handler} \cap removed)]

(* A mutant of CallNext: the loop does not ask whether the handler was removed. *)
CallNextAnyway ==
  LET f == Top h == states[f.state].handlers[f.next] IN
  /\ ~stopped /\ fires # <<>> /\ ~f.running /\ f.next <= f.end
  /\ fires' = SetTop(Called(f, h))
  /\ UNCHANGED <<state_ptr_, states, deleters, added, removed, stopped>>

(* One turn of the loop: the handler is called, or skipped if it was removed. *)
CallNext ==
  LET f == Top h == states[f.state].handlers[f.next] IN
  /\ ~stopped /\ fires # <<>> /\ ~f.running /\ f.next <= f.end
  /\ fires' = SetTop(IF h.on THEN Called(f, h) ELSE [f EXCEPT !.next = @ + 1])
  /\ UNCHANGED <<state_ptr_, states, deleters, added, removed, stopped>>

HandlerReturns ==
  /\ UserCode /\ fires # <<>>
  /\ fires' = SetTop([Top EXCEPT !.running = FALSE, !.next = @ + 1])
  /\ UNCHANGED <<state_ptr_, states, deleters, added, removed, stopped>>

FireReturns ==
  /\ ~stopped /\ fires # <<>> /\ Top.next > Top.end
  /\ fires' = SubSeq(fires, 1, Len(fires) - 1)
  /\ UNCHANGED <<state_ptr_, states, deleters, added, removed, stopped>>

(***************************************************************************)
(* event = std::move(src): the state of the target dies, that of the       *)
(* source changes hands with the deleters still pointing at it; src = null *)
(* stands for the destruction of the event.                                *)
(***************************************************************************)
move(e, src) ==
  LET s == state_ptr_[e] IN
  /\ UserCode /\ e # src /\ s # "null" /\ UNCHANGED added
  /\ IF Firing(s) THEN Stop
     ELSE /\ state_ptr_' = [d \in Events |-> IF d = e THEN (IF src = "null" THEN src ELSE state_ptr_[src])
                                             ELSE IF d = src THEN "null" ELSE state_ptr_[d]]
          /\ states' = [states EXCEPT ![s].live = FALSE]
          /\ UNCHANGED <<deleters, fires, removed, stopped>>

Next ==
  \/ \E e \in Events : add(e) \/ fire(e)
  \/ \E d \in deleters : remove(d)
  \/ CallNext \/ HandlerReturns \/ FireReturns
  \/ \E e \in Events, src \in Events \cup {"null"} : move(e, src)

Spec == Init /\ [][Next]_vars
-----------------------------------------------------------------------------
State == [live : BOOLEAN, cntr : 0..MaxAdds, handlers : Seq([on : BOOLEAN, handler : 1..MaxAdds])]

(* Types, and every state that an event owns is alive. *)
TypeOK ==
  /\ state_ptr_ \in [Events -> Events \cup {"null"}]
  /\ states \in [Events -> State] /\ added \in 0..MaxAdds /\ removed \subseteq 1..MaxAdds
  /\ deleters \subseteq [state : Events, id : 1..MaxAdds, handler : 1..MaxAdds]
  /\ Len(fires) <= MaxFires /\ stopped \in BOOLEAN
  /\ \A e \in Events : state_ptr_[e] # "null" => states[state_ptr_[e]].live

(***************************************************************************)
(* A handler stays on until its own deleter is called and is off from then *)
(* on, whatever was added, failed to be added, moved or fired in between;  *)
(* and a loop of fire() has called every handler it has passed that is on, *)
(* and none after the handler was removed (event.h:72-108).                *)
(***************************************************************************)
RemovedOrCalled ==
  /\ \A s \in Events : \A k \in DOMAIN states[s].handlers :
       LET h == states[s].handlers[k] IN h.on <=> h.handler \notin removed
  /\ \A k \in DOMAIN fires :
       LET f == fires[k] IN
       /\ \A n \in 1..(f.next - 1) :
            LET h == states[f.state].handlers[n] IN h.on => h.handler \in f.called
       /\ f.late = {}
=============================================================================
