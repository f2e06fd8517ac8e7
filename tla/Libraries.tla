------------------------------ MODULE Libraries ------------------------------
(***************************************************************************)
(* The libraries that call back or lock: the injector, the events, the     *)
(* monitors of thread-safe objects, the stack on top of them and the       *)
(* double dispatcher; and the iterators.  They do not interact: component  *)
(* says which one a behaviour is about, and the others keep their initial  *)
(* values.                                                                 *)
(***************************************************************************)
EXTENDS Integers, Sequences

CONSTANTS
  Ids, Types, Declarations, Values, MaxBuilt, MaxReentry,               \* Injector
  Events, MaxAdds, MaxFires,                                            \* EventHandlers
  Owners, NoThread, Objects, Null, MaxMonitors,                         \* DataMonitor
  Poppers, MaxPushes,                                                   \* NStack
  Shapes, MaxRegs,                                                      \* DoubleDispatch
  Chars, Alpha, Words, Numbers, MaxItems                                \* Iterators

\* "none" stands for no instance, no factory and no outcome.
ASSUME InjectorAssumption ==
  /\ "none" \notin Ids /\ "none" \notin Types
  /\ Declarations \subseteq [type : Types, deps : Seq([id : Ids, type : Types])]
  /\ Values \subseteq Types /\ MaxBuilt \in Nat

\* "null" is the state of an event that was moved from.
ASSUME EventsAssumption == "null" \notin Events /\ MaxAdds \in Nat /\ MaxFires \in Nat

ASSUME MonitorsAssumption == NoThread \notin Owners /\ Null \notin Objects /\ MaxMonitors \in Nat

ASSUME StackAssumption == MaxPushes \in Nat

ASSUME DispatchAssumption == MaxRegs \in Nat

ASSUME IteratorsAssumption == Words \subseteq Int /\ MaxItems \in Nat

VARIABLES
  component,
  factories, insts, calls, visited, built, given, outcome,   \* Injector
  state_ptr_, states, deleters, fires, added, removed, stopped,         \* EventHandlers
  mut_, wants, monitors,                                                \* DataMonitor
  size, pushed, loop, raced, undefined,                                 \* NStack
  dd_map, regs,                                                         \* DoubleDispatch
  walk, begun, items, current, it_, endit_, in_stream_, current_value_, taken, seen, written
                                                                        \* Iterators

J == INSTANCE Injector
E == INSTANCE EventHandlers
D == INSTANCE DataMonitor WITH Threads <- Owners
N == INSTANCE NStack WITH Threads <- Poppers
DD == INSTANCE DoubleDispatch WITH Types <- Shapes
I == INSTANCE Iterators

injectorVars == <<factories, insts, calls, visited, built, given, outcome>>
eventVars == <<state_ptr_, states, deleters, fires, added, removed, stopped>>
monitorVars == <<mut_, wants, monitors>>
stackVars == <<size, pushed, loop, raced, undefined>>
dispatchVars == <<dd_map, regs>>
iteratorVars == <<walk, begun, items, current, it_, endit_, in_stream_, current_value_, taken, seen, written>>
vars == <<component, injectorVars, eventVars, monitorVars, stackVars, dispatchVars, iteratorVars>>

Init ==
  /\ component \in {"injector", "event", "data_monitor", "n_stack", "double_dispatcher", "iterator"}
  /\ J!Init /\ E!Init /\ D!Init /\ N!Init /\ DD!Init /\ I!Init

Is(c) == component = c /\ UNCHANGED component

Next ==
  \/ Is("injector") /\ J!Next /\ UNCHANGED <<eventVars, monitorVars, stackVars, dispatchVars, iteratorVars>>
  \/ Is("event") /\ E!Next /\ UNCHANGED <<injectorVars, monitorVars, stackVars, dispatchVars, iteratorVars>>
  \/ Is("data_monitor") /\ D!Next /\ UNCHANGED <<injectorVars, eventVars, stackVars, dispatchVars, iteratorVars>>
  \/ Is("n_stack") /\ N!Next /\ UNCHANGED <<injectorVars, eventVars, monitorVars, dispatchVars, iteratorVars>>
  \/ Is("double_dispatcher") /\ DD!Next /\ UNCHANGED <<injectorVars, eventVars, monitorVars, stackVars, iteratorVars>>
  \/ Is("iterator") /\ I!Next /\ UNCHANGED <<injectorVars, eventVars, monitorVars, stackVars, dispatchVars>>

Spec == Init /\ [][Next]_vars
-----------------------------------------------------------------------------
(* The types of the components. *)
TypeOK == J!TypeOK /\ E!TypeOK /\ D!TypeOK /\ N!TypeOK /\ DD!TypeOK /\ I!TypeOK

(* simple_injector: get() tells a cycle from a dependency reached twice. *)
OutcomeHasACause == J!OutcomeHasACause

(* simple_injector: what is stored has its dependencies, and references to it stay. *)
KeepsWhatItMade == J!StoredIsWired /\ J!ReferencesStay

(* events: a handler is called until it is removed, and never after.        *)
(* double_dispatch: the function registered last for two types is called   *)
(* with its arguments.                                                     *)
RegisteredAreCalled == E!RemovedOrCalled /\ DD!DispatchesByType

(* thread_safe_obj: an object is locked for the thread with a monitor of it. *)
LocksFollowMonitors == D!LocksFollowMonitors

(* thread_safe_obj: the loop of n_stack uses an element that is not there only when it is raced. *)
MissesOnlyWhenRaced == N!MissesOnlyWhenRaced

(* alg_func_exercises, stl_containters, iterators: loops are at every element once. *)
IteratorsVisitAll == I!IteratorsVisitAll
=============================================================================
