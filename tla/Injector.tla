------------------------------ MODULE Injector ------------------------------
(***************************************************************************)
(* simple_injector/src/injector.h: factories and values registered by id,  *)
(* and get(), which builds what is missing, its declared dependencies      *)
(* first.  get_recursive is a stack of calls; a factory is code of the     *)
(* program that runs in the middle of it and may register, ask again or    *)
(* throw.                                                                  *)
(***************************************************************************)
EXTENDS Naturals, Sequences, FiniteSets

CONSTANTS
  Ids, Types,
  Declarations,   \* what may be registered: [type, deps], deps a sequence of [id, type]
  Values,         \* the types of the values that may be registered
  MaxBuilt,       \* bound: instances made
  MaxReentry      \* bound: get() called by a factory, nested

NoFactory == [type |-> "none", deps |-> <<>>]
NoInst == [type |-> "none", serial |-> 0]

VARIABLES
  factories,      \* factories_
  insts,          \* rttied_insts_
  calls,          \* the frames of get_recursive, the innermost last
  visited,        \* visited_dep_ids of every get() in progress
  built,          \* history: number of instances made so far
  given,          \* history: the instances get_recursive returned; early: while
                  \* a frame below was still making the same id
  outcome         \* history: what the last outermost get() ended with

vars == <<factories, insts, calls, visited, built, given, outcome>>

NoOutcome == [id |-> "none", type |-> "none", error |-> "none"]

Init ==
  /\ factories = [i \in Ids |-> NoFactory]
  /\ insts = [i \in Ids |-> NoInst]
  /\ calls = <<>> /\ visited = <<>>
  /\ built = 0 /\ given = {} /\ outcome = NoOutcome

Top(s) == s[Len(s)]
Pop(s) == SubSeq(s, 1, Len(s) - 1)
SetTop(s, x) == [s EXCEPT ![Len(s)] = x]

Frame(id, type, root) == [id |-> id, type |-> type, root |-> root, step |-> "enter", next |-> 1]
At(step) == calls # <<>> /\ Top(calls).step = step
Deps(f) == factories[f.id].deps

(* The program's own code runs: no get() is in progress, or a factory is. *)
UserCode == calls = <<>> \/ At("factory")
Stored(id) == insts[id] # NoInst
Defined(id) == Stored(id) \/ factories[id] # NoFactory

(***************************************************************************)
(* Registration throws already_defined if the id has either; then nothing  *)
(* changes.                                                                *)
(***************************************************************************)
factory(id, d) ==
  /\ UserCode /\ ~Defined(id)
  /\ factories' = [factories EXCEPT ![id] = d]
  /\ outcome' = NoOutcome
  /\ UNCHANGED <<insts, calls, visited, built, given>>

value(id, type) ==
  /\ UserCode /\ ~Defined(id) /\ built < MaxBuilt
  /\ built' = built + 1
  /\ insts' = [insts EXCEPT ![id] = [type |-> type, serial |-> built']]
  /\ outcome' = NoOutcome
  /\ UNCHANGED <<factories, calls, visited, given>>

get(id, type) ==
  /\ UserCode /\ Len(visited) <= MaxReentry
  /\ calls' = Append(calls, Frame(id, type, TRUE))
  /\ visited' = Append(visited, {})
  /\ outcome' = NoOutcome
  /\ UNCHANGED <<factories, insts, built, given>>

(***************************************************************************)
(* How a frame ends.  A root frame is that of get(): it returns to the     *)
(* program or to the factory below, and an exception ends all frames down  *)
(* to it.  That factory may catch it.                                      *)
(***************************************************************************)
Ends(f, error) ==
  outcome' = IF f.root /\ Len(visited) = 1
             THEN [id |-> f.id, type |-> f.type, error |-> error]
             ELSE outcome

(* A mutant of Erased: what has been resolved stays visited. *)
ErasedNot(f) == visited

Erased(f) == SetTop(visited, Top(visited) \ {f.id})

BeingMade(id) == \E k \in 1..(Len(calls) - 1) : calls[k].id = id

Return(inst) ==
  LET f == Top(calls) rest == Pop(calls) IN
  /\ given' = given \cup {[id |-> f.id, serial |-> inst.serial, early |-> BeingMade(f.id)]}
  /\ visited' = IF f.root THEN Pop(visited) ELSE Erased(f)
  /\ calls' = IF f.root THEN rest ELSE SetTop(rest, [Top(rest) EXCEPT !.next = @ + 1])
  /\ Ends(f, "none")

Root == CHOOSE k \in DOMAIN calls : calls[k].root /\ \A n \in DOMAIN calls : n > k => ~calls[n].root

(* A mutant of Throw: the frames below get() are unwound, its visited set is not. *)
ThrowKeepsVisited(error) ==
  /\ calls' = SubSeq(calls, 1, Root - 1)
  /\ UNCHANGED visited
  /\ Ends(calls[Root], error)
  /\ UNCHANGED <<factories, insts, given>>

Throw(error) ==
  /\ calls' = SubSeq(calls, 1, Root - 1)
  /\ visited' = Pop(visited)
  /\ Ends(calls[Root], error)
  /\ UNCHANGED <<factories, insts, given>>

Circular ==
  /\ At("enter") /\ Top(calls).id \in Top(visited)
  /\ Throw("circular") /\ UNCHANGED built

Found ==
  LET f == Top(calls) IN
  /\ At("enter") /\ f.id \notin Top(visited) /\ Stored(f.id)
  /\ IF insts[f.id].type = f.type
     THEN Return(insts[f.id]) /\ UNCHANGED <<factories, insts>>
     ELSE Throw("type")
  /\ UNCHANGED built

Missing ==
  LET f == Top(calls) IN
  /\ At("enter") /\ f.id \notin Top(visited) /\ ~Defined(f.id)
  /\ Throw("missing") /\ UNCHANGED built

HasFactory ==
  LET f == Top(calls) IN
  /\ At("enter") /\ f.id \notin Top(visited) /\ ~Stored(f.id) /\ Defined(f.id)
  /\ visited' = SetTop(visited, Top(visited) \cup {f.id})
  /\ calls' = SetTop(calls, [f EXCEPT !.step = "deps"])
  /\ UNCHANGED <<factories, insts, built, given, outcome>>

(* The next declared dependency, or the factory when there is none left. *)
NextDep ==
  LET f == Top(calls) IN
  /\ At("deps")
  /\ calls' = IF f.next <= Len(Deps(f))
              THEN Append(calls, Frame(Deps(f)[f.next].id, Deps(f)[f.next].type, FALSE))
              ELSE SetTop(calls, [f EXCEPT !.step = "factory"])
  /\ UNCHANGED <<factories, insts, visited, built, given, outcome>>

(* A mutant of FactoryReturns: the first instance of a type not asked for is kept. *)
FactoryReturnsUnchecked ==
  LET f == Top(calls) new == [type |-> factories[f.id].type, serial |-> built + 1] IN
  /\ At("factory") /\ built < MaxBuilt
  /\ built' = built + 1
  /\ insts' = [insts EXCEPT ![f.id] = new] /\ Return(new) /\ UNCHANGED factories

(***************************************************************************)
(* The type is compared after the factory has run: an instance of another  *)
(* type than the one asked for is dropped, and made again the next time.   *)
(* One that is stored replaces what a nested get() stored for the id.      *)
(***************************************************************************)
FactoryReturns ==
  LET f == Top(calls) new == [type |-> factories[f.id].type, serial |-> built + 1] IN
  /\ At("factory") /\ built < MaxBuilt
  /\ built' = built + 1
  /\ IF new.type = f.type
     THEN insts' = [insts EXCEPT ![f.id] = new] /\ Return(new) /\ UNCHANGED factories
     ELSE Throw("type")

(***************************************************************************)
(* The factory throws, or dep_insts_t::get does for an id that is not      *)
(* declared or has another type, or it lets through what its get() threw.  *)
(***************************************************************************)
FactoryThrows == At("factory") /\ Throw("user") /\ UNCHANGED built

Next ==
  \/ \E i \in Ids, d \in Declarations : factory(i, d)
  \/ \E i \in Ids, t \in Values : value(i, t)
  \/ \E i \in Ids, t \in Types : get(i, t)
  \/ Circular \/ Found \/ Missing \/ HasFactory \/ NextDep
  \/ FactoryReturns \/ FactoryThrows

Spec == Init /\ [][Next]_vars
-----------------------------------------------------------------------------
Insts == [type : Types \cup {"none"}, serial : 0..MaxBuilt]
Frames == [id : Ids, type : Types, root : BOOLEAN, step : {"enter", "deps", "factory"}, next : Nat \ {0}]

(* Types, and a set of visited ids for each get() in progress. *)
TypeOK ==
  /\ factories \in [Ids -> Declarations \cup {NoFactory}]
  /\ insts \in [Ids -> Insts]
  /\ calls \in Seq(Frames) /\ visited \in Seq(SUBSET Ids)
  /\ Len(visited) = Cardinality({k \in DOMAIN calls : calls[k].root})
  /\ built \in 0..MaxBuilt
  /\ given \subseteq [id : Ids, serial : 1..MaxBuilt, early : BOOLEAN]

DependsOn(i) == {factories[i].deps[k].id : k \in DOMAIN factories[i].deps}

Reach(S) ==
  LET Closed == {T \in SUBSET Ids : S \subseteq T /\ \A i \in T : DependsOn(i) \subseteq T}
  IN  {i \in Ids : \A T \in Closed : i \in T}

OnCycle(i) == i \in Reach(DependsOn(i))

(***************************************************************************)
(* get() tells a cycle from a dependency reached twice: it throws          *)
(* circular_dependency only if the declarations reachable from the id have *)
(* a cycle, and no_such_dependency only if one of them is not registered;  *)
(* it returns only if there is neither (test.cpp, parts 1 to 3).           *)
(***************************************************************************)
OutcomeHasACause ==
  LET reached == Reach({outcome.id}) IN
  outcome # NoOutcome =>
    /\ outcome.error = "circular" => \E i \in reached : OnCycle(i)
    /\ outcome.error = "missing" => \E i \in reached : ~Defined(i)
    /\ outcome.error = "none" =>
         /\ insts[outcome.id].type = outcome.type
         /\ \A i \in reached : Stored(i) /\ ~OnCycle(i)

(***************************************************************************)
(* However a resolution failed, what it stored is complete: an instance    *)
(* made by a factory has all the dependencies its factory declares, of the *)
(* types it declares (injector.h:249-265).                                 *)
(***************************************************************************)
StoredIsWired ==
  \A i \in Ids : Stored(i) =>
    \A k \in DOMAIN factories[i].deps :
      LET d == factories[i].deps[k] IN insts[d.id].type = d.type

(***************************************************************************)
(* get() returns references.  The instance behind one stays; only one that *)
(* was given out early, by a get() that a factory called while a frame     *)
(* below was making the same id, is replaced, and then by a newer one:     *)
(* line 265 stores what that frame's own factory makes.                    *)
(***************************************************************************)
ReferencesStay ==
  \A r \in given :
    \/ insts[r.id].serial = r.serial
    \/ r.early /\ insts[r.id].serial > r.serial
=============================================================================
