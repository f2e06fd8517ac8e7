----------------------------- MODULE OwningPtrs -----------------------------
(***************************************************************************)
(* scoped_ptr and unique_ptr of simple_smart_ptrs, which own an object     *)
(* through one raw pointer, and the shared pointers that get_instance of   *)
(* smart_singleton gives out.  One thread.                                 *)
(***************************************************************************)
EXTENDS Integers, FiniteSets

CONSTANTS
  Ptrs,          \* the unique_ptrs (a scoped_ptr is one that is not moved)
  Clients,       \* the singleton's shared_ptrs
  MaxMade        \* bound: objects made

None == -1       \* no such variable
Null == 0

VARIABLES
  ptr_,          \* the object a pointer owns
  instance_,     \* the instance each client holds; the weak pointer sees what they see
  made,          \* objects made so far (create_count_ for the singleton)
  live,          \* the objects not deleted yet
  undefined,     \* an object was deleted twice
  misused        \* history: reset() was given a pointer that has an owner

vars == <<ptr_, instance_, made, live, undefined, misused>>

Init ==
  /\ ptr_ = [p \in Ptrs |-> None] /\ instance_ = [c \in Clients |-> Null]
  /\ made = 0 /\ live = {} /\ undefined = FALSE /\ misused = FALSE

Exists(p) == ptr_[p] # None
New == made + 1
Makes(n) == made + n <= MaxMade /\ made' = made + n

(* "delete" of what dead names, while the new object, if any, comes to life. *)
Deletes(dead, new) ==
  /\ live' = (live \ {dead}) \cup new
  /\ undefined' = (dead # Null /\ dead \notin live)

Keeps == UNCHANGED <<made, live, undefined>>

(* The constructors: a new object, or none (pimpl_example owns one so). *)
construct(p) ==
  /\ ~Exists(p)
  /\ \/ ptr_' = [ptr_ EXCEPT ![p] = Null] /\ Keeps
     \/ ptr_' = [ptr_ EXCEPT ![p] = New] /\ Makes(1) /\ Deletes(Null, {New})
  /\ UNCHANGED <<instance_, misused>>

(* reset(ptr) deletes and then stores, without a look at what it stores. *)
reset(p) ==
  /\ Exists(p)
  /\ \/ ptr_' = [ptr_ EXCEPT ![p] = Null] /\ Deletes(ptr_[p], {}) /\ UNCHANGED <<made, misused>>
     \/ ptr_' = [ptr_ EXCEPT ![p] = New] /\ Makes(1) /\ Deletes(ptr_[p], {New}) /\ UNCHANGED misused
     \/ \E q \in Ptrs :                                                    \* reset(q.get())
          /\ ptr_[q] > Null /\ misused' = TRUE
          /\ ptr_' = [ptr_ EXCEPT ![p] = ptr_[q]] /\ Deletes(ptr_[p], {}) /\ UNCHANGED made
  /\ UNCHANGED instance_

destroy(p) ==
  /\ Exists(p) /\ ptr_' = [ptr_ EXCEPT ![p] = None] /\ Deletes(ptr_[p], {})
  /\ UNCHANGED <<instance_, made, misused>>

(* A mutant of MoveConstruct: the source keeps its pointer. *)
MoveConstructShared(p, q) ==
  /\ ~Exists(p) /\ Exists(q) /\ ptr_' = [ptr_ EXCEPT ![p] = ptr_[q]]
  /\ Keeps /\ UNCHANGED <<instance_, misused>>

MoveConstruct(p, q) ==
  /\ ~Exists(p) /\ Exists(q) /\ ptr_' = [ptr_ EXCEPT ![p] = ptr_[q], ![q] = Null]
  /\ Keeps /\ UNCHANGED <<instance_, misused>>

(* operator=(unique_ptr&&): nothing for two that are equal, itself included. *)
MoveAssign(p, q) ==
  /\ Exists(p) /\ Exists(q) /\ ptr_[p] # ptr_[q]
  /\ ptr_' = [ptr_ EXCEPT ![p] = ptr_[q], ![q] = Null] /\ Deletes(ptr_[p], {})
  /\ UNCHANGED <<instance_, made, misused>>

Swap(p, q) ==
  /\ Exists(p) /\ Exists(q) /\ ptr_' = [ptr_ EXCEPT ![p] = ptr_[q], ![q] = ptr_[p]]
  /\ Keeps /\ UNCHANGED <<instance_, misused>>

(***************************************************************************)
(* get_instance locks the weak pointer, which sees the instance as long as *)
(* some client holds it, and makes another one when it has expired.        *)
(***************************************************************************)
Held == {instance_[c] : c \in Clients} \ {Null}
DiesWith(c) == IF \E d \in Clients \ {c} : instance_[d] = instance_[c] THEN Null ELSE instance_[c]

get_instance(c) ==
  /\ IF Held = {}
     THEN instance_' = [instance_ EXCEPT ![c] = New] /\ Makes(1) /\ Deletes(Null, {New})
     ELSE instance_' = [instance_ EXCEPT ![c] = CHOOSE o \in Held : TRUE] /\ Keeps
  /\ UNCHANGED <<ptr_, misused>>

ResetInstance(c) ==
  /\ instance_' = [instance_ EXCEPT ![c] = Null] /\ Deletes(DiesWith(c), {})
  /\ UNCHANGED <<ptr_, made, misused>>

Next ==
  /\ ~undefined
  /\ \/ \E p \in Ptrs : construct(p) \/ reset(p) \/ destroy(p)
     \/ \E p, q \in Ptrs : MoveConstruct(p, q) \/ MoveAssign(p, q) \/ Swap(p, q)
     \/ \E c \in Clients : get_instance(c) \/ ResetInstance(c)

Spec == Init /\ [][Next]_vars
-----------------------------------------------------------------------------
TypeOK ==
  /\ ptr_ \in [Ptrs -> None..MaxMade] /\ instance_ \in [Clients -> Null..MaxMade]
  /\ made \in 0..MaxMade /\ live \subseteq 1..made /\ undefined \in BOOLEAN /\ misused \in BOOLEAN

(***************************************************************************)
(* Until reset() is given a pointer that has an owner, the live objects    *)
(* are exactly the owned ones and each has one owner, so that nothing is   *)
(* deleted twice, leaked or used after; and the singleton has at most one  *)
(* instance, whoever came and went (smart_singleton/src/main.cpp:61-67).   *)
(***************************************************************************)
OwnedOnce ==
  /\ undefined => misused
  /\ Cardinality(Held) <= 1 /\ (~undefined => Held \subseteq live)
  /\ ~misused =>
       /\ live = Held \cup {ptr_[p] : p \in {q \in Ptrs : ptr_[q] > Null}}
       /\ \A p, q \in Ptrs : p # q /\ ptr_[p] > Null => ptr_[p] # ptr_[q]
=============================================================================
