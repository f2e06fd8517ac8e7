------------------------------ MODULE SharedPtr ------------------------------
(***************************************************************************)
(* shared_ptr and weak_ptr of simple_smart_ptrs.  A handle points to a     *)
(* control block that counts the handles and owns an object; one thread    *)
(* constructs, copies, moves, assigns, swaps, resets and destroys handles  *)
(* in any order.  Every raw pointer is given to one shared_ptr only.       *)
(*                                                                         *)
(* An operation that touches a control block that was freed, or deletes an *)
(* object again, is undefined behaviour: undefined says so, and nothing    *)
(* happens after it.                                                       *)
(* The templates weak_ptr::operator= are left out, since they return no    *)
(* value and do not compile under the program's -Wall -Werror; a weak_ptr  *)
(* is copied and assigned by the operations the compiler provides.         *)
(***************************************************************************)
EXTENDS Integers, FiniteSets, Sequences

CONSTANTS
  Shared, Weak,   \* the names of the handles
  MaxBlocks,      \* bound: control blocks allocated in one behaviour
  MaxObjects,     \* bound: objects allocated in one behaviour
  MaxCopies,      \* bound: copies of weak_ptrs in one behaviour
  SizeMax         \* the largest value of size_t

\* There are never as many handles as size_t has values, the temporary one of
\* operator= included: each takes more than a byte of memory.
ASSUME HandlesAssumption ==
  /\ IsFiniteSet(Shared) /\ IsFiniteSet(Weak) /\ Shared \cap Weak = {}
  /\ Cardinality(Shared) + 2 =< SizeMax /\ Cardinality(Weak) =< SizeMax
ASSUME BoundsAssumption ==
  /\ MaxBlocks \in Nat /\ MaxObjects \in Nat /\ MaxCopies \in Nat
  /\ SizeMax \in Nat \ {0}

VARIABLES
  shared_,   \* shared_[h]: the control block handle h points to
  blocks,    \* the control blocks ever allocated
  deleted,   \* deleted[o]: object o has been deleted
  undefined, \* what made the behaviour undefined, or "no"
  revived,   \* history: objects a shared_ptr was made to after they died
  uncounted, \* history: blocks a weak_ptr was copied to or dropped from
             \* without being counted
  assigned,  \* history: the blocks operator= has left behind
  copies     \* weak_ptrs copied so far

mem == <<blocks, deleted, undefined>>
history == <<revived, uncounted, assigned, copies>>
vars == <<shared_, mem, history>>

None == -1   \* the handle does not exist
Null == 0

Handles == Shared \cup Weak
Exists(h) == shared_[h] # None
Allocated == DOMAIN blocks
Objects == DOMAIN deleted

Block == [ref_cnt_ : 0..SizeMax, weak_ref_cnt_ : 0..SizeMax,
          ptr_ : 0..MaxObjects, freed : BOOLEAN]

Init ==
  /\ shared_ = [h \in Handles |-> None]
  /\ blocks = <<>>
  /\ deleted = <<>>
  /\ undefined = "no"
  /\ revived = {}
  /\ uncounted = {}
  /\ assigned = {}
  /\ copies = 0

\* size_t arithmetic wraps around.
Succ(n) == IF n = SizeMax THEN 0 ELSE n + 1
Pred(n) == IF n = 0 THEN SizeMax ELSE n - 1

-----------------------------------------------------------------------------
(* What the operations do to the memory, a record of its three parts.      *)

Memory == [blocks |-> blocks, deleted |-> deleted, undefined |-> undefined]
Becomes(m) ==
  /\ blocks' = m.blocks
  /\ deleted' = m.deleted
  /\ undefined' = m.undefined

\* Every operation tests for the null pointer; a freed block it would touch.
Usable(m, b) == b # Null /\ ~m.blocks[b].freed
Unusable(m, b) ==
  IF b = Null THEN m ELSE [m EXCEPT !.undefined = "freed block"]

\* A new control block to object o, with one owner.
New(m, o) ==
  [m EXCEPT !.blocks = Append(@, [ref_cnt_ |-> 1, weak_ref_cnt_ |-> 0,
                                  ptr_ |-> o, freed |-> FALSE])]
CanAllocate == Len(blocks) < MaxBlocks

\* A new object, not deleted yet.
Create(m) == [m EXCEPT !.deleted = Append(@, FALSE)]
CanCreate == Len(deleted) < MaxObjects

\* The default deleter; deleting a null pointer does nothing.
Delete(m, o) ==
  IF o = Null THEN m
  ELSE IF m.deleted[o] THEN [m EXCEPT !.undefined = "dead object"]
  ELSE [m EXCEPT !.deleted[o] = TRUE]

\* shared_ptr::add_ref and ~shared_ptr.
AddRef(m, b) ==
  IF Usable(m, b) THEN [m EXCEPT !.blocks[b].ref_cnt_ = Succ(@)]
  ELSE Unusable(m, b)

\* A mutant of Release: the block is freed with the object.
ReleaseBlock(m, b) ==
  LET count == Pred(m.blocks[b].ref_cnt_)
      less == [m EXCEPT !.blocks[b].ref_cnt_ = count]
  IN  IF ~Usable(m, b) THEN Unusable(m, b)
      ELSE IF count # 0 THEN less
      ELSE [Delete(less, m.blocks[b].ptr_) EXCEPT !.blocks[b].freed = TRUE]

Release(m, b) ==
  LET count == Pred(m.blocks[b].ref_cnt_)
      less == [m EXCEPT !.blocks[b].ref_cnt_ = count]
  IN  IF ~Usable(m, b) THEN Unusable(m, b)
      ELSE IF count # 0 THEN less
      ELSE [Delete(less, m.blocks[b].ptr_)
              EXCEPT !.blocks[b].freed = m.blocks[b].weak_ref_cnt_ = 0]

\* weak_ptr::add_ref and ~weak_ptr.
WeakAddRef(m, b) ==
  IF Usable(m, b) THEN [m EXCEPT !.blocks[b].weak_ref_cnt_ = Succ(@)]
  ELSE Unusable(m, b)

WeakRelease(m, b) ==
  LET count == Pred(m.blocks[b].weak_ref_cnt_)
  IN  IF ~Usable(m, b) THEN Unusable(m, b)
      ELSE [m EXCEPT !.blocks[b].weak_ref_cnt_ = count,
                     !.blocks[b].freed = count = 0 /\ m.blocks[b].ref_cnt_ = 0]

-----------------------------------------------------------------------------
(* shared_ptr                                                              *)

Set(h, b) == shared_' = [shared_ EXCEPT ![h] = b]
Exchange(g, h) == shared_' = [shared_ EXCEPT ![g] = shared_[h], ![h] = shared_[g]]

DefaultConstruct(s) ==
  /\ ~Exists(s)
  /\ CanAllocate
  /\ Becomes(New(Memory, Null))
  /\ Set(s, Len(blocks'))
  /\ UNCHANGED history

\* The caller allocates the object it hands over.
Construct(s) ==
  /\ ~Exists(s)
  /\ CanAllocate /\ CanCreate
  /\ Becomes(New(Create(Memory), Len(deleted) + 1))
  /\ Set(s, Len(blocks'))
  /\ UNCHANGED history

CopyConstruct(s, src) ==
  /\ ~Exists(s) /\ Exists(src)
  /\ Becomes(AddRef(Memory, shared_[src]))
  /\ Set(s, shared_[src])
  /\ UNCHANGED history

\* The source is left with a default block of its own.
MoveConstruct(s, src) ==
  /\ ~Exists(s) /\ Exists(src)
  /\ CanAllocate
  /\ Becomes(New(Memory, Null))
  /\ shared_' = [shared_ EXCEPT ![s] = shared_[src], ![src] = Len(blocks')]
  /\ UNCHANGED history

\* Also weak_ptr::lock: the count is not looked at.
ConstructFromWeak(s, w) ==
  LET b == shared_[w] IN
  /\ ~Exists(s) /\ Exists(w)
  /\ Becomes(AddRef(Memory, b))
  /\ Set(s, b)
  /\ revived' = IF b # Null /\ blocks[b].ref_cnt_ = 0
                THEN revived \cup {blocks[b].ptr_} ELSE revived
  /\ UNCHANGED <<uncounted, assigned, copies>>

\* A mutant of Assign: the old block is not released.
AssignOver(s, src) ==
  LET default == Len(blocks) + 1
      source == IF src = s THEN default ELSE shared_[src]
  IN
  /\ Exists(s) /\ Exists(src)
  /\ CanAllocate
  /\ Becomes(AddRef(New(Memory, Null), source))
  /\ Set(s, source)
  /\ assigned' = assigned \cup {default}
  /\ UNCHANGED <<revived, uncounted, copies>>

\* A default block is swapped in, then overwritten with src's block, which is
\* the default block itself if s is assigned to itself; the old block goes
\* with tmp.
Assign(s, src) ==
  LET default == Len(blocks) + 1
      source == IF src = s THEN default ELSE shared_[src]
  IN
  /\ Exists(s) /\ Exists(src)
  /\ CanAllocate
  /\ Becomes(Release(AddRef(New(Memory, Null), source), shared_[s]))
  /\ Set(s, source)
  /\ assigned' = assigned \cup {default}
  /\ UNCHANGED <<revived, uncounted, copies>>

Destroy(s) ==
  /\ Exists(s)
  /\ Becomes(Release(Memory, shared_[s]))
  /\ Set(s, None)
  /\ UNCHANGED history

Reset(s) ==
  /\ Exists(s)
  /\ CanAllocate
  /\ Becomes(Release(New(Memory, Null), shared_[s]))
  /\ Set(s, Len(blocks'))
  /\ UNCHANGED history

ResetTo(s) ==
  /\ Exists(s)
  /\ CanAllocate /\ CanCreate
  /\ Becomes(Release(New(Create(Memory), Len(deleted) + 1), shared_[s]))
  /\ Set(s, Len(blocks'))
  /\ UNCHANGED history

Swap(g, h) ==
  /\ Exists(g) /\ Exists(h)
  /\ Exchange(g, h)
  /\ UNCHANGED <<mem, history>>

-----------------------------------------------------------------------------
(* weak_ptr                                                                *)

WeakDefaultConstruct(w) ==
  /\ ~Exists(w)
  /\ Set(w, Null)
  /\ UNCHANGED <<mem, history>>

\* A mutant of WeakConstruct: the reference is not counted.
WeakConstructUncounted(w, s) ==
  /\ ~Exists(w) /\ Exists(s)
  /\ Set(w, shared_[s])
  /\ UNCHANGED <<mem, history>>

WeakConstruct(w, s) ==
  /\ ~Exists(w) /\ Exists(s)
  /\ Becomes(WeakAddRef(Memory, shared_[s]))
  /\ Set(w, shared_[s])
  /\ UNCHANGED history

\* The copy constructor and the assignment the compiler provides: the member
\* templates are neither.
WeakCopy(w, src) ==
  /\ Exists(src)
  /\ shared_[w] # shared_[src]
  /\ copies < MaxCopies
  /\ copies' = copies + 1
  /\ Set(w, shared_[src])
  /\ uncounted' = uncounted \cup ({shared_[w], shared_[src]} \ {None, Null})
  /\ UNCHANGED <<mem, revived, assigned>>

WeakDestroy(w) ==
  /\ Exists(w)
  /\ Becomes(WeakRelease(Memory, shared_[w]))
  /\ Set(w, None)
  /\ UNCHANGED history

WeakReset(w) ==
  /\ Exists(w)
  /\ Becomes(WeakRelease(Memory, shared_[w]))
  /\ Set(w, Null)
  /\ UNCHANGED history

-----------------------------------------------------------------------------
SharedOp(s) ==
  \/ DefaultConstruct(s)
  \/ Construct(s)
  \/ Destroy(s)
  \/ Reset(s)
  \/ ResetTo(s)
  \/ \E src \in Shared : CopyConstruct(s, src) \/ MoveConstruct(s, src)
                         \/ Assign(s, src) \/ Swap(s, src)
  \/ \E w \in Weak : ConstructFromWeak(s, w)

WeakOp(w) ==
  \/ WeakDefaultConstruct(w)
  \/ WeakDestroy(w)
  \/ WeakReset(w)
  \/ \E s \in Shared : WeakConstruct(w, s)
  \/ \E src \in Weak : WeakCopy(w, src) \/ Swap(w, src)

Next ==
  /\ undefined = "no"
  /\ (\E s \in Shared : SharedOp(s)) \/ (\E w \in Weak : WeakOp(w))

Spec == Init /\ [][Next]_vars

-----------------------------------------------------------------------------
TypeOK ==
  /\ shared_ \in [Handles -> None..Len(blocks)]
  /\ blocks \in Seq(Block) /\ Len(blocks) =< MaxBlocks
  /\ deleted \in Seq(BOOLEAN) /\ Len(deleted) =< MaxObjects
  /\ undefined \in {"no", "freed block", "dead object"}
  /\ revived \subseteq 0..MaxObjects
  /\ uncounted \subseteq Allocated
  /\ assigned \subseteq Allocated
  /\ copies \in 0..MaxCopies

Pointing(kind, b) == {h \in kind : shared_[h] = b}

\* The two counts are the numbers of the handles, except for weak handles
\* the compiler copied, and a block lives exactly as long as its handles,
\* except for the blocks operator= leaves behind.
CountsHandles ==
  undefined = "no" =>
    \A b \in Allocated \ uncounted :
      IF Pointing(Handles, b) = {} /\ b \notin assigned THEN blocks[b].freed
      ELSE /\ ~blocks[b].freed
           /\ blocks[b].weak_ref_cnt_ = Cardinality(Pointing(Weak, b))
           /\ b \notin assigned =>
                blocks[b].ref_cnt_ = Cardinality(Pointing(Shared, b))

\* An object lives exactly as long as some shared_ptr owns it, whatever is
\* copied, moved, assigned or swapped, except for one that a shared_ptr was
\* made to after its death.
OwnedObjectsLive ==
  undefined = "no" =>
    \A o \in Objects \ revived :
      deleted[o] <=> ~\E s \in Shared :
                        shared_[s] > Null /\ blocks[shared_[s]].ptr_ = o

\* A freed block is touched only if a weak_ptr to it was copied, and an
\* object deleted again only if it was locked after its death.
UndefinedForAReason ==
  /\ undefined = "freed block" => uncounted # {}
  /\ undefined = "dead object" => revived # {}
=============================================================================
