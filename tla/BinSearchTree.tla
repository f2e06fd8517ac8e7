---------------------------- MODULE BinSearchTree ----------------------------
(***************************************************************************)
(* bin_search_tree of exceptions: insertion of a key and of a range of     *)
(* keys into an unbalanced search tree, while any call of operator new may *)
(* throw (faults.cpp).  A range insertion allocates all its nodes, then    *)
(* inserts them one by one; if a key is there already it erases again what *)
(* it has inserted, and throws.                                            *)
(*                                                                         *)
(* Keys (std::string in the program) are the numbers of their places in    *)
(* the order; a machine can hold finitely many different ones.  A node is  *)
(* known by its key: the tree never has two nodes of one key, and a node   *)
(* that could not be inserted is deleted without being looked at again.    *)
(* An access to a null or a deleted node is undefined behaviour: it is     *)
(* recorded, and nothing happens after it.                                 *)
(***************************************************************************)
EXTENDS Integers, Sequences, FiniteSets

CONSTANTS
  Keys,
  Values,
  MaxRange   \* bound: the length of a range

ASSUME KeysAssumption == Keys \subseteq Nat \ {0} /\ IsFiniteSet(Keys)
ASSUME MaxRangeAssumption == MaxRange \in Nat

VARIABLES
  tree,     \* the tree, see Tree
  op,       \* what the program is doing
  keys,     \* the keys of the range insertion that is going on
  val,      \* and the value its nodes get
  ix,       \* how many of its nodes have been allocated, or inserted
  erased,   \* how many of them have been erased again
  before,   \* history: the map when the range insertion began
  outcome   \* history: how the last insertion ended

range == <<keys, val, before>>
locals == <<range, ix, erased>>
vars == <<tree, op, locals, outcome>>

Null == 0
Ptr == Keys \cup {Null}

Tree == [nodes : SUBSET Keys,        \* the nodes in the tree
         root_ptr_ : Ptr,
         left_ptr_ : [Keys -> Ptr],
         right_ptr_ : [Keys -> Ptr],
         parent_ : [Keys -> Ptr],
         val_ : [Keys -> Values \cup {Null}],
         undefined : {"no", "null node", "deleted node"}]

Ranges == UNION {[1..n -> Keys] : n \in 0..MaxRange}

Empty ==
  [nodes |-> {}, root_ptr_ |-> Null, left_ptr_ |-> [k \in Keys |-> Null],
   right_ptr_ |-> [k \in Keys |-> Null], parent_ |-> [k \in Keys |-> Null],
   val_ |-> [k \in Keys |-> Null], undefined |-> "no"]

Init ==
  /\ tree = Empty
  /\ op = "idle"
  /\ outcome = "returned"
  /\ keys = <<>> /\ val = Null /\ before = [k \in {} |-> Null]
  /\ ix = 0 /\ erased = 0

-----------------------------------------------------------------------------
(* The tree t and what the functions of the class do to it.                *)

should_go_right(parent, key) == key > parent

\* The node of the key, or the one it would hang under.
find_nearest_node(t, key) ==
  LET descend[n \in Keys] ==
        LET next_child == IF should_go_right(n, key) THEN t.right_ptr_[n]
                          ELSE t.left_ptr_[n]
        IN  IF n = key \/ next_child = Null THEN n ELSE descend[next_child]
  IN  IF t.root_ptr_ = Null THEN Null ELSE descend[t.root_ptr_]

find(t, key) == find_nearest_node(t, key) = key

\* A mutant of insert_node: the new node always goes left.
insert_node_left(t, n) ==
  LET nearest_node == find_nearest_node(t, n)
  IN  IF nearest_node = Null THEN [t EXCEPT !.root_ptr_ = n]
      ELSE [t EXCEPT !.parent_[n] = nearest_node, !.left_ptr_[nearest_node] = n]

\* A mutant of insert_node: the parent is not set.
insert_node_orphan(t, n) ==
  LET nearest_node == find_nearest_node(t, n)
  IN  IF nearest_node = Null THEN [t EXCEPT !.root_ptr_ = n]
      ELSE IF should_go_right(nearest_node, n)
      THEN [t EXCEPT !.right_ptr_[nearest_node] = n]
      ELSE [t EXCEPT !.left_ptr_[nearest_node] = n]

\* A node, with what hangs under it, goes under the nearest node; at the root
\* it keeps its parent.  n is not a key of the tree.
insert_node(t, n) ==
  LET nearest_node == find_nearest_node(t, n)
  IN  IF nearest_node = Null THEN [t EXCEPT !.root_ptr_ = n]
      ELSE IF should_go_right(nearest_node, n)
      THEN [t EXCEPT !.parent_[n] = nearest_node, !.right_ptr_[nearest_node] = n]
      ELSE [t EXCEPT !.parent_[n] = nearest_node, !.left_ptr_[nearest_node] = n]

\* The key of a null node is not read before there is a node to compare with.
reinsert_node(t, n) ==
  IF n # Null THEN insert_node(t, n)
  ELSE IF t.root_ptr_ = Null THEN t
  ELSE [t EXCEPT !.undefined = "null node"]

\* The node and its place, before its subtrees come back.
Unlink(t, n) ==
  LET parent == t.parent_[n]
      rest == [t EXCEPT !.nodes = @ \ {n}, !.left_ptr_[n] = Null,
                        !.right_ptr_[n] = Null, !.parent_[n] = Null,
                        !.val_[n] = Null]
  IN  IF parent = Null THEN [rest EXCEPT !.root_ptr_ = Null]
      ELSE IF parent \notin t.nodes THEN [t EXCEPT !.undefined = "deleted node"]
      ELSE IF should_go_right(parent, n) THEN [rest EXCEPT !.right_ptr_[parent] = Null]
      ELSE [rest EXCEPT !.left_ptr_[parent] = Null]

\* Undefined behaviour ends a sequence of calls.
Then(t, u) == IF t.undefined = "no" THEN u ELSE t

erase_node(t, n) ==
  LET unlinked == Unlink(t, n)
      left == Then(unlinked, reinsert_node(unlinked, t.left_ptr_[n]))
  IN  Then(left, reinsert_node(left, t.right_ptr_[n]))

\* insert_node of a new node.
Add(t, key, value) ==
  insert_node([t EXCEPT !.nodes = @ \cup {key}, !.val_[key] = value], key)

Contents(t) == [k \in t.nodes |-> t.val_[k]]

-----------------------------------------------------------------------------
\* The end of a call, and of its local variables.
Return(how) ==
  /\ op' = "idle"
  /\ outcome' = how
  /\ keys' = <<>> /\ val' = Null /\ before' = [k \in {} |-> Null]
  /\ ix' = 0 /\ erased' = 0

\* insert(key, val): operator new may throw, and so may insert_node.
Insert(key, value) ==
  /\ op = "idle"
  /\ ~find(tree, key)
  /\ tree' = Add(tree, key, value)
  /\ Return("returned")

InsertThrows ==
  /\ op = "idle"
  /\ Return("thrown")
  /\ UNCHANGED tree

-----------------------------------------------------------------------------
(* insert(kbegin, kend, vbegin)                                            *)

\* All nodes get the value vbegin points to at first: the loop advances
\* vbegin and reads vit.
RangeBegins(ks, value) ==
  /\ op = "idle"
  /\ op' = "allocate"
  /\ keys' = ks
  /\ val' = value
  /\ ix' = 0
  /\ before' = Contents(tree)
  /\ UNCHANGED <<tree, erased, outcome>>

Allocate ==
  /\ op = "allocate"
  /\ ix < Len(keys)
  /\ ix' = ix + 1
  /\ UNCHANGED <<tree, op, range, erased, outcome>>

\* reserve, operator new or the copy of a key or a value throws: the nodes
\* allocated so far go with the vector.
AllocateThrows ==
  /\ op = "allocate"
  /\ Return("thrown")
  /\ UNCHANGED tree

Allocated ==
  /\ op = "allocate"
  /\ ix = Len(keys)
  /\ op' = "insert"
  /\ ix' = 0
  /\ UNCHANGED <<tree, range, erased, outcome>>

InsertNext ==
  /\ op = "insert"
  /\ ix < Len(keys)
  /\ ~find(tree, keys[ix + 1])
  /\ tree' = Add(tree, keys[ix + 1], val)
  /\ ix' = ix + 1
  /\ UNCHANGED <<op, range, erased, outcome>>

\* A mutant of InsertNextThrows: the exception leaves without a rollback.
InsertNextGivesUp ==
  /\ op = "insert"
  /\ ix < Len(keys)
  /\ find(tree, keys[ix + 1])
  /\ Return("thrown")
  /\ UNCHANGED tree

InsertNextThrows ==
  /\ op = "insert"
  /\ ix < Len(keys)
  /\ find(tree, keys[ix + 1])
  /\ op' = "rollback"
  /\ erased' = 0
  /\ UNCHANGED <<tree, range, ix, outcome>>

RangeInserted ==
  /\ op = "insert"
  /\ ix = Len(keys)
  /\ Return("returned")
  /\ UNCHANGED tree

EraseNext ==
  /\ op = "rollback"
  /\ erased < ix
  /\ tree' = erase_node(tree, find_nearest_node(tree, keys[erased + 1]))
  /\ erased' = erased + 1
  /\ UNCHANGED <<op, range, ix, outcome>>

RolledBack ==
  /\ op = "rollback"
  /\ erased = ix
  /\ Return("thrown")
  /\ UNCHANGED tree

-----------------------------------------------------------------------------
\* Nothing happens after undefined behaviour.
RangeSteps ==
  /\ tree.undefined = "no"
  /\ \/ Allocate
     \/ AllocateThrows
     \/ Allocated
     \/ InsertNext
     \/ InsertNextThrows
     \/ RangeInserted
     \/ EraseNext
     \/ RolledBack

Calls ==
  /\ tree.undefined = "no"
  /\ \/ \E k \in Keys, v \in Values : Insert(k, v)
     \/ InsertThrows
     \/ \E ks \in Ranges, v \in Values : RangeBegins(ks, v)

Next == Calls \/ RangeSteps

\* A range insertion goes on until it ends.
Spec == Init /\ [][Next]_vars /\ WF_vars(RangeSteps)

-----------------------------------------------------------------------------
TypeOK ==
  /\ tree \in Tree
  /\ op \in {"idle", "allocate", "insert", "rollback"}
  /\ keys \in Ranges
  /\ val \in Values \cup {Null}
  /\ ix \in 0..MaxRange
  /\ erased \in 0..MaxRange
  /\ DOMAIN before \subseteq Keys /\ \A k \in DOMAIN before : before[k] \in Values
  /\ outcome \in {"returned", "thrown"}

\* find() finds exactly the keys in the tree, also while a range insertion
\* inserts and erases.
FindsTheKeys ==
  tree.undefined = "no" => \A k \in Keys : find(tree, k) <=> k \in tree.nodes

\* Between the calls every node's parent_ is the node that it hangs under: it
\* is what a later rollback will follow.
ParentsMatch ==
  op = "idle" =>
    \A k \in tree.nodes :
      IF tree.root_ptr_ = k THEN tree.parent_[k] = Null
      ELSE /\ tree.parent_[k] \in tree.nodes
           /\ k \in {tree.left_ptr_[tree.parent_[k]], tree.right_ptr_[tree.parent_[k]]}

\* An insertion inserts all its keys or leaves the tree as it was, wherever
\* an exception strikes.  A rollback that runs into undefined behaviour never
\* ends, and keeps no promise.
keyMap == INSTANCE KeyMap WITH
  contents <- IF op = "idle" THEN Contents(tree) ELSE before

AllOrNothing == keyMap!Spec

\* What the comment on the declaration of the range insertion says: a key
\* that is there already makes it throw.
DuplicateThrows == op = "rollback" ~> op = "idle" /\ outcome = "thrown"
=============================================================================
