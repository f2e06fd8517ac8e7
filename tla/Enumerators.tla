----------------------------- MODULE Enumerators -----------------------------
(***************************************************************************)
(* linqcpp_lazy/src/linq.h: pipelines of where and select that run over    *)
(* the program's vector when they are asked for a result, and for what     *)
(* they compute linqcpp/src/linq.h, which runs each stage at once.         *)
(***************************************************************************)
EXTENDS Integers, Sequences

CONSTANTS
  Enumerables,    \* the variables of the program
  Values,
  Predicates,     \* sets of values
  Transforms,     \* functions from values to values
  MaxSize,        \* bound: size of the vector
  MaxStages, MaxNodes  \* bounds: stages of a pipeline, enumerators made

VARIABLES
  vector,         \* the vector from() was called with
  enumerator_,    \* the enumerator of each enumerable, 0: it does not exist
  nodes,          \* the enumerators made so far
  undefined

vars == <<vector, enumerator_, nodes, undefined>>

(***************************************************************************)
(* A clone is deep, so an enumerator is an iterator with all the stages    *)
(* over it.  current: 0 before the first move_next (not initialized_),     *)
(* else the position of current_.  valid: the vector's iterators still are.*)
(***************************************************************************)
Deleted == [stages |-> <<>>, current |-> 0, valid |-> FALSE, deleted |-> TRUE]
make_enumerator == [stages |-> <<>>, current |-> 0, valid |-> TRUE, deleted |-> FALSE]

Init ==
  /\ \E n \in 0..MaxSize : vector \in [1..n -> Values]
  /\ enumerator_ = [e \in Enumerables |-> 0]
  /\ nodes = <<>> /\ undefined = FALSE

Exists(e) == enumerator_[e] # 0
Node(e) == nodes[enumerator_[e]]

-----------------------------------------------------------------------------
(* get_current through the first k stages, with the vector's iterator at pos. *)
get_current(stages, pos, k) ==
  LET through[i \in 0..Len(stages)] ==
        IF i = 0 THEN vector[pos]
        ELSE IF stages[i].op = "select" THEN stages[i].transform[through[i - 1]] ELSE through[i - 1]
  IN  through[k]

(***************************************************************************)
(* move_next, as the function from where the iterator is to where it goes. *)
(* where asks its parent until a value passes or there is none.            *)
(***************************************************************************)
where_move(stages, k, parent) ==
  LET next[pos \in 0..Len(vector)] ==
        IF parent[pos] > Len(vector) \/ get_current(stages, parent[pos], k - 1) \in stages[k].predicate
        THEN parent[pos] ELSE next[parent[pos]]
  IN  next

move_next(stages) ==
  LET next[k \in 0..Len(stages)] ==
        IF k = 0 THEN [pos \in 0..Len(vector) |-> pos + 1]
        ELSE IF stages[k].op = "select" THEN next[k - 1] ELSE where_move(stages, k, next[k - 1])
  IN  next[Len(stages)]

Move(n) == [n EXCEPT !.current = move_next(n.stages)[@]]
AtEnd(n) == n.current > Len(vector)

(* A mutant of reset: an enumerator that any() left on its way stays there. *)
resetAtEnd(n) == IF n.current > Len(vector) THEN [n EXCEPT !.current = 0] ELSE n

reset(n) == [n EXCEPT !.current = 0]

Where(n, p) == [n EXCEPT !.stages = Append(@, [op |-> "where", predicate |-> p])]
Select(n, f) == [n EXCEPT !.stages = Append(@, [op |-> "select", transform |-> f])]

(* The loop of count and to_vector: r is the enumerator and the result so far. *)
Iterate(r) ==
  LET m == Move(r.node) IN
  IF AtEnd(r.node) THEN r
  ELSE [node |-> m,
        result |-> IF AtEnd(m) THEN r.result
                   ELSE Append(r.result, get_current(m.stages, m.current, Len(m.stages)))]

to_vector(n) ==
  LET ran[k \in 0..(Len(vector) + 1)] ==
        IF k = 0 THEN [node |-> reset(n), result |-> <<>>] ELSE Iterate(ran[k - 1])
  IN  ran[Len(vector) + 1]

count(n) == Len(to_vector(n).result)
any(n) == ~AtEnd(Move(reset(n)))
any_pred(n, p) == any(Where(n, p))
count_pred(n, p) == count(Where(n, p))

-----------------------------------------------------------------------------
(* A new enumerable whose constructor clones n. *)
Constructs(e, n) ==
  /\ ~Exists(e) /\ Len(nodes) < MaxNodes
  /\ nodes' = Append(nodes, n) /\ enumerator_' = [enumerator_ EXCEPT ![e] = Len(nodes) + 1]
  /\ UNCHANGED <<vector, undefined>>

from(e) == Constructs(e, make_enumerator)

(* Code that uses src: it must own an enumerator that is not deleted. *)
Uses(src, A) ==
  /\ Exists(src)
  /\ IF Node(src).deleted THEN undefined' = TRUE /\ UNCHANGED <<vector, enumerator_, nodes>> ELSE A

where(e, src, p) == Uses(src, Len(Node(src).stages) < MaxStages /\ Constructs(e, Where(Node(src), p)))
select(e, src, f) == Uses(src, Len(Node(src).stages) < MaxStages /\ Constructs(e, Select(Node(src), f)))

(* to_vector, count and any leave the enumerator where they stopped. *)
Runs(e, n) ==
  Uses(e,
    IF Node(e).valid
    THEN nodes' = [nodes EXCEPT ![enumerator_[e]] = n] /\ UNCHANGED <<vector, enumerator_, undefined>>
    ELSE undefined' = TRUE /\ UNCHANGED <<vector, enumerator_, nodes>>)

RunsToEnd(e) == Exists(e) /\ Runs(e, to_vector(Node(e)).node)
RunsToFirst(e) == Exists(e) /\ Runs(e, Move(reset(Node(e))))

(* The copy constructor the compiler declares copies the pointer. *)
copy(e, src) ==
  /\ Exists(src) /\ ~Exists(e)
  /\ enumerator_' = [enumerator_ EXCEPT ![e] = enumerator_[src]] /\ UNCHANGED <<vector, nodes, undefined>>

destroy(e) ==
  Uses(e, /\ nodes' = [nodes EXCEPT ![enumerator_[e]] = Deleted]
          /\ enumerator_' = [enumerator_ EXCEPT ![e] = 0] /\ UNCHANGED <<vector, undefined>>)

(* The program writes to its vector, or makes it longer, which moves its elements. *)
Overwrite(k, x) ==
  k \in DOMAIN vector /\ vector' = [vector EXCEPT ![k] = x] /\ UNCHANGED <<enumerator_, nodes, undefined>>

Grow(x) ==
  /\ Len(vector) < MaxSize /\ vector' = Append(vector, x)
  /\ nodes' = [k \in DOMAIN nodes |-> [nodes[k] EXCEPT !.valid = FALSE]]
  /\ UNCHANGED <<enumerator_, undefined>>

Next ==
  /\ ~undefined
  /\ \/ \E e \in Enumerables : from(e) \/ RunsToEnd(e) \/ RunsToFirst(e) \/ destroy(e)
     \/ \E e, src \in Enumerables :
          \/ copy(e, src)
          \/ \E p \in Predicates : where(e, src, p)
          \/ \E f \in Transforms : select(e, src, f)
     \/ \E x \in Values : Grow(x) \/ \E k \in 1..MaxSize : Overwrite(k, x)

Spec == Init /\ [][Next]_vars
-----------------------------------------------------------------------------
(* linqcpp: an enumerable is the vector of its elements. *)
EagerWhere(collection, p) ==
  LET kept[k \in 0..Len(collection)] ==
        IF k = 0 THEN <<>>
        ELSE IF collection[k] \in p THEN Append(kept[k - 1], collection[k]) ELSE kept[k - 1]
  IN  kept[Len(collection)]
EagerSelect(collection, f) == [k \in DOMAIN collection |-> f[collection[k]]]
EagerCount(collection, p) == Len(EagerWhere(collection, p))
EagerAny(collection, p) == \E k \in DOMAIN collection : collection[k] \in p

Eager(stages) ==
  LET through[k \in 0..Len(stages)] ==
        IF k = 0 THEN vector
        ELSE IF stages[k].op = "where" THEN EagerWhere(through[k - 1], stages[k].predicate)
             ELSE EagerSelect(through[k - 1], stages[k].transform)
  IN  through[Len(stages)]

(***************************************************************************)
(* Wherever earlier results, copies of pipelines and writes to the vector  *)
(* left it, a lazy pipeline gives the elements, the counts and the answers *)
(* that the eager one gives for what the vector contains now, until the    *)
(* vector has moved or its enumerator is deleted.                          *)
(***************************************************************************)
LazyIsEager ==
  \A e \in Enumerables :
    IF Exists(e) /\ ~undefined
    THEN LET n == Node(e) now == Eager(n.stages) IN
         n.valid /\ ~n.deleted =>
           /\ to_vector(n).result = now
           /\ any(n) = (now # <<>>)
           /\ \A p \in Predicates :
                count_pred(n, p) = EagerCount(now, p) /\ any_pred(n, p) = EagerAny(now, p)
    ELSE TRUE
=============================================================================
