------------------------ MODULE BinSearchTree_proofs ------------------------
(***************************************************************************)
(* What bin_search_tree promises, for every set of keys and ranges of any  *)
(* length.                                                                 *)
(***************************************************************************)
EXTENDS BinSearchTree, FiniteSetTheorems, FunctionTheorems, WellFoundedInduction, TLAPS

\* A set of naturals has a smallest element; the lemmas about the tree take
\* the smallest counterexample where one would use induction.
LEMMA Smallest ==
  ASSUME NEW T \in SUBSET Nat, T # {}
  PROVE  \E x \in T : \A y \in T : x <= y
<1> DEFINE R == {ss \in Nat \X Nat : ss[1] < ss[2]}
<1>1. IsWellFoundedOn(R, Nat) BY NatLessThanWellFounded, Zenon DEF OpToRel
<1>2. \A y, z \in Nat : y < z => <<y, z>> \in R OBVIOUS
<1> HIDE DEF R
<1>3. PICK x \in T : \A y \in T : ~(<<y, x>> \in R) BY <1>1, WFMin
<1> QED
  <2> SUFFICES ASSUME NEW y \in T PROVE x <= y
      OBVIOUS
  <2>1. ~(y < x) BY <1>2, <1>3
  <2> QED BY <2>1

\* There are finitely many keys: one number is above them all.
LEMMA Bounded == \E b \in Nat \ {0} : \A k \in Keys : k < b
<1>1. PICK n \in Nat : ExistsSurjection(1..n, Keys)
      BY KeysAssumption, FS_NatSurjection, Zenon
<1>2. PICK f \in [1..n -> Keys] : \A k \in Keys : \E i \in 1..n : f[i] = k
      BY <1>1 DEF ExistsSurjection, Surjection
<1> DEFINE Over(m) == \E b \in Nat \ {0} : \A i \in 1..m : f[i] < b
           Bad == {m \in 0..n : ~Over(m)}
<1>3. ASSUME Bad # {} PROVE FALSE
  <2>1. PICK m \in Bad : \A y \in Bad : m <= y
        <3>1. Bad \in SUBSET Nat OBVIOUS
        <3> HIDE DEF Bad
        <3> QED BY <1>3, <3>1, Smallest
  <2>2. Over(0) OBVIOUS
  <2>3. m \in 1..n BY <2>1, <2>2
  <2>4. m - 1 \in 0..n /\ ~(m <= m - 1) BY <2>3
  <2>5. Over(m - 1) BY <2>1, <2>4
  <2>6. PICK b \in Nat \ {0} : \A i \in 1..m-1 : f[i] < b BY <2>5
  <2>7. f[m] \in Nat BY <2>3, KeysAssumption
  <2>8. \E c \in Nat \ {0} : b <= c /\ f[m] < c
    <3>1. CASE f[m] < b BY <3>1, <2>6, <2>7
    <3>2. CASE ~(f[m] < b)
      <4>1. f[m] + 1 \in Nat \ {0} /\ b <= f[m] + 1 /\ f[m] < f[m] + 1
            BY <3>2, <2>6, <2>7
      <4> QED BY <4>1
    <3> QED BY <3>1, <3>2
  <2>9. PICK c \in Nat \ {0} : b <= c /\ f[m] < c BY <2>8
  <2>10. \A i \in 1..m : f[i] < c
    <3> TAKE i \in 1..m
    <3>1. CASE i = m BY <3>1, <2>9
    <3>2. CASE i # m
      <4>1. i \in 1..m-1 /\ i \in 1..n BY <3>2, <2>3
      <4>2. f[i] \in Nat BY <4>1, KeysAssumption
      <4>3. f[i] < b BY <4>1, <2>6
      <4> QED BY <4>2, <4>3, <2>6, <2>9
    <3> QED BY <3>1, <3>2
  <2> QED BY <2>1, <2>9, <2>10
<1>4. Over(n)
  <2>1. n \in 0..n OBVIOUS
  <2> QED BY <1>3, <2>1
<1>5. PICK b \in Nat \ {0} : \A i \in 1..n : f[i] < b BY <1>4
<1> QED BY <1>2, <1>5

Top == CHOOSE b \in Nat \ {0} : \A k \in Keys : k < b

\* The right end of the root's interval.
LEMMA TopType == Top \in Nat \ {0} /\ \A k \in Keys : k < Top
BY Bounded DEF Top

(***************************************************************************)
(* The shape of a tree with the nodes N, the root root and the links L and *)
(* R: every node n gets an interval (lo[n], hi[n]), the keys that belong   *)
(* into its subtree.                                                       *)
(***************************************************************************)
Bounds == [Keys -> 0..Top]

\* A node's own key is in its interval.
Within(N, lo, hi) == \A n \in N : lo[n] < n /\ n < hi[n]

\* A node splits its interval among its children; only nodes have children.
Linked(N, L, R, lo, hi) ==
  /\ \A n \in Keys \ N : L[n] = Null /\ R[n] = Null
  /\ \A n \in N : L[n] # Null => L[n] \in N /\ lo[L[n]] = lo[n] /\ hi[L[n]] = n
  /\ \A n \in N : R[n] # Null => R[n] \in N /\ lo[R[n]] = n /\ hi[R[n]] = hi[n]

\* Where a child is missing there is no node.
Complete(N, L, R, lo, hi) ==
  \A n, m \in N :
     /\ L[n] = Null => ~(lo[n] < m /\ m < n)
     /\ R[n] = Null => ~(n < m /\ m < hi[n])

\* Two intervals are apart, or one is on one side of the other's node.
Nested(N, lo, hi) ==
  \A m, n \in N : m < n =>
    \/ (lo[n] <= lo[m] /\ hi[m] <= n)
    \/ (m <= lo[n] /\ hi[n] <= hi[m])
    \/ hi[m] <= lo[n]

Rooted(N, root, lo, hi) ==
  IF root = Null THEN N = {} ELSE root \in N /\ lo[root] = 0 /\ hi[root] = Top

Shaped(N, root, L, R, lo, hi) ==
  /\ Within(N, lo, hi)
  /\ Linked(N, L, R, lo, hi)
  /\ Complete(N, L, R, lo, hi)
  /\ Nested(N, lo, hi)
  /\ Rooted(N, root, lo, hi)

TreeShaped(t, lo, hi) ==
  Shaped(t.nodes, t.root_ptr_, t.left_ptr_, t.right_ptr_, lo, hi)

(***************************************************************************)
(* find_nearest_node: the search ends, at a node that is the key's or has  *)
(* no child on the key's side.                                             *)
(***************************************************************************)
Child(t, key, n) == IF should_go_right(n, key) THEN t.right_ptr_[n] ELSE t.left_ptr_[n]

StopsAt(t, key, n) == n = key \/ Child(t, key, n) = Null

Descends(t, key, f) ==
  f = [n \in Keys |-> IF StopsAt(t, key, n) THEN n ELSE f[Child(t, key, n)]]

\* find_nearest_node is a search function from the root, if there is one.
LEMMA NearestIsDescent ==
  ASSUME NEW t, NEW key, \E f : Descends(t, key, f)
  PROVE  \E f : Descends(t, key, f)
                /\ find_nearest_node(t, key)
                     = IF t.root_ptr_ = Null THEN Null ELSE f[t.root_ptr_]
<1> DEFINE d == CHOOSE f : f = [n \in Keys |->
                  LET next_child == IF should_go_right(n, key) THEN t.right_ptr_[n]
                                    ELSE t.left_ptr_[n]
                  IN  IF n = key \/ next_child = Null THEN n ELSE f[next_child]]
<1>1. find_nearest_node(t, key) = IF t.root_ptr_ = Null THEN Null ELSE d[t.root_ptr_]
      BY Zenon DEF find_nearest_node
<1>2. Descends(t, key, d)
      BY Zenon DEF Descends, StopsAt, Child
<1> QED BY <1>1, <1>2, Zenon

Links(t) == t.left_ptr_ \in [Keys -> Ptr] /\ t.right_ptr_ \in [Keys -> Ptr]

\* There is one: the interval of a child is narrower than its parent's.
LEMMA DescentExists ==
  ASSUME NEW t, Links(t), NEW key \in Keys, NEW N \in SUBSET Keys,
         NEW lo \in Bounds, NEW hi \in Bounds,
         Within(N, lo, hi), Linked(N, t.left_ptr_, t.right_ptr_, lo, hi)
  PROVE  \E f \in [Keys -> Keys] : Descends(t, key, f)
<1> DEFINE rank == [n \in Keys |-> IF n \in N THEN hi[n] - lo[n] ELSE 0]
           Upto(d, f) == \A n \in Keys : rank[n] < d =>
              f[n] = IF StopsAt(t, key, n) THEN n ELSE f[Child(t, key, n)]
           Done(d) == \E f \in [Keys -> Keys] : Upto(d, f)
           Bad == {d \in Nat : ~Done(d)}
<1>1. \A n \in Keys : rank[n] \in 0..Top
      BY TopType, KeysAssumption DEF Bounds, Within
<1>2. \A n \in Keys : ~StopsAt(t, key, n) =>
         Child(t, key, n) \in Keys /\ rank[Child(t, key, n)] < rank[n]
  <2> TAKE n \in Keys
  <2> HAVE ~StopsAt(t, key, n)
  <2>1. n \in N BY DEF StopsAt, Child, Linked
  <2>2. /\ lo[n] \in Nat /\ hi[n] \in Nat /\ n \in Nat
        /\ lo[n] < n /\ n < hi[n]
        BY <2>1, TopType, KeysAssumption DEF Bounds, Within
  <2>3. CASE should_go_right(n, key)
    <3>1. Child(t, key, n) = t.right_ptr_[n] /\ t.right_ptr_[n] # Null
          BY <2>3 DEF StopsAt, Child
    <3>2. /\ t.right_ptr_[n] \in N /\ lo[t.right_ptr_[n]] = n
          /\ hi[t.right_ptr_[n]] = hi[n]
          BY <2>1, <3>1 DEF Linked
    <3>3. /\ rank[n] = hi[n] - lo[n]
          /\ rank[t.right_ptr_[n]] = hi[n] - n
          BY <2>1, <3>2
    <3>4. hi[n] - n < hi[n] - lo[n] BY <2>2
    <3>5. t.right_ptr_[n] \in Keys BY <3>2
    <3> QED BY <3>1, <3>5, <3>3, <3>4, Zenon
  <2>4. CASE ~should_go_right(n, key)
    <3>1. Child(t, key, n) = t.left_ptr_[n] /\ t.left_ptr_[n] # Null
          BY <2>4 DEF StopsAt, Child
    <3>2. /\ t.left_ptr_[n] \in N /\ lo[t.left_ptr_[n]] = lo[n]
          /\ hi[t.left_ptr_[n]] = n
          BY <2>1, <3>1 DEF Linked
    <3>3. /\ rank[n] = hi[n] - lo[n]
          /\ rank[t.left_ptr_[n]] = n - lo[n]
          BY <2>1, <3>2
    <3>4. n - lo[n] < hi[n] - lo[n] BY <2>2
    <3>5. t.left_ptr_[n] \in Keys BY <3>2
    <3> QED BY <3>1, <3>5, <3>3, <3>4, Zenon
  <2> QED BY <2>3, <2>4
<1>0. DOMAIN rank = Keys OBVIOUS
<1> HIDE DEF rank
<1>3. ASSUME Bad # {} PROVE FALSE
  <2>1. PICK d \in Bad : \A y \in Bad : d <= y
    <3>1. Bad \in SUBSET Nat OBVIOUS
    <3> HIDE DEF Bad
    <3> QED BY <1>3, <3>1, Smallest
  <2>2. Done(0)
    <3> DEFINE f == [n \in Keys |-> n]
    <3>1. f \in [Keys -> Keys] OBVIOUS
    <3>2. Upto(0, f) BY <1>1
    <3> QED BY <3>1, <3>2
  <2>3. d \in Nat \ {0} BY <2>1, <2>2
  <2>4. Done(d - 1)
    <3>1. d - 1 \in Nat /\ d - 1 < d BY <2>3
    <3>2. d - 1 \notin Bad BY <2>1, <3>1
    <3> QED BY <3>1, <3>2
  <2>5. PICK f \in [Keys -> Keys] : Upto(d - 1, f) BY <2>4
  <2> DEFINE g == [n \in Keys |-> IF rank[n] < d - 1 \/ StopsAt(t, key, n)
                                  THEN IF rank[n] < d - 1 THEN f[n] ELSE n
                                  ELSE f[Child(t, key, n)]]
  <2>6. g \in [Keys -> Keys] BY <1>2
  <2>7. ASSUME NEW n \in Keys, rank[n] < d
        PROVE  g[n] = IF StopsAt(t, key, n) THEN n ELSE g[Child(t, key, n)]
    <3>1. g[n] = IF StopsAt(t, key, n) THEN n ELSE f[Child(t, key, n)]
      <4>1. CASE rank[n] < d - 1 BY <4>1, <2>5
      <4>2. CASE ~(rank[n] < d - 1) BY <4>2
      <4> QED BY <4>1, <4>2
    <3>2. ASSUME ~StopsAt(t, key, n) PROVE g[Child(t, key, n)] = f[Child(t, key, n)]
      <4>1. Child(t, key, n) \in Keys /\ rank[Child(t, key, n)] < rank[n]
            BY <3>2, <1>2
      <4>2. rank[Child(t, key, n)] < d - 1 BY <4>1, <2>3, <2>7, <1>1
      <4> QED BY <4>1, <4>2
    <3> QED BY <3>1, <3>2
  <2>8. Upto(d, g) BY <2>7
  <2>9. Done(d) BY <2>6, <2>8
  <2> QED BY <2>1, <2>9
<1>4. Done(Top + 1)
  <2>1. Top + 1 \in Nat BY TopType
  <2> QED BY <1>3, <2>1
<1>5. PICK f \in [Keys -> Keys] : Upto(Top + 1, f) BY <1>4
<1>6. \A n \in Keys : rank[n] < Top + 1 BY <1>1, TopType
<1>7. Descends(t, key, f) BY <1>5, <1>6 DEF Descends
<1> QED BY <1>7

\* m is where a search for key from n may end.
EndsAt(t, N, lo, hi, key, n, m) ==
  /\ m \in N /\ lo[m] < key /\ key < hi[m]
  /\ StopsAt(t, key, m)
  /\ m = n \/ \E q \in N : m = t.left_ptr_[q] \/ m = t.right_ptr_[q]

LEMMA Nearest ==
  ASSUME NEW t, Links(t), NEW key \in Keys, NEW N \in SUBSET Keys,
         NEW lo \in Bounds, NEW hi \in Bounds,
         Within(N, lo, hi), Linked(N, t.left_ptr_, t.right_ptr_, lo, hi),
         t.root_ptr_ \in N, lo[t.root_ptr_] < key, key < hi[t.root_ptr_]
  PROVE  EndsAt(t, N, lo, hi, key, t.root_ptr_, find_nearest_node(t, key))
<1>1. PICK f : /\ Descends(t, key, f)
               /\ find_nearest_node(t, key)
                    = IF t.root_ptr_ = Null THEN Null ELSE f[t.root_ptr_]
      BY DescentExists, NearestIsDescent
<1>2. t.root_ptr_ # Null BY KeysAssumption DEF Null
<1>3. \A n \in Keys : f[n] = IF StopsAt(t, key, n) THEN n ELSE f[Child(t, key, n)]
      BY <1>1 DEF Descends
<1>4. \A n \in N : /\ lo[n] \in Nat /\ hi[n] \in Nat /\ n \in Nat
                   /\ lo[n] < n /\ n < hi[n]
      BY TopType, KeysAssumption DEF Bounds, Within
<1>5. key \in Nat BY KeysAssumption
<1> DEFINE In(n) == lo[n] < key /\ key < hi[n]
           Bad == {n \in N : In(n) /\ ~EndsAt(t, N, lo, hi, key, n, f[n])}
           Widths == {hi[n] - lo[n] : n \in Bad}
<1>6. ASSUME Bad # {} PROVE FALSE
  <2>1. Widths \in SUBSET Nat
    <3> SUFFICES ASSUME NEW n \in Bad PROVE hi[n] - lo[n] \in Nat
        OBVIOUS
    <3>1. n \in N OBVIOUS
    <3> QED BY <1>4, <3>1
  <2>2. Widths # {} BY <1>6
  <2>3. PICK w \in Widths : \A y \in Widths : w <= y
    <3> HIDE DEF Widths
    <3> QED BY <2>1, <2>2, Smallest
  <2>4. PICK n \in Bad : w = hi[n] - lo[n] BY <2>3
  <2>5. n \in N /\ In(n) /\ ~EndsAt(t, N, lo, hi, key, n, f[n]) BY <2>4
  <2>6. ~StopsAt(t, key, n)
        BY <2>5, <1>3 DEF EndsAt
  <2> DEFINE c == Child(t, key, n)
  <2>7. /\ f[n] = f[c] /\ n # key /\ c # Null
        BY <1>3, <2>5, <2>6 DEF StopsAt
  <2>8. c \in N /\ In(c) /\ hi[c] - lo[c] < hi[n] - lo[n]
        /\ (c = t.left_ptr_[n] \/ c = t.right_ptr_[n])
    <3>1. CASE should_go_right(n, key)
      <4>1. c = t.right_ptr_[n] /\ n < key BY <3>1, <1>4, <1>5, <2>5 DEF Child, should_go_right
      <4>2. c \in N /\ lo[c] = n /\ hi[c] = hi[n] BY <4>1, <2>5, <2>7 DEF Linked
      <4> HIDE DEF c
      <4> QED BY <4>1, <4>2, <1>4, <1>5, <2>5
    <3>2. CASE ~should_go_right(n, key)
      <4>1. c = t.left_ptr_[n] /\ key < n
            BY <3>2, <1>4, <1>5, <2>5, <2>7 DEF Child, should_go_right
      <4>2. c \in N /\ lo[c] = lo[n] /\ hi[c] = n BY <4>1, <2>5, <2>7 DEF Linked
      <4> HIDE DEF c
      <4> QED BY <4>1, <4>2, <1>4, <1>5, <2>5
    <3> QED BY <3>1, <3>2
  <2> HIDE DEF c
  <2>9. c \notin Bad
    <3>1. SUFFICES ASSUME c \in Bad PROVE FALSE OBVIOUS
    <3>2. w <= hi[c] - lo[c] BY <2>3, <3>1
    <3> QED BY <3>2, <2>4, <2>5, <2>8, <1>4
  <2>10. EndsAt(t, N, lo, hi, key, c, f[c]) BY <2>8, <2>9
  <2>11. EndsAt(t, N, lo, hi, key, n, f[n])
         BY <2>5, <2>7, <2>8, <2>10 DEF EndsAt
  <2> QED BY <2>5, <2>11
<1> QED BY <1>1, <1>2, <1>6

\* All that is known of a number that belongs to a node.
LEMMA IntervalTypes ==
  ASSUME NEW N \in SUBSET Keys, NEW lo \in Bounds, NEW hi \in Bounds
  PROVE  \A n \in Keys : /\ n \in Nat \ {0} /\ n < Top
                         /\ lo[n] \in Nat /\ hi[n] \in Nat /\ hi[n] <= Top
BY TopType, KeysAssumption DEF Bounds

\* A search in a tree finds the keys in it; at a missing key it ends where
\* the key's node is missing.
LEMMA SearchExact ==
  ASSUME NEW t, Links(t), t.nodes \in SUBSET Keys,
         NEW lo \in Bounds, NEW hi \in Bounds, TreeShaped(t, lo, hi),
         NEW key \in Keys
  PROVE  /\ find(t, key) <=> key \in t.nodes
         /\ t.root_ptr_ # Null =>
              /\ find_nearest_node(t, key) \in t.nodes
              /\ key \in t.nodes => find_nearest_node(t, key) = key
<1> DEFINE m == find_nearest_node(t, key)
<1>0. \A n \in Keys : /\ n \in Nat \ {0} /\ n < Top
                      /\ lo[n] \in Nat /\ hi[n] \in Nat /\ hi[n] <= Top
      BY IntervalTypes
<1>1. CASE t.root_ptr_ = Null
  <2>1. t.nodes = {} BY <1>1 DEF TreeShaped, Shaped, Rooted
  <2>2. m = Null BY <1>1, Zenon DEF find_nearest_node
  <2> QED BY <1>0, <1>1, <2>1, <2>2 DEF find, Null
<1>2. CASE t.root_ptr_ # Null
  <2>1. /\ t.root_ptr_ \in t.nodes /\ lo[t.root_ptr_] = 0 /\ hi[t.root_ptr_] = Top
        BY <1>2 DEF TreeShaped, Shaped, Rooted
  <2>2. lo[t.root_ptr_] < key /\ key < hi[t.root_ptr_] BY <2>1, <1>0
  <2>3. EndsAt(t, t.nodes, lo, hi, key, t.root_ptr_, m)
        BY <2>1, <2>2, Nearest DEF TreeShaped, Shaped
  <2> HIDE DEF m
  <2>4. ASSUME key \in t.nodes PROVE m = key
    <3>1. SUFFICES ASSUME m # key PROVE FALSE OBVIOUS
    <3>2. m \in t.nodes /\ lo[m] < key /\ key < hi[m] /\ Child(t, key, m) = Null
          BY <2>3, <3>1 DEF EndsAt, StopsAt
    <3>3. /\ t.left_ptr_[m] = Null => ~(lo[m] < key /\ key < m)
          /\ t.right_ptr_[m] = Null => ~(m < key /\ key < hi[m])
          BY <2>4, <3>2 DEF TreeShaped, Shaped, Complete
    <3>4. m \in Nat /\ key \in Nat BY <1>0, <3>2
    <3> QED BY <3>1, <3>2, <3>3, <3>4 DEF Child, should_go_right
  <2>5. m \in t.nodes BY <2>3 DEF EndsAt
  <2> QED BY <1>2, <2>4, <2>5 DEF find, m
<1> QED BY <1>1, <1>2

(***************************************************************************)
(* A new node gets the interval of the place it hangs at.                  *)
(***************************************************************************)
LEMMA AddRight ==
  ASSUME NEW N \in SUBSET Keys, NEW root,
         NEW L \in [Keys -> Ptr], NEW R \in [Keys -> Ptr],
         NEW lo \in Bounds, NEW hi \in Bounds, Shaped(N, root, L, R, lo, hi),
         NEW m \in N, NEW n \in Keys \ N, m < n, n < hi[m], R[m] = Null
  PROVE  /\ [lo EXCEPT ![n] = m] \in Bounds /\ [hi EXCEPT ![n] = hi[m]] \in Bounds
         /\ Shaped(N \cup {n}, root, L, [R EXCEPT ![m] = n],
                   [lo EXCEPT ![n] = m], [hi EXCEPT ![n] = hi[m]])
<1> DEFINE M == N \cup {n}
           S == [R EXCEPT ![m] = n]
           low == [lo EXCEPT ![n] = m]
           high == [hi EXCEPT ![n] = hi[m]]
<1>0. \A k \in Keys : /\ k \in Nat \ {0} /\ k < Top
                      /\ lo[k] \in Nat /\ hi[k] \in Nat /\ hi[k] <= Top
      BY IntervalTypes
<1>1. low \in Bounds /\ high \in Bounds BY <1>0, TopType DEF Bounds
<1>2. /\ low[n] = m /\ high[n] = hi[m] /\ n # m /\ S[m] = n
      /\ \A k \in N : low[k] = lo[k] /\ high[k] = hi[k]
      /\ \A k \in Keys : k # m => S[k] = R[k]
      BY DEF Bounds
<1> HIDE DEF S, low, high
<1>3. /\ Within(N, lo, hi) /\ Linked(N, L, R, lo, hi) /\ Complete(N, L, R, lo, hi)
      /\ Nested(N, lo, hi) /\ Rooted(N, root, lo, hi)
      BY DEF Shaped
<1>4. Within(M, low, high) BY <1>0, <1>2, <1>3 DEF Within
<1>5. L[n] = Null /\ R[n] = Null /\ n # Null BY <1>0, <1>3 DEF Linked, Null
<1>6. Linked(M, L, S, low, high) BY <1>2, <1>3, <1>5 DEF Linked
<1>7. \A k \in N : ~(m < k /\ k < hi[m]) BY <1>3 DEF Complete
<1>8. Nested(M, low, high)
  <2> SUFFICES ASSUME NEW a \in M, NEW b \in M, a < b
               PROVE  \/ (low[b] <= low[a] /\ high[a] <= b)
                      \/ (a <= low[b] /\ high[b] <= high[a])
                      \/ high[a] <= low[b]
      BY DEF Nested
  <2>1. CASE a # n /\ b # n BY <2>1, <1>2, <1>3 DEF Nested
  <2>2. CASE a = n
    <3>1. b \in N /\ hi[m] <= b /\ m < b BY <2>2, <1>0, <1>7
    <3>2. \/ (lo[b] <= lo[m] /\ hi[m] <= b)
          \/ (m <= lo[b] /\ hi[b] <= hi[m])
          \/ hi[m] <= lo[b]
          BY <3>1, <1>3 DEF Nested
    <3>3. lo[m] < m /\ b < hi[b] BY <3>1, <1>3 DEF Within
    <3> QED BY <2>2, <3>1, <3>2, <3>3, <1>0, <1>2
  <2>3. CASE b = n
    <3>1. a \in N /\ a <= m BY <2>3, <1>0, <1>7
    <3>2. a < m => \/ (lo[m] <= lo[a] /\ hi[a] <= m)
                   \/ (a <= lo[m] /\ hi[m] <= hi[a])
                   \/ hi[a] <= lo[m]
          BY <3>1, <1>3 DEF Nested
    <3>3. lo[m] < m BY <1>3 DEF Within
    <3> QED BY <2>3, <3>1, <3>2, <3>3, <1>0, <1>2
  <2> QED BY <2>1, <2>2, <2>3
<1>9. Complete(M, L, S, low, high)
  <2> SUFFICES ASSUME NEW a \in M, NEW b \in M
               PROVE  /\ L[a] = Null => ~(low[a] < b /\ b < a)
                      /\ S[a] = Null => ~(a < b /\ b < high[a])
      BY DEF Complete
  <2>1. CASE a # n /\ b # n
        BY <2>1, <1>2, <1>3, <1>5 DEF Complete
  <2>2. CASE a = n
    <3>1. CASE b = n BY <2>2, <3>1, <1>0
    <3>2. CASE b # n BY <2>2, <3>2, <1>0, <1>2, <1>7
    <3> QED BY <3>1, <3>2
  <2>3. CASE a # n /\ b = n
    <3>1. a = m => S[a] # Null BY <1>2, <1>5
    <3>2. /\ L[a] = Null => ~(lo[a] < m /\ m < a)
          /\ R[a] = Null => ~(a < m /\ m < hi[a])
          BY <2>3, <1>3 DEF Complete
    <3>3. /\ m < a => \/ (lo[a] <= lo[m] /\ hi[m] <= a)
                      \/ (m <= lo[a] /\ hi[a] <= hi[m])
                      \/ hi[m] <= lo[a]
          /\ a < m => \/ (lo[m] <= lo[a] /\ hi[a] <= m)
                      \/ (a <= lo[m] /\ hi[m] <= hi[a])
                      \/ hi[a] <= lo[m]
          BY <2>3, <1>3 DEF Nested
    <3>4. ~(m < a /\ a < hi[m]) /\ lo[a] < a /\ a < hi[a] /\ lo[m] < m
          BY <2>3, <1>3, <1>7 DEF Within
    <3>5. S[a] = Null => R[a] = Null /\ a # m BY <2>3, <3>1, <1>2
    <3>6. a \in Keys /\ m \in Keys /\ low[a] = lo[a] /\ high[a] = hi[a]
          BY <2>3, <1>2
    <3>7. L[a] = Null => ~(lo[a] < n /\ n < a)
          BY <3>2, <3>3, <3>4, <3>6, <1>0
    <3>8. S[a] = Null => ~(a < n /\ n < hi[a])
          BY <3>2, <3>3, <3>4, <3>5, <3>6, <1>0
    <3> QED BY <2>3, <3>6, <3>7, <3>8
  <2> QED BY <2>1, <2>2, <2>3
<1>10. Rooted(M, root, low, high) BY <1>2, <1>3 DEF Rooted
<1>11. Shaped(M, root, L, S, low, high)
       BY <1>4, <1>6, <1>8, <1>9, <1>10 DEF Shaped
<1> QED BY <1>1, <1>11 DEF S, low, high

\* The same for a left child.
LEMMA AddLeft ==
  ASSUME NEW N \in SUBSET Keys, NEW root,
         NEW L \in [Keys -> Ptr], NEW R \in [Keys -> Ptr],
         NEW lo \in Bounds, NEW hi \in Bounds, Shaped(N, root, L, R, lo, hi),
         NEW m \in N, NEW n \in Keys \ N, lo[m] < n, n < m, L[m] = Null
  PROVE  /\ [lo EXCEPT ![n] = lo[m]] \in Bounds /\ [hi EXCEPT ![n] = m] \in Bounds
         /\ Shaped(N \cup {n}, root, [L EXCEPT ![m] = n], R,
                   [lo EXCEPT ![n] = lo[m]], [hi EXCEPT ![n] = m])
<1> DEFINE M == N \cup {n}
           S == [L EXCEPT ![m] = n]
           low == [lo EXCEPT ![n] = lo[m]]
           high == [hi EXCEPT ![n] = m]
<1>0. \A k \in Keys : /\ k \in Nat \ {0} /\ k < Top
                      /\ lo[k] \in Nat /\ hi[k] \in Nat /\ hi[k] <= Top
      BY IntervalTypes
<1>1. low \in Bounds /\ high \in Bounds BY <1>0, TopType DEF Bounds
<1>2. /\ low[n] = lo[m] /\ high[n] = m /\ n # m /\ S[m] = n
      /\ \A k \in N : low[k] = lo[k] /\ high[k] = hi[k]
      /\ \A k \in Keys : k # m => S[k] = L[k]
      BY DEF Bounds
<1> HIDE DEF S, low, high
<1>3. /\ Within(N, lo, hi) /\ Linked(N, L, R, lo, hi) /\ Complete(N, L, R, lo, hi)
      /\ Nested(N, lo, hi) /\ Rooted(N, root, lo, hi)
      BY DEF Shaped
<1>4. Within(M, low, high) BY <1>0, <1>2, <1>3 DEF Within
<1>5. L[n] = Null /\ R[n] = Null /\ n # Null BY <1>0, <1>3 DEF Linked, Null
<1>6. Linked(M, S, R, low, high) BY <1>2, <1>3, <1>5 DEF Linked
<1>7. \A k \in N : ~(lo[m] < k /\ k < m) BY <1>3 DEF Complete
<1>8. Nested(M, low, high)
  <2> SUFFICES ASSUME NEW a \in M, NEW b \in M, a < b
               PROVE  \/ (low[b] <= low[a] /\ high[a] <= b)
                      \/ (a <= low[b] /\ high[b] <= high[a])
                      \/ high[a] <= low[b]
      BY DEF Nested
  <2>1. CASE a # n /\ b # n BY <2>1, <1>2, <1>3 DEF Nested
  <2>2. CASE a = n
    <3>1. b \in N /\ m <= b BY <2>2, <1>0, <1>7
    <3>2. m < b => \/ (lo[b] <= lo[m] /\ hi[m] <= b)
                   \/ (m <= lo[b] /\ hi[b] <= hi[m])
                   \/ hi[m] <= lo[b]
          BY <3>1, <1>3 DEF Nested
    <3>3. m < hi[m] BY <1>3 DEF Within
    <3> QED BY <2>2, <3>1, <3>2, <3>3, <1>0, <1>2
  <2>3. CASE b = n
    <3>1. a \in N /\ a <= lo[m] /\ a < m BY <2>3, <1>0, <1>7
    <3>2. \/ (lo[m] <= lo[a] /\ hi[a] <= m)
          \/ (a <= lo[m] /\ hi[m] <= hi[a])
          \/ hi[a] <= lo[m]
          BY <3>1, <1>3 DEF Nested
    <3>3. m < hi[m] /\ lo[a] < a BY <3>1, <1>3 DEF Within
    <3> QED BY <2>3, <3>1, <3>2, <3>3, <1>0, <1>2
  <2> QED BY <2>1, <2>2, <2>3
<1>9. Complete(M, S, R, low, high)
  <2> SUFFICES ASSUME NEW a \in M, NEW b \in M
               PROVE  /\ S[a] = Null => ~(low[a] < b /\ b < a)
                      /\ R[a] = Null => ~(a < b /\ b < high[a])
      BY DEF Complete
  <2>1. CASE a # n /\ b # n
        BY <2>1, <1>2, <1>3, <1>5 DEF Complete
  <2>2. CASE a = n
    <3>1. CASE b = n BY <2>2, <3>1, <1>0
    <3>2. CASE b # n BY <2>2, <3>2, <1>0, <1>2, <1>7
    <3> QED BY <3>1, <3>2
  <2>3. CASE a # n /\ b = n
    <3>1. a = m => S[a] # Null BY <1>2, <1>5
    <3>2. /\ L[a] = Null => ~(lo[a] < m /\ m < a)
          /\ R[a] = Null => ~(a < m /\ m < hi[a])
          BY <2>3, <1>3 DEF Complete
    <3>3. /\ m < a => \/ (lo[a] <= lo[m] /\ hi[m] <= a)
                      \/ (m <= lo[a] /\ hi[a] <= hi[m])
                      \/ hi[m] <= lo[a]
          /\ a < m => \/ (lo[m] <= lo[a] /\ hi[a] <= m)
                      \/ (a <= lo[m] /\ hi[m] <= hi[a])
                      \/ hi[a] <= lo[m]
          BY <2>3, <1>3 DEF Nested
    <3>4. ~(lo[m] < a /\ a < m) /\ lo[a] < a /\ a < hi[a] /\ m < hi[m]
          BY <2>3, <1>3, <1>7 DEF Within
    <3>5. S[a] = Null => L[a] = Null /\ a # m BY <2>3, <3>1, <1>2
    <3>6. a \in Keys /\ m \in Keys /\ low[a] = lo[a] /\ high[a] = hi[a]
          BY <2>3, <1>2
    <3>7. S[a] = Null => ~(lo[a] < n /\ n < a)
          BY <3>2, <3>3, <3>4, <3>5, <3>6, <1>0
    <3>8. R[a] = Null => ~(a < n /\ n < hi[a])
          BY <3>2, <3>3, <3>4, <3>6, <1>0
    <3> QED BY <2>3, <3>6, <3>7, <3>8
  <2> QED BY <2>1, <2>2, <2>3
<1>10. Rooted(M, root, low, high) BY <1>2, <1>3 DEF Rooted
<1>11. Shaped(M, root, S, R, low, high)
       BY <1>4, <1>6, <1>8, <1>9, <1>10 DEF Shaped
<1> QED BY <1>1, <1>11 DEF S, low, high

\* The first node has all keys as its interval.
LEMMA AddRoot ==
  ASSUME NEW L \in [Keys -> Ptr], NEW R \in [Keys -> Ptr],
         NEW lo \in Bounds, NEW hi \in Bounds, Shaped({}, Null, L, R, lo, hi),
         NEW n \in Keys
  PROVE  /\ [lo EXCEPT ![n] = 0] \in Bounds /\ [hi EXCEPT ![n] = Top] \in Bounds
         /\ Shaped({n}, n, L, R, [lo EXCEPT ![n] = 0], [hi EXCEPT ![n] = Top])
<1> DEFINE low == [lo EXCEPT ![n] = 0]
           high == [hi EXCEPT ![n] = Top]
<1>0. n \in Nat \ {0} /\ n < Top /\ Top \in Nat BY TopType, KeysAssumption
<1>1. low \in Bounds /\ high \in Bounds BY <1>0 DEF Bounds
<1>2. low[n] = 0 /\ high[n] = Top BY DEF Bounds
<1> HIDE DEF low, high
<1>3. \A k \in Keys : L[k] = Null /\ R[k] = Null BY DEF Shaped, Linked
<1>4. Within({n}, low, high) BY <1>0, <1>2 DEF Within
<1>5. Linked({n}, L, R, low, high) BY <1>3 DEF Linked
<1>6. Complete({n}, L, R, low, high) BY <1>0 DEF Complete
<1>7. Nested({n}, low, high) BY <1>0 DEF Nested
<1>8. Rooted({n}, n, low, high) BY <1>0, <1>2 DEF Rooted, Null
<1>9. Shaped({n}, n, L, R, low, high) BY <1>4, <1>5, <1>6, <1>7, <1>8 DEF Shaped
<1> QED BY <1>1, <1>9 DEF low, high

(***************************************************************************)
(* insert_node sets one link and, below the root, the parent.              *)
(***************************************************************************)
Hangs(t, u, m, n) ==
  /\ u \in Tree
  /\ u.nodes = t.nodes /\ u.val_ = t.val_ /\ u.undefined = t.undefined
  /\ u.root_ptr_ = t.root_ptr_
  /\ u.parent_ = [t.parent_ EXCEPT ![n] = m]
  /\ should_go_right(m, n) =>
       u.left_ptr_ = t.left_ptr_ /\ u.right_ptr_ = [t.right_ptr_ EXCEPT ![m] = n]
  /\ ~should_go_right(m, n) =>
       u.right_ptr_ = t.right_ptr_ /\ u.left_ptr_ = [t.left_ptr_ EXCEPT ![m] = n]

IsRoot(t, u, n) ==
  /\ u \in Tree
  /\ u.nodes = t.nodes /\ u.val_ = t.val_ /\ u.undefined = t.undefined
  /\ u.root_ptr_ = n
  /\ u.parent_ = t.parent_
  /\ u.left_ptr_ = t.left_ptr_ /\ u.right_ptr_ = t.right_ptr_

\* insert_node: what it changes, in each of its cases.
LEMMA InsertNodeEffect ==
  ASSUME NEW t \in Tree, NEW n \in Keys
  PROVE  /\ find_nearest_node(t, n) \in Keys =>
              Hangs(t, insert_node(t, n), find_nearest_node(t, n), n)
         /\ find_nearest_node(t, n) = Null => IsRoot(t, insert_node(t, n), n)
<1> DEFINE m == find_nearest_node(t, n)
<1>1. ASSUME m \in Keys PROVE Hangs(t, insert_node(t, n), m, n)
  <2>1. m # Null BY <1>1, KeysAssumption DEF Null
  <2>2. CASE should_go_right(m, n)
    <3>1. insert_node(t, n) = [t EXCEPT !.parent_[n] = m, !.right_ptr_[m] = n]
          BY <2>1, <2>2 DEF insert_node
    <3> DEFINE u == insert_node(t, n)
    <3> HIDE DEF m, u
    <3>2. /\ u.nodes = t.nodes /\ u.val_ = t.val_ /\ u.undefined = t.undefined
          /\ u.root_ptr_ = t.root_ptr_ /\ u.left_ptr_ = t.left_ptr_
          /\ u.parent_ = [t.parent_ EXCEPT ![n] = m]
          /\ u.right_ptr_ = [t.right_ptr_ EXCEPT ![m] = n]
          BY <3>1 DEF Tree, u
    <3>3. u \in Tree
      <4>1. /\ [t.parent_ EXCEPT ![n] = m] \in [Keys -> Ptr]
            /\ [t.right_ptr_ EXCEPT ![m] = n] \in [Keys -> Ptr]
            BY <1>1 DEF Tree, Ptr
      <4> QED BY <3>1, <4>1 DEF Tree, u
    <3> QED BY <2>2, <3>2, <3>3 DEF Hangs, u
  <2>3. CASE ~should_go_right(m, n)
    <3>1. insert_node(t, n) = [t EXCEPT !.parent_[n] = m, !.left_ptr_[m] = n]
          BY <2>1, <2>3 DEF insert_node
    <3> DEFINE u == insert_node(t, n)
    <3> HIDE DEF m, u
    <3>2. /\ u.nodes = t.nodes /\ u.val_ = t.val_ /\ u.undefined = t.undefined
          /\ u.root_ptr_ = t.root_ptr_ /\ u.right_ptr_ = t.right_ptr_
          /\ u.parent_ = [t.parent_ EXCEPT ![n] = m]
          /\ u.left_ptr_ = [t.left_ptr_ EXCEPT ![m] = n]
          BY <3>1 DEF Tree, u
    <3>3. u \in Tree
      <4>1. /\ [t.parent_ EXCEPT ![n] = m] \in [Keys -> Ptr]
            /\ [t.left_ptr_ EXCEPT ![m] = n] \in [Keys -> Ptr]
            BY <1>1 DEF Tree, Ptr
      <4> QED BY <3>1, <4>1 DEF Tree, u
    <3> QED BY <2>3, <3>2, <3>3 DEF Hangs, u
  <2> QED BY <2>2, <2>3
<1>2. ASSUME m = Null PROVE IsRoot(t, insert_node(t, n), n)
  <2>1. insert_node(t, n) = [t EXCEPT !.root_ptr_ = n] BY <1>2 DEF insert_node
  <2> QED BY <2>1 DEF IsRoot, Tree, Ptr
<1> QED BY <1>1, <1>2

WellFormed(t) == \E lo, hi \in Bounds : TreeShaped(t, lo, hi)

\* Every node below the root has a parent_ that has it as a child.
Parented(t) ==
  /\ \A k \in Keys \ t.nodes : t.parent_[k] = Null
  /\ \A k \in t.nodes \ {t.root_ptr_} :
       /\ t.parent_[k] \in t.nodes
       /\ k \in {t.left_ptr_[t.parent_[k]], t.right_ptr_[t.parent_[k]]}

\* insert_node of a new key keeps the shape and the parents of the tree.
LEMMA AddWorks ==
  ASSUME NEW t \in Tree, WellFormed(t), Parented(t),
         NEW key \in Keys \ t.nodes, NEW value \in Values
  PROVE  LET u == Add(t, key, value)
         IN  /\ u \in Tree /\ WellFormed(u) /\ Parented(u)
             /\ u.nodes = t.nodes \cup {key} /\ u.undefined = t.undefined
             /\ u.val_ = [t.val_ EXCEPT ![key] = value]
             /\ t.root_ptr_ = Null => u.root_ptr_ = key /\ u.parent_[key] = Null
             /\ t.root_ptr_ # Null => /\ u.root_ptr_ = t.root_ptr_
                                      /\ u.parent_[u.root_ptr_] = t.parent_[t.root_ptr_]
<1> DEFINE t0 == [t EXCEPT !.nodes = @ \cup {key}, !.val_[key] = value]
           u == Add(t, key, value)
           m == find_nearest_node(t0, key)
<1>0. \A k \in Keys : k \in Nat \ {0} /\ k < Top
      BY TopType, KeysAssumption
<1>1. /\ t0 \in Tree
      /\ t0.nodes = t.nodes \cup {key} /\ t0.undefined = t.undefined
      /\ t0.val_ = [t.val_ EXCEPT ![key] = value]
      /\ t0.root_ptr_ = t.root_ptr_ /\ t0.parent_ = t.parent_
      /\ t0.left_ptr_ = t.left_ptr_ /\ t0.right_ptr_ = t.right_ptr_
      BY DEF Tree
<1>2. u = insert_node(t0, key) BY DEF Add
<1> HIDE DEF t0, u
<1>3. PICK lo \in Bounds, hi \in Bounds : TreeShaped(t, lo, hi) BY DEF WellFormed
<1>4. Links(t0) /\ t.nodes \in SUBSET Keys
      /\ t.left_ptr_ \in [Keys -> Ptr] /\ t.right_ptr_ \in [Keys -> Ptr]
      /\ t.parent_ \in [Keys -> Ptr] /\ t.root_ptr_ \in Ptr
      BY <1>1 DEF Links, Tree
<1>5. CASE t.root_ptr_ = Null
  <2>1. m = Null BY <1>1, <1>5, Zenon DEF find_nearest_node
  <2>2. IsRoot(t0, u, key) BY <1>1, <1>2, <2>1, InsertNodeEffect
  <2>3. t.nodes = {} BY <1>3, <1>5 DEF TreeShaped, Shaped, Rooted
  <2>4. Shaped({}, Null, t.left_ptr_, t.right_ptr_, lo, hi)
        BY <1>3, <1>5, <2>3 DEF TreeShaped
  <2>5. WellFormed(u)
    <3>1. u.nodes = {key} /\ u.root_ptr_ = key
          /\ u.left_ptr_ = t.left_ptr_ /\ u.right_ptr_ = t.right_ptr_
          BY <1>1, <2>2, <2>3 DEF IsRoot
    <3>2. /\ [lo EXCEPT ![key] = 0] \in Bounds /\ [hi EXCEPT ![key] = Top] \in Bounds
          /\ Shaped({key}, key, t.left_ptr_, t.right_ptr_,
                    [lo EXCEPT ![key] = 0], [hi EXCEPT ![key] = Top])
          BY <1>4, <2>4, AddRoot
    <3> QED BY <3>1, <3>2 DEF WellFormed, TreeShaped
  <2>6. Parented(u) /\ u.parent_[key] = Null
        BY <1>1, <2>2, <2>3 DEF Parented, IsRoot
  <2> QED BY <1>1, <1>5, <2>2, <2>5, <2>6 DEF IsRoot, u
<1>6. CASE t.root_ptr_ # Null
  <2>1. /\ t.root_ptr_ \in t.nodes /\ lo[t.root_ptr_] = 0 /\ hi[t.root_ptr_] = Top
        BY <1>3, <1>6 DEF TreeShaped, Shaped, Rooted
  <2>2. lo[t.root_ptr_] < key /\ key < hi[t.root_ptr_] BY <2>1, <1>0
  <2>3. EndsAt(t0, t.nodes, lo, hi, key, t.root_ptr_, m)
        BY <1>1, <1>3, <1>4, <2>1, <2>2, Nearest DEF TreeShaped, Shaped
  <2>4. m \in t.nodes /\ lo[m] < key /\ key < hi[m] /\ Child(t, key, m) = Null
        BY <1>1, <2>3 DEF EndsAt, StopsAt, Child
  <2> HIDE DEF m
  <2>5. Hangs(t0, u, m, key)
        BY <1>1, <1>2, <1>4, <2>4, InsertNodeEffect DEF m
  <2>6. /\ u.nodes = t.nodes \cup {key} /\ u.root_ptr_ = t.root_ptr_
        /\ u.parent_ = [t.parent_ EXCEPT ![key] = m]
        BY <1>1, <2>5 DEF Hangs
  <2>7. key # Null /\ key # m /\ m \in Keys /\ key # t.root_ptr_
        BY <1>0, <1>4, <2>1, <2>4 DEF Null
  <2>8. ASSUME should_go_right(m, key) PROVE WellFormed(u) /\ Parented(u)
    <3>1. /\ u.left_ptr_ = t.left_ptr_ /\ u.right_ptr_ = [t.right_ptr_ EXCEPT ![m] = key]
          /\ t.right_ptr_[m] = Null
          BY <1>1, <2>4, <2>5, <2>8 DEF Hangs, Child
    <3>2. m < key BY <1>0, <1>4, <2>4, <2>8 DEF should_go_right
    <3>3. /\ [lo EXCEPT ![key] = m] \in Bounds /\ [hi EXCEPT ![key] = hi[m]] \in Bounds
          /\ Shaped(t.nodes \cup {key}, t.root_ptr_, t.left_ptr_,
                    [t.right_ptr_ EXCEPT ![m] = key],
                    [lo EXCEPT ![key] = m], [hi EXCEPT ![key] = hi[m]])
          BY <1>3, <1>4, <2>4, <3>1, <3>2, AddRight DEF TreeShaped
    <3>4. WellFormed(u) BY <2>6, <3>1, <3>3 DEF WellFormed, TreeShaped
    <3>5. Parented(u)
      <4>1. \A k \in Keys \ u.nodes : u.parent_[k] = Null BY <1>4, <2>6 DEF Parented
      <4>2. ASSUME NEW k \in u.nodes \ {u.root_ptr_}
            PROVE  /\ u.parent_[k] \in u.nodes
                   /\ k \in {u.left_ptr_[u.parent_[k]], u.right_ptr_[u.parent_[k]]}
        <5>1. CASE k = key BY <1>4, <2>4, <2>6, <2>7, <3>1, <5>1
        <5>2. CASE k # key
          <6>1. k \in t.nodes \ {t.root_ptr_} /\ u.parent_[k] = t.parent_[k]
                /\ k \in Keys /\ k # Null
                BY <1>0, <1>4, <2>6, <5>2 DEF Null
          <6>2. /\ t.parent_[k] \in t.nodes
                /\ k \in {t.left_ptr_[t.parent_[k]], t.right_ptr_[t.parent_[k]]}
                BY <6>1 DEF Parented
          <6> QED BY <1>4, <2>6, <3>1, <6>1, <6>2
        <5> QED BY <5>1, <5>2
      <4> QED BY <4>1, <4>2 DEF Parented
    <3> QED BY <3>4, <3>5
  <2>9. ASSUME ~should_go_right(m, key) PROVE WellFormed(u) /\ Parented(u)
    <3>1. /\ u.right_ptr_ = t.right_ptr_ /\ u.left_ptr_ = [t.left_ptr_ EXCEPT ![m] = key]
          /\ t.left_ptr_[m] = Null
          BY <1>1, <2>4, <2>5, <2>9 DEF Hangs, Child
    <3>2. key < m BY <1>0, <1>4, <2>4, <2>7, <2>9 DEF should_go_right
    <3>3. /\ [lo EXCEPT ![key] = lo[m]] \in Bounds /\ [hi EXCEPT ![key] = m] \in Bounds
          /\ Shaped(t.nodes \cup {key}, t.root_ptr_, [t.left_ptr_ EXCEPT ![m] = key],
                    t.right_ptr_, [lo EXCEPT ![key] = lo[m]], [hi EXCEPT ![key] = m])
          BY <1>3, <1>4, <2>4, <3>1, <3>2, AddLeft DEF TreeShaped
    <3>4. WellFormed(u) BY <2>6, <3>1, <3>3 DEF WellFormed, TreeShaped
    <3>5. Parented(u)
      <4>1. \A k \in Keys \ u.nodes : u.parent_[k] = Null BY <1>4, <2>6 DEF Parented
      <4>2. ASSUME NEW k \in u.nodes \ {u.root_ptr_}
            PROVE  /\ u.parent_[k] \in u.nodes
                   /\ k \in {u.left_ptr_[u.parent_[k]], u.right_ptr_[u.parent_[k]]}
        <5>1. CASE k = key BY <1>4, <2>4, <2>6, <2>7, <3>1, <5>1
        <5>2. CASE k # key
          <6>1. k \in t.nodes \ {t.root_ptr_} /\ u.parent_[k] = t.parent_[k]
                /\ k \in Keys /\ k # Null
                BY <1>0, <1>4, <2>6, <5>2 DEF Null
          <6>2. /\ t.parent_[k] \in t.nodes
                /\ k \in {t.left_ptr_[t.parent_[k]], t.right_ptr_[t.parent_[k]]}
                BY <6>1 DEF Parented
          <6> QED BY <1>4, <2>6, <3>1, <6>1, <6>2
        <5> QED BY <5>1, <5>2
      <4> QED BY <4>1, <4>2 DEF Parented
    <3> QED BY <3>4, <3>5
  <2>10. WellFormed(u) /\ Parented(u) BY <2>8, <2>9
  <2>11. u.parent_[u.root_ptr_] = t.parent_[t.root_ptr_]
         BY <1>4, <2>1, <2>6, <2>7
  <2>12. u \in Tree /\ u.undefined = t.undefined /\ u.val_ = [t.val_ EXCEPT ![key] = value]
         BY <1>1, <2>5 DEF Hangs
  <2> QED BY <1>6, <2>6, <2>10, <2>11, <2>12 DEF u
<1> QED BY <1>5, <1>6

(***************************************************************************)
(* erase_node: who pointed to the node points to its left child, and the   *)
(* right child hangs under the greatest node on the left.                  *)
(***************************************************************************)
LEMMA UniqueParent ==
  ASSUME NEW N \in SUBSET Keys, NEW L \in [Keys -> Ptr], NEW R \in [Keys -> Ptr],
         NEW lo \in Bounds, NEW hi \in Bounds,
         Within(N, lo, hi), Linked(N, L, R, lo, hi), Nested(N, lo, hi),
         NEW n \in N, NEW k \in N, NEW q \in N, n \in {L[k], R[k]}, n \in {L[q], R[q]}
  PROVE  k = q /\ L[k] # R[k]
<1>0. \A j \in Keys : /\ j \in Nat \ {0} /\ j < Top
                      /\ lo[j] \in Nat /\ hi[j] \in Nat /\ hi[j] <= Top
      BY IntervalTypes
<1>1. \A j \in {k, q} : /\ L[j] = n => lo[n] = lo[j] /\ hi[n] = j
                        /\ R[j] = n => lo[n] = j /\ hi[n] = hi[j]
      BY <1>0 DEF Linked, Null
<1>2. \A j \in {k, q, n} : lo[j] < j /\ j < hi[j] BY DEF Within
<1>3. ASSUME NEW i \in {k, q}, NEW j \in {k, q}, L[i] = n, R[j] = n PROVE FALSE
  <2>1. hi[n] = i /\ lo[n] = j /\ lo[i] = j /\ hi[j] = i BY <1>1, <1>3
  <2>2. j < i BY <1>0, <1>2, <2>1
  <2>3. \/ (lo[i] <= lo[j] /\ hi[j] <= i)
        \/ (j <= lo[i] /\ hi[i] <= hi[j])
        \/ hi[j] <= lo[i]
        BY <2>2 DEF Nested
  <2> QED BY <1>0, <1>2, <2>1, <2>2, <2>3
<1>4. k = q BY <1>1, <1>3
<1> QED BY <1>3, <1>4

\* The links F without the node n: who pointed to it points to l.
Bypass(F, n, l) ==
  [k \in Keys |-> IF k = n THEN Null ELSE IF F[k] = n THEN l ELSE F[k]]

Raised(hi, n) == [k \in Keys |-> IF hi[k] = n THEN hi[n] ELSE hi[k]]
Lowered(lo, n, m) == [k \in Keys |-> IF lo[k] = n THEN m ELSE lo[k]]

Spliced(N, root, L, R, lo, hi, n, m) ==
  /\ Lowered(lo, n, m) \in Bounds /\ Raised(hi, n) \in Bounds
  /\ Shaped(N \ {n}, IF root = n THEN L[n] ELSE root, Bypass(L, n, L[n]),
            [Bypass(R, n, L[n]) EXCEPT ![m] = R[n]],
            Lowered(lo, n, m), Raised(hi, n))

LEMMA Splice ==
  ASSUME NEW N \in SUBSET Keys, NEW root \in Ptr,
         NEW L \in [Keys -> Ptr], NEW R \in [Keys -> Ptr],
         NEW lo \in Bounds, NEW hi \in Bounds, Shaped(N, root, L, R, lo, hi),
         NEW n \in N, L[n] # Null, R[n] # Null,
         NEW m \in N, hi[m] = n, R[m] = Null
  PROVE  Spliced(N, root, L, R, lo, hi, n, m)
<1> DEFINE M == N \ {n}
           low == Lowered(lo, n, m)
           high == Raised(hi, n)
           S == Bypass(L, n, L[n])
           T == [Bypass(R, n, L[n]) EXCEPT ![m] = R[n]]
           top == IF root = n THEN L[n] ELSE root
<1>0. \A k \in Keys : /\ k \in Nat \ {0} /\ k < Top
                      /\ lo[k] \in Nat /\ hi[k] \in Nat /\ hi[k] <= Top
      BY IntervalTypes
<1>1. /\ Within(N, lo, hi) /\ Linked(N, L, R, lo, hi) /\ Complete(N, L, R, lo, hi)
      /\ Nested(N, lo, hi) /\ Rooted(N, root, lo, hi)
      BY DEF Shaped
<1>2. low \in Bounds /\ high \in Bounds BY <1>0, TopType DEF Bounds, Lowered, Raised
<1>3. \A k \in Keys : /\ low[k] = IF lo[k] = n THEN m ELSE lo[k]
                      /\ high[k] = IF hi[k] = n THEN hi[n] ELSE hi[k]
      BY DEF Lowered, Raised
<1>4. m # n /\ m < n /\ lo[n] < n /\ n < hi[n] /\ lo[m] < m
      BY <1>0, <1>1 DEF Within
<1>5. /\ \A k \in M : S[k] = IF L[k] = n THEN L[n] ELSE L[k]
      /\ \A k \in M : T[k] = IF k = m THEN R[n] ELSE IF R[k] = n THEN L[n] ELSE R[k]
      /\ \A k \in Keys \ M : S[k] = Null /\ T[k] = Null
  <2>1. /\ \A k \in M : S[k] = IF L[k] = n THEN L[n] ELSE L[k]
        /\ \A k \in M : Bypass(R, n, L[n])[k] = IF R[k] = n THEN L[n] ELSE R[k]
        BY DEF Bypass
  <2>2. \A k \in Keys : T[k] = IF k = m THEN R[n] ELSE Bypass(R, n, L[n])[k]
        BY DEF Bypass
  <2>3. \A k \in Keys \ M : S[k] = Null /\ Bypass(R, n, L[n])[k] = Null
    <3> TAKE k \in Keys \ M
    <3>1. CASE k = n BY <3>1 DEF Bypass
    <3>2. CASE k # n
      <4>1. L[k] = Null /\ R[k] = Null /\ n # Null BY <1>0, <1>1, <3>2 DEF Linked, Null
      <4> QED BY <3>2, <4>1 DEF Bypass
    <3> QED BY <3>1, <3>2
  <2> HIDE DEF S, T
  <2> QED BY <1>4, <2>1, <2>2, <2>3
<1> HIDE DEF low, high, S, T
<1>6. /\ L[n] \in N /\ lo[L[n]] = lo[n] /\ hi[L[n]] = n
      /\ R[n] \in N /\ lo[R[n]] = n /\ hi[R[n]] = hi[n]
      BY <1>1 DEF Linked
<1>7. L[n] \in M /\ R[n] \in M BY <1>0, <1>4, <1>6
<1>8. \A k \in M : k <= m \/ n < k
  <2> TAKE k \in M
  <2>1. ~(m < k /\ k < hi[m]) BY <1>1 DEF Complete
  <2> QED BY <1>0, <2>1
<1>9. lo[n] <= lo[m]
  <2>1. \/ (lo[n] <= lo[m] /\ hi[m] <= n)
        \/ (m <= lo[n] /\ hi[n] <= hi[m])
        \/ hi[m] <= lo[n]
        BY <1>1, <1>4 DEF Nested
  <2> QED BY <1>0, <1>4, <2>1
<1>10. Within(M, low, high)
  <2> SUFFICES ASSUME NEW k \in M PROVE low[k] < k /\ k < high[k] BY DEF Within
  <2>1. lo[k] < k /\ k < hi[k] BY <1>1 DEF Within
  <2> QED BY <1>0, <1>3, <1>4, <2>1
<1>11. Linked(M, S, T, low, high)
  <2>1. ASSUME NEW k \in M, S[k] # Null
        PROVE  S[k] \in M /\ low[S[k]] = low[k] /\ high[S[k]] = k
    <3>1. L[k] # Null BY <1>0, <1>5, <2>1 DEF Null
    <3>2. L[k] \in N /\ lo[L[k]] = lo[k] /\ hi[L[k]] = k BY <1>1, <3>1 DEF Linked
    <3>3. CASE L[k] = n
      <4>1. S[k] = L[n] /\ lo[n] = lo[k] /\ hi[n] = k BY <1>5, <3>2, <3>3
      <4>2. lo[k] # n BY <1>0, <1>4, <4>1
      <4> QED BY <1>3, <1>6, <1>7, <4>1, <4>2
    <3>4. CASE L[k] # n
      <4>1. S[k] = L[k] BY <1>5, <3>4
      <4> QED BY <1>3, <3>2, <3>4, <4>1
    <3> QED BY <3>3, <3>4
  <2>2. ASSUME NEW k \in M, T[k] # Null
        PROVE  T[k] \in M /\ low[T[k]] = k /\ high[T[k]] = high[k]
    <3>1. CASE k = m
      <4>1. T[k] = R[n] BY <1>5, <3>1
      <4>2. hi[n] # n BY <1>0, <1>4
      <4> QED BY <1>3, <1>6, <1>7, <3>1, <4>1, <4>2
    <3>2. CASE k # m
      <4>1. R[k] # Null BY <1>0, <1>5, <2>2, <3>2 DEF Null
      <4>2. R[k] \in N /\ lo[R[k]] = k /\ hi[R[k]] = hi[k] BY <1>1, <4>1 DEF Linked
      <4>3. CASE R[k] = n
        <5>1. T[k] = L[n] /\ lo[n] = k /\ hi[n] = hi[k] BY <1>5, <3>2, <4>2, <4>3
        <5>2. hi[k] # n /\ lo[n] # n BY <1>0, <1>4, <5>1
        <5> QED BY <1>3, <1>6, <1>7, <5>1, <5>2
      <4>4. CASE R[k] # n
        <5>1. T[k] = R[k] BY <1>5, <3>2, <4>4
        <5> QED BY <1>3, <4>2, <4>4, <5>1
      <4> QED BY <4>3, <4>4
    <3> QED BY <3>1, <3>2
  <2> QED BY <1>5, <2>1, <2>2 DEF Linked
<1>12. Complete(M, S, T, low, high)
  <2> SUFFICES ASSUME NEW k \in M, NEW j \in M
               PROVE  /\ S[k] = Null => ~(low[k] < j /\ j < k)
                      /\ T[k] = Null => ~(k < j /\ j < high[k])
      BY DEF Complete
  <2>1. /\ L[k] = Null => ~(lo[k] < j /\ j < k)
        /\ R[k] = Null => ~(k < j /\ j < hi[k])
        /\ R[k] = Null => ~(k < m /\ m < hi[k])
        BY <1>1 DEF Complete
  <2>2. S[k] = Null => ~(low[k] < j /\ j < k)
    <3>1. S[k] = Null => L[k] = Null BY <1>5
    <3>2. j <= m \/ n < j BY <1>8
    <3> QED BY <1>0, <1>3, <1>4, <2>1, <3>1, <3>2
  <2>3. T[k] = Null => ~(k < j /\ j < high[k])
    <3>1. T[k] = Null => R[k] = Null /\ k # m BY <1>5
    <3>2. k <= m \/ n < k BY <1>8
    <3>3. k < hi[k] BY <1>1 DEF Within
    <3> QED BY <1>0, <1>3, <1>4, <2>1, <3>1, <3>2, <3>3
  <2> QED BY <2>2, <2>3
<1>13. Nested(M, low, high)
  <2> SUFFICES ASSUME NEW a \in M, NEW b \in M, a < b
               PROVE  \/ (low[b] <= low[a] /\ high[a] <= b)
                      \/ (a <= low[b] /\ high[b] <= high[a])
                      \/ high[a] <= low[b]
      BY DEF Nested
  <2>1. \/ (lo[b] <= lo[a] /\ hi[a] <= b)
        \/ (a <= lo[b] /\ hi[b] <= hi[a])
        \/ hi[a] <= lo[b]
        BY <1>1 DEF Nested
  <2>2. n < b => \/ (lo[b] <= lo[n] /\ hi[n] <= b)
                 \/ (n <= lo[b] /\ hi[b] <= hi[n])
                 \/ hi[n] <= lo[b]
        BY <1>1 DEF Nested
  <2>3. a < n => \/ (lo[n] <= lo[a] /\ hi[a] <= n)
                 \/ (a <= lo[n] /\ hi[n] <= hi[a])
                 \/ hi[a] <= lo[n]
        BY <1>1 DEF Nested
  <2>4. a < m => \/ (lo[m] <= lo[a] /\ hi[a] <= m)
                 \/ (a <= lo[m] /\ hi[m] <= hi[a])
                 \/ hi[a] <= lo[m]
        BY <1>1 DEF Nested
  <2>5. /\ a <= m \/ n < a
        /\ b <= m \/ n < b
        /\ lo[a] < a /\ a < hi[a] /\ lo[b] < b /\ b < hi[b]
        BY <1>1, <1>8 DEF Within
  <2>6. /\ a \in Nat /\ b \in Nat /\ m \in Nat /\ n \in Nat
        /\ lo[a] \in Nat /\ lo[b] \in Nat /\ lo[m] \in Nat /\ lo[n] \in Nat
        /\ hi[a] \in Nat /\ hi[b] \in Nat /\ hi[m] \in Nat /\ hi[n] \in Nat
        BY <1>0
  <2>7. /\ low[a] = IF lo[a] = n THEN m ELSE lo[a]
        /\ low[b] = IF lo[b] = n THEN m ELSE lo[b]
        /\ high[a] = IF hi[a] = n THEN hi[n] ELSE hi[a]
        /\ high[b] = IF hi[b] = n THEN hi[n] ELSE hi[b]
        BY <1>3
  <2>8. CASE lo[b] <= lo[a] /\ hi[a] <= b
        BY <1>4, <1>9, <2>2, <2>3, <2>4, <2>5, <2>6, <2>7, <2>8
  <2>9. CASE a <= lo[b] /\ hi[b] <= hi[a]
        BY <1>4, <1>9, <2>2, <2>3, <2>4, <2>5, <2>6, <2>7, <2>9
  <2>10. CASE hi[a] <= lo[b]
        BY <1>4, <1>9, <2>2, <2>3, <2>4, <2>5, <2>6, <2>7, <2>10
  <2> QED BY <2>1, <2>8, <2>9, <2>10
<1>14. Rooted(M, top, low, high)
  <2>1. root # Null /\ root \in N /\ lo[root] = 0 /\ hi[root] = Top
        BY <1>1 DEF Rooted
  <2> QED BY <1>0, <1>3, <1>6, <1>7, <2>1 DEF Rooted, Null
<1>15. Shaped(M, top, S, T, low, high)
       BY <1>10, <1>11, <1>12, <1>13, <1>14 DEF Shaped
<1> QED BY <1>2, <1>15 DEF Spliced, low, high, S, T

\* The links once the node is cut out, before its subtrees come back.
LEMMA CutLinked ==
  ASSUME NEW N \in SUBSET Keys,
         NEW L \in [Keys -> Ptr], NEW R \in [Keys -> Ptr],
         NEW lo \in Bounds, NEW hi \in Bounds,
         Within(N, lo, hi), Linked(N, L, R, lo, hi), NEW n \in N
  PROVE  /\ Bypass(L, n, Null) \in [Keys -> Ptr] /\ Bypass(R, n, Null) \in [Keys -> Ptr]
         /\ Within(N \ {n}, lo, hi)
         /\ Linked(N \ {n}, Bypass(L, n, Null), Bypass(R, n, Null), lo, hi)
<1>1. Bypass(L, n, Null) \in [Keys -> Ptr] /\ Bypass(R, n, Null) \in [Keys -> Ptr]
      BY DEF Bypass, Ptr
<1>2. \A k \in Keys : /\ Bypass(L, n, Null)[k] # Null =>
                           k # n /\ L[k] # n /\ Bypass(L, n, Null)[k] = L[k]
                      /\ Bypass(R, n, Null)[k] # Null =>
                           k # n /\ R[k] # n /\ Bypass(R, n, Null)[k] = R[k]
      BY DEF Bypass
<1>3. \A k \in Keys \ (N \ {n}) : Bypass(L, n, Null)[k] = Null /\ Bypass(R, n, Null)[k] = Null
      BY <1>2 DEF Linked
<1>4. Linked(N \ {n}, Bypass(L, n, Null), Bypass(R, n, Null), lo, hi)
      BY <1>2, <1>3 DEF Linked
<1>5. Within(N \ {n}, lo, hi) BY DEF Within
<1> QED BY <1>1, <1>4, <1>5

\* And once the left subtree is back.
LEMMA HalfLinked ==
  ASSUME NEW N \in SUBSET Keys,
         NEW L \in [Keys -> Ptr], NEW R \in [Keys -> Ptr],
         NEW lo \in Bounds, NEW hi \in Bounds,
         Within(N, lo, hi), Linked(N, L, R, lo, hi), NEW n \in N, L[n] # Null
  PROVE  /\ Bypass(L, n, L[n]) \in [Keys -> Ptr] /\ Bypass(R, n, L[n]) \in [Keys -> Ptr]
         /\ Raised(hi, n) \in Bounds
         /\ Within(N \ {n}, lo, Raised(hi, n))
         /\ Linked(N \ {n}, Bypass(L, n, L[n]), Bypass(R, n, L[n]), lo, Raised(hi, n))
<1> DEFINE M == N \ {n}
           high == Raised(hi, n)
           S == Bypass(L, n, L[n])
           T == Bypass(R, n, L[n])
<1>0. \A k \in Keys : /\ k \in Nat \ {0} /\ k < Top
                      /\ lo[k] \in Nat /\ hi[k] \in Nat /\ hi[k] <= Top
      BY IntervalTypes
<1>1. S \in [Keys -> Ptr] /\ T \in [Keys -> Ptr] /\ high \in Bounds
      BY DEF Bypass, Ptr, Raised, Bounds
<1>2. \A k \in Keys : high[k] = IF hi[k] = n THEN hi[n] ELSE hi[k] BY DEF Raised
<1>3. \A k \in M : /\ S[k] = IF L[k] = n THEN L[n] ELSE L[k]
                   /\ T[k] = IF R[k] = n THEN L[n] ELSE R[k]
      BY DEF Bypass
<1>4. \A k \in Keys \ M : S[k] = Null /\ T[k] = Null
  <2> TAKE k \in Keys \ M
  <2>1. CASE k = n BY <2>1 DEF Bypass
  <2>2. CASE k # n
    <3>1. L[k] = Null /\ R[k] = Null /\ n # Null BY <1>0, <2>2 DEF Linked, Null
    <3> QED BY <2>2, <3>1 DEF Bypass
  <2> QED BY <2>1, <2>2
<1> HIDE DEF high, S, T
<1>5. /\ L[n] \in M /\ lo[L[n]] = lo[n] /\ hi[L[n]] = n
      /\ lo[n] < n /\ n < hi[n]
  <2>1. L[n] \in N /\ lo[L[n]] = lo[n] /\ hi[L[n]] = n BY DEF Linked
  <2>2. lo[n] < n /\ n < hi[n] BY DEF Within
  <2> QED BY <1>0, <2>1, <2>2
<1>6. Within(M, lo, high)
  <2> SUFFICES ASSUME NEW k \in M PROVE lo[k] < k /\ k < high[k] BY DEF Within
  <2>1. lo[k] < k /\ k < hi[k] BY DEF Within
  <2> QED BY <1>0, <1>2, <1>5, <2>1
<1>7. ASSUME NEW k \in M, S[k] # Null
      PROVE  S[k] \in M /\ lo[S[k]] = lo[k] /\ high[S[k]] = k
  <2>1. L[k] # Null BY <1>0, <1>3, <1>7 DEF Null
  <2>2. L[k] \in N /\ lo[L[k]] = lo[k] /\ hi[L[k]] = k BY <2>1 DEF Linked
  <2>3. CASE L[k] = n
    <3>1. S[k] = L[n] /\ lo[n] = lo[k] /\ hi[n] = k BY <1>3, <2>2, <2>3
    <3> QED BY <1>2, <1>5, <3>1
  <2>4. CASE L[k] # n
    <3>1. S[k] = L[k] BY <1>3, <2>4
    <3> QED BY <1>2, <2>2, <2>4, <3>1
  <2> QED BY <2>3, <2>4
<1>8. ASSUME NEW k \in M, T[k] # Null
      PROVE  T[k] \in M /\ lo[T[k]] = k /\ high[T[k]] = high[k]
  <2>1. R[k] # Null BY <1>0, <1>3, <1>8 DEF Null
  <2>2. R[k] \in N /\ lo[R[k]] = k /\ hi[R[k]] = hi[k] BY <2>1 DEF Linked
  <2>3. CASE R[k] = n
    <3>1. T[k] = L[n] /\ lo[n] = k /\ hi[n] = hi[k] BY <1>3, <2>2, <2>3
    <3>2. hi[k] # n BY <1>0, <1>5, <3>1
    <3> QED BY <1>2, <1>5, <3>1, <3>2
  <2>4. CASE R[k] # n
    <3>1. T[k] = R[k] BY <1>3, <2>4
    <3> QED BY <1>2, <2>2, <2>4, <3>1
  <2> QED BY <2>3, <2>4
<1>9. Linked(M, S, T, lo, high) BY <1>4, <1>7, <1>8 DEF Linked
<1> QED BY <1>1, <1>6, <1>9 DEF high, S, T

\* The root has no left child: its right child, if any, becomes the root.
LEMMA RootRight ==
  ASSUME NEW N \in SUBSET Keys, NEW L \in [Keys -> Ptr], NEW R \in [Keys -> Ptr],
         NEW lo \in Bounds, NEW hi \in Bounds, NEW n \in N, Shaped(N, n, L, R, lo, hi),
         L[n] = Null
  PROVE  /\ Lowered(lo, n, 0) \in Bounds
         /\ Shaped(N \ {n}, R[n], Bypass(L, n, Null), Bypass(R, n, Null),
                   Lowered(lo, n, 0), hi)
<1> DEFINE M == N \ {n}
           low == Lowered(lo, n, 0)
           S == Bypass(L, n, Null)
           T == Bypass(R, n, Null)
<1>0. \A k \in Keys : /\ k \in Nat \ {0} /\ k < Top
                      /\ lo[k] \in Nat /\ hi[k] \in Nat /\ hi[k] <= Top
      BY IntervalTypes
<1>1. /\ Within(N, lo, hi) /\ Linked(N, L, R, lo, hi) /\ Complete(N, L, R, lo, hi)
      /\ Nested(N, lo, hi) /\ lo[n] = 0 /\ hi[n] = Top
      BY <1>0 DEF Shaped, Rooted, Null
<1>2. low \in Bounds BY <1>0, TopType DEF Bounds, Lowered
<1>3. \A k \in Keys : low[k] = IF lo[k] = n THEN 0 ELSE lo[k] BY DEF Lowered
<1>4. \A k \in M : n < k
  <2> TAKE k \in M
  <2>1. ~(lo[n] < k /\ k < n) BY <1>1 DEF Complete
  <2> QED BY <1>0, <1>1, <2>1
<1>5. \A k \in M : n <= lo[k] /\ lo[k] < k /\ k < hi[k]
  <2> TAKE k \in M
  <2>1. lo[k] < k /\ k < hi[k] BY <1>1 DEF Within
  <2>2. \/ (lo[k] <= lo[n] /\ hi[n] <= k)
        \/ (n <= lo[k] /\ hi[k] <= hi[n])
        \/ hi[n] <= lo[k]
        BY <1>1, <1>4 DEF Nested
  <2> QED BY <1>0, <1>1, <2>1, <2>2
<1>6. \A k \in M : L[k] # n /\ R[k] # n
  <2> TAKE k \in M
  <2>1. L[k] = n => lo[n] = lo[k] BY <1>0, <1>1 DEF Linked, Null
  <2>2. R[k] = n => lo[n] = k BY <1>0, <1>1 DEF Linked, Null
  <2> QED BY <1>0, <1>1, <1>5, <2>1, <2>2
<1>7. /\ \A k \in M : S[k] = L[k] /\ T[k] = R[k]
      /\ \A k \in Keys \ M : S[k] = Null /\ T[k] = Null
      BY <1>1, <1>6 DEF Bypass, Linked
<1> HIDE DEF low, S, T
<1>8. Within(M, low, hi)
  <2> SUFFICES ASSUME NEW k \in M PROVE low[k] < k /\ k < hi[k] BY DEF Within
  <2> QED BY <1>0, <1>3, <1>5
<1>9. Linked(M, S, T, low, hi)
  <2>1. ASSUME NEW k \in M, L[k] # Null
        PROVE  L[k] \in M /\ low[L[k]] = low[k] /\ hi[L[k]] = k
    <3>1. L[k] \in N /\ lo[L[k]] = lo[k] /\ hi[L[k]] = k BY <1>1, <2>1 DEF Linked
    <3> QED BY <1>3, <1>6, <3>1
  <2>2. ASSUME NEW k \in M, R[k] # Null
        PROVE  R[k] \in M /\ low[R[k]] = k /\ hi[R[k]] = hi[k]
    <3>1. R[k] \in N /\ lo[R[k]] = k /\ hi[R[k]] = hi[k] BY <1>1, <2>2 DEF Linked
    <3> QED BY <1>3, <1>6, <3>1
  <2> QED BY <1>7, <2>1, <2>2 DEF Linked
<1>10. Complete(M, S, T, low, hi)
  <2> SUFFICES ASSUME NEW k \in M, NEW j \in M
               PROVE  /\ S[k] = Null => ~(low[k] < j /\ j < k)
                      /\ T[k] = Null => ~(k < j /\ j < hi[k])
      BY DEF Complete
  <2>1. /\ L[k] = Null => ~(lo[k] < j /\ j < k)
        /\ R[k] = Null => ~(k < j /\ j < hi[k])
        BY <1>1 DEF Complete
  <2> QED BY <1>0, <1>3, <1>4, <1>7, <2>1
<1>11. Nested(M, low, hi)
  <2> SUFFICES ASSUME NEW a \in M, NEW b \in M, a < b
               PROVE  \/ (low[b] <= low[a] /\ hi[a] <= b)
                      \/ (a <= low[b] /\ hi[b] <= hi[a])
                      \/ hi[a] <= low[b]
      BY DEF Nested
  <2>1. \/ (lo[b] <= lo[a] /\ hi[a] <= b)
        \/ (a <= lo[b] /\ hi[b] <= hi[a])
        \/ hi[a] <= lo[b]
        BY <1>1 DEF Nested
  <2> QED BY <1>0, <1>3, <1>4, <1>5, <2>1
<1>12. Rooted(M, R[n], low, hi)
  <2>1. CASE R[n] = Null
    <3>1. \A k \in M : ~(n < k /\ k < hi[n]) BY <1>1, <2>1 DEF Complete
    <3>2. M = {} BY <1>0, <1>1, <1>4, <3>1
    <3> QED BY <2>1, <3>2 DEF Rooted
  <2>2. CASE R[n] # Null
    <3>1. R[n] \in N /\ lo[R[n]] = n /\ hi[R[n]] = hi[n] BY <1>1, <2>2 DEF Linked
    <3>2. R[n] # n BY <1>0, <1>1, <3>1
    <3> QED BY <1>1, <1>3, <2>2, <3>1, <3>2 DEF Rooted
  <2> QED BY <2>1, <2>2
<1>13. Shaped(M, R[n], S, T, low, hi)
       BY <1>8, <1>9, <1>10, <1>11, <1>12 DEF Shaped
<1> QED BY <1>2, <1>13 DEF low, S, T

\* u is t without the node n and its place; its subtrees are nowhere.
Cut(t, u, n) ==
  /\ u \in Tree
  /\ u.nodes = t.nodes \ {n} /\ u.undefined = t.undefined
  /\ u.root_ptr_ = IF t.root_ptr_ = n THEN Null ELSE t.root_ptr_
  /\ u.left_ptr_ = Bypass(t.left_ptr_, n, Null)
  /\ u.right_ptr_ = Bypass(t.right_ptr_, n, Null)
  /\ u.parent_ = [t.parent_ EXCEPT ![n] = Null]
  /\ u.val_ = [t.val_ EXCEPT ![n] = Null]

\* What the fields of a tree are.
LEMMA TreeFields ==
  ASSUME NEW t \in Tree
  PROVE  /\ t.nodes \in SUBSET Keys /\ t.root_ptr_ \in Ptr
         /\ t.left_ptr_ \in [Keys -> Ptr] /\ t.right_ptr_ \in [Keys -> Ptr]
         /\ t.parent_ \in [Keys -> Ptr] /\ t.val_ \in [Keys -> Values \cup {Null}]
         /\ t.undefined \in {"no", "null node", "deleted node"}
         /\ Links(t)
BY DEF Tree, Links

\* erase_node, up to the reinsertions: what the three cases change.
LEMMA UnlinkEffect ==
  ASSUME NEW t \in Tree, NEW lo \in Bounds, NEW hi \in Bounds, TreeShaped(t, lo, hi),
         Parented(t), NEW n \in t.nodes,
         n = t.root_ptr_ => t.parent_[n] \notin t.nodes
  PROVE  LET u == Unlink(t, n)
         IN  /\ t.parent_[n] = Null \/ n # t.root_ptr_ => Cut(t, u, n)
             /\ t.parent_[n] # Null /\ n = t.root_ptr_ =>
                  u = [t EXCEPT !.undefined = "deleted node"]
<1> DEFINE u == Unlink(t, n)
           p == t.parent_[n]
           L == t.left_ptr_
           R == t.right_ptr_
           N == t.nodes
           rest == [t EXCEPT !.nodes = @ \ {n}, !.left_ptr_[n] = Null,
                             !.right_ptr_[n] = Null, !.parent_[n] = Null,
                             !.val_[n] = Null]
<1>0. \A k \in Keys : /\ k \in Nat \ {0} /\ k < Top
                      /\ lo[k] \in Nat /\ hi[k] \in Nat /\ hi[k] <= Top
      BY IntervalTypes
<1>1. /\ N \in SUBSET Keys /\ t.root_ptr_ \in Ptr
      /\ L \in [Keys -> Ptr] /\ R \in [Keys -> Ptr]
      /\ t.parent_ \in [Keys -> Ptr] /\ t.val_ \in [Keys -> Values \cup {Null}]
      BY TreeFields
<1>2. /\ Within(N, lo, hi) /\ Linked(N, L, R, lo, hi) /\ Nested(N, lo, hi)
      /\ Rooted(N, t.root_ptr_, lo, hi)
      BY DEF TreeShaped, Shaped
<1>3. /\ rest \in Tree
      /\ rest.nodes = N \ {n} /\ rest.undefined = t.undefined
      /\ rest.root_ptr_ = t.root_ptr_
      /\ rest.left_ptr_ = [L EXCEPT ![n] = Null]
      /\ rest.right_ptr_ = [R EXCEPT ![n] = Null]
      /\ rest.parent_ = [t.parent_ EXCEPT ![n] = Null]
      /\ rest.val_ = [t.val_ EXCEPT ![n] = Null]
      BY <1>1 DEF Tree, Ptr
<1>4. n # Null /\ n \in Keys BY <1>0, <1>1 DEF Null
<1>5. u = IF p = Null THEN [rest EXCEPT !.root_ptr_ = Null]
          ELSE IF p \notin N THEN [t EXCEPT !.undefined = "deleted node"]
          ELSE IF should_go_right(p, n) THEN [rest EXCEPT !.right_ptr_[p] = Null]
          ELSE [rest EXCEPT !.left_ptr_[p] = Null]
      BY Zenon DEF Unlink
<1> HIDE DEF rest, u
<1>6. \A k \in Keys \ N : L[k] # n /\ R[k] # n BY <1>2, <1>4 DEF Linked
<1>7. CASE n = t.root_ptr_
  <2>1. lo[n] = 0 /\ hi[n] = Top BY <1>2, <1>4, <1>7 DEF Rooted
  <2>2. \A k \in N : L[k] # n /\ R[k] # n
    <3> TAKE k \in N
    <3>1. L[k] = n => hi[n] = k BY <1>2, <1>4 DEF Linked
    <3>2. R[k] = n => lo[n] = k BY <1>2, <1>4 DEF Linked
    <3> QED BY <1>0, <1>1, <2>1, <3>1, <3>2
  <2>3. /\ [L EXCEPT ![n] = Null] = Bypass(L, n, Null)
        /\ [R EXCEPT ![n] = Null] = Bypass(R, n, Null)
        BY <1>1, <1>6, <2>2 DEF Bypass
  <2>4. ASSUME p = Null PROVE Cut(t, u, n)
    <3>1. u = [rest EXCEPT !.root_ptr_ = Null] BY <1>5, <2>4
    <3>2. /\ u.nodes = rest.nodes /\ u.undefined = rest.undefined
          /\ u.root_ptr_ = Null /\ u.left_ptr_ = rest.left_ptr_
          /\ u.right_ptr_ = rest.right_ptr_ /\ u.parent_ = rest.parent_
          /\ u.val_ = rest.val_ /\ u \in Tree
          BY <1>3, <3>1 DEF Tree, Ptr
    <3> QED BY <1>3, <1>7, <2>3, <3>2 DEF Cut
  <2>5. ASSUME p # Null PROVE u = [t EXCEPT !.undefined = "deleted node"]
        BY <1>5, <1>7, <2>5
  <2> QED BY <1>7, <2>4, <2>5 DEF u
<1>8. CASE n # t.root_ptr_
  <2>1. p \in N /\ n \in {L[p], R[p]} BY <1>8 DEF Parented
  <2>2. p # Null /\ p \in Keys BY <1>0, <1>1, <2>1 DEF Null
  <2>3. \A k \in N : n \in {L[k], R[k]} => k = p
        BY <1>1, <1>2, <2>1, UniqueParent
  <2>4. L[p] # R[p] BY <1>1, <1>2, <2>1, UniqueParent
  <2>5. CASE R[p] = n
    <3>1. should_go_right(p, n)
      <4>1. lo[n] = p /\ lo[n] < n BY <1>2, <1>4, <2>1, <2>5 DEF Linked, Within
      <4> QED BY <1>0, <1>4, <2>2, <4>1 DEF should_go_right
    <3>2. u = [rest EXCEPT !.right_ptr_[p] = Null] BY <1>5, <2>1, <2>2, <3>1
    <3>3. [L EXCEPT ![n] = Null] = Bypass(L, n, Null)
      <4>1. \A k \in Keys : L[k] # n BY <1>6, <2>3, <2>4, <2>5
      <4> QED BY <1>1, <4>1 DEF Bypass
    <3>4. [[R EXCEPT ![n] = Null] EXCEPT ![p] = Null] = Bypass(R, n, Null)
      <4>1. \A k \in Keys : R[k] = n <=> k = p BY <1>6, <2>3, <2>5
      <4> QED BY <1>1, <4>1 DEF Bypass
    <3>5. /\ u.nodes = rest.nodes /\ u.undefined = rest.undefined
          /\ u.root_ptr_ = rest.root_ptr_ /\ u.left_ptr_ = rest.left_ptr_
          /\ u.right_ptr_ = [rest.right_ptr_ EXCEPT ![p] = Null]
          /\ u.parent_ = rest.parent_ /\ u.val_ = rest.val_ /\ u \in Tree
          BY <1>3, <3>2, <2>2 DEF Tree, Ptr
    <3> QED BY <1>3, <1>8, <3>3, <3>4, <3>5 DEF Cut, u
  <2>6. CASE L[p] = n
    <3>1. ~should_go_right(p, n)
      <4>1. hi[n] = p /\ n < hi[n] BY <1>2, <1>4, <2>1, <2>6 DEF Linked, Within
      <4> QED BY <1>0, <1>4, <2>2, <4>1 DEF should_go_right
    <3>2. u = [rest EXCEPT !.left_ptr_[p] = Null] BY <1>5, <2>1, <2>2, <3>1
    <3>3. [R EXCEPT ![n] = Null] = Bypass(R, n, Null)
      <4>1. \A k \in Keys : R[k] # n BY <1>6, <2>3, <2>4, <2>6
      <4> QED BY <1>1, <4>1 DEF Bypass
    <3>4. [[L EXCEPT ![n] = Null] EXCEPT ![p] = Null] = Bypass(L, n, Null)
      <4>1. \A k \in Keys : L[k] = n <=> k = p BY <1>6, <2>3, <2>6
      <4> QED BY <1>1, <4>1 DEF Bypass
    <3>5. /\ u.nodes = rest.nodes /\ u.undefined = rest.undefined
          /\ u.root_ptr_ = rest.root_ptr_ /\ u.right_ptr_ = rest.right_ptr_
          /\ u.left_ptr_ = [rest.left_ptr_ EXCEPT ![p] = Null]
          /\ u.parent_ = rest.parent_ /\ u.val_ = rest.val_ /\ u \in Tree
          BY <1>3, <3>2, <2>2 DEF Tree, Ptr
    <3> QED BY <1>3, <1>8, <3>3, <3>4, <3>5 DEF Cut, u
  <2> QED BY <2>1, <2>5, <2>6
<1> QED BY <1>7, <1>8

\* u is t without the node n, and the left subtree is in its place.
HalfBack(t, u, n) ==
  LET left == t.left_ptr_[n]
      cut == [t.parent_ EXCEPT ![n] = Null]
  IN  /\ u \in Tree
      /\ u.nodes = t.nodes \ {n} /\ u.undefined = t.undefined
      /\ u.root_ptr_ = IF t.root_ptr_ = n THEN left ELSE t.root_ptr_
      /\ u.left_ptr_ = Bypass(t.left_ptr_, n, left)
      /\ u.right_ptr_ = Bypass(t.right_ptr_, n, left)
      /\ u.parent_ = IF t.root_ptr_ = n THEN cut
                     ELSE [cut EXCEPT ![left] = t.parent_[n]]
      /\ u.val_ = [t.val_ EXCEPT ![n] = Null]

LEMMA LeftBack ==
  ASSUME NEW t \in Tree, NEW lo \in Bounds, NEW hi \in Bounds, TreeShaped(t, lo, hi),
         Parented(t), NEW n \in t.nodes, t.left_ptr_[n] # Null,
         NEW u \in Tree, Cut(t, u, n)
  PROVE  HalfBack(t, reinsert_node(u, t.left_ptr_[n]), n)
<1> DEFINE L == t.left_ptr_
           R == t.right_ptr_
           N == t.nodes
           l == L[n]
           p == t.parent_[n]
           w == reinsert_node(u, l)
           m == find_nearest_node(u, l)
<1>0. \A k \in Keys : /\ k \in Nat \ {0} /\ k < Top
                      /\ lo[k] \in Nat /\ hi[k] \in Nat /\ hi[k] <= Top
      BY IntervalTypes
<1>1. /\ N \in SUBSET Keys /\ t.root_ptr_ \in Ptr /\ n \in Keys
      /\ L \in [Keys -> Ptr] /\ R \in [Keys -> Ptr] /\ t.parent_ \in [Keys -> Ptr]
      BY TreeFields
<1>2. /\ Within(N, lo, hi) /\ Linked(N, L, R, lo, hi) /\ Nested(N, lo, hi)
      /\ Complete(N, L, R, lo, hi) /\ Rooted(N, t.root_ptr_, lo, hi)
      BY DEF TreeShaped, Shaped
<1>3. l \in N /\ lo[l] = lo[n] /\ hi[l] = n /\ l \in Keys /\ lo[l] < l /\ l < n
  <2>1. l \in N /\ lo[l] = lo[n] /\ hi[l] = n BY <1>1, <1>2 DEF Linked
  <2>2. lo[l] < l /\ l < hi[l] BY <1>2, <2>1 DEF Within
  <2> QED BY <1>1, <2>1, <2>2
<1>4. w = insert_node(u, l) BY Zenon DEF reinsert_node
<1>5. n # Null BY <1>0, <1>1 DEF Null
<1>6. /\ u.nodes = N \ {n} /\ u.undefined = t.undefined
      /\ u.left_ptr_ = Bypass(L, n, Null) /\ u.right_ptr_ = Bypass(R, n, Null)
      /\ u.parent_ = [t.parent_ EXCEPT ![n] = Null]
      /\ u.val_ = [t.val_ EXCEPT ![n] = Null]
      /\ u.root_ptr_ = IF t.root_ptr_ = n THEN Null ELSE t.root_ptr_
      BY DEF Cut
<1> HIDE DEF w
<1>7. CASE t.root_ptr_ = n
  <2>1. m = Null BY <1>6, <1>7, Zenon DEF find_nearest_node
  <2>2. IsRoot(u, w, l) BY <1>3, <1>4, <2>1, InsertNodeEffect
  <2>3. \A k \in Keys : L[k] # n /\ R[k] # n
    <3> TAKE k \in Keys
    <3>1. lo[n] = 0 /\ hi[n] = Top BY <1>2, <1>5, <1>7 DEF Rooted
    <3>2. L[k] = n => k \in N /\ hi[n] = k BY <1>2, <1>5 DEF Linked
    <3>3. R[k] = n => k \in N /\ lo[n] = k BY <1>2, <1>5 DEF Linked
    <3> QED BY <1>0, <3>1, <3>2, <3>3
  <2>4. Bypass(L, n, Null) = Bypass(L, n, l) /\ Bypass(R, n, Null) = Bypass(R, n, l)
        BY <2>3 DEF Bypass
  <2>5. /\ w \in Tree /\ w.nodes = N \ {n} /\ w.undefined = t.undefined
        /\ w.root_ptr_ = l /\ w.left_ptr_ = Bypass(L, n, l) /\ w.right_ptr_ = Bypass(R, n, l)
        /\ w.parent_ = [t.parent_ EXCEPT ![n] = Null] /\ w.val_ = [t.val_ EXCEPT ![n] = Null]
        BY <1>6, <2>2, <2>4 DEF IsRoot
  <2> QED BY <1>7, <2>5 DEF HalfBack, w
<1>8. CASE t.root_ptr_ # n
  <2>1. p \in N /\ n \in {L[p], R[p]} BY <1>8 DEF Parented
  <2>2. t.root_ptr_ \in N \ {n} /\ lo[t.root_ptr_] = 0 /\ hi[t.root_ptr_] = Top
        /\ u.root_ptr_ = t.root_ptr_
        BY <1>2, <1>6, <1>8, <2>1 DEF Rooted
  <2>3. lo[t.root_ptr_] < l /\ l < hi[t.root_ptr_] BY <1>0, <1>3, <2>2
  <2>4. EndsAt(u, N \ {n}, lo, hi, l, t.root_ptr_, m)
    <3>0. /\ Bypass(L, n, Null) \in [Keys -> Ptr] /\ Bypass(R, n, Null) \in [Keys -> Ptr]
          /\ Within(N \ {n}, lo, hi)
          /\ Linked(N \ {n}, Bypass(L, n, Null), Bypass(R, n, Null), lo, hi)
          BY <1>1, <1>2, CutLinked
    <3>1. N \ {n} \in SUBSET Keys /\ Links(u)
          /\ Within(N \ {n}, lo, hi) /\ Linked(N \ {n}, u.left_ptr_, u.right_ptr_, lo, hi)
          BY <1>1, <1>6, <3>0 DEF Links
    <3> HIDE DEF l
    <3> QED BY <1>3, <2>2, <2>3, <3>1, Nearest
  <2> HIDE DEF m
  <2>5. m \in N \ {n} /\ m \in Keys /\ lo[m] < l /\ l < hi[m] BY <1>1, <2>4 DEF EndsAt
  <2>6. m # l
    <3>1. SUFFICES ASSUME m = l PROVE FALSE OBVIOUS
    <3>2. m # t.root_ptr_ BY <1>0, <1>1, <1>3, <2>2, <3>1
    <3>3. PICK q \in N \ {n} : m = u.left_ptr_[q] \/ m = u.right_ptr_[q]
          BY <2>4, <3>2 DEF EndsAt
    <3>4. l # Null BY <1>0, <1>3 DEF Null
    <3>5. l = L[q] \/ l = R[q] BY <1>1, <1>6, <3>1, <3>3, <3>4 DEF Bypass
    <3>6. q = n BY <1>1, <1>2, <1>3, <3>3, <3>5, UniqueParent
    <3> QED BY <3>3, <3>6
  <2>7. Child(u, l, m) = Null BY <2>4, <2>6 DEF EndsAt, StopsAt
  <2>8. m = p /\ (should_go_right(m, l) <=> R[m] = n)
    <3>1. CASE should_go_right(m, l)
      <4>1. m < l BY <1>0, <1>3, <2>5, <3>1 DEF should_go_right
      <4>2. R[m] # Null BY <1>2, <1>3, <2>5, <4>1 DEF Complete
      <4>3. Bypass(R, n, Null)[m] = Null BY <1>6, <2>7, <3>1 DEF Child
      <4>4. R[m] = n BY <2>5, <4>2, <4>3 DEF Bypass
      <4>5. m = p BY <1>1, <1>2, <2>1, <2>5, <4>4, UniqueParent
      <4> QED BY <3>1, <4>4, <4>5
    <3>2. CASE ~should_go_right(m, l)
      <4>1. l < m BY <1>0, <1>3, <2>5, <2>6, <3>2 DEF should_go_right
      <4>2. L[m] # Null BY <1>2, <1>3, <2>5, <4>1 DEF Complete
      <4>3. Bypass(L, n, Null)[m] = Null BY <1>6, <2>7, <3>2 DEF Child
      <4>4. L[m] = n BY <2>5, <4>2, <4>3 DEF Bypass
      <4>5. m = p /\ L[m] # R[m] BY <1>1, <1>2, <2>1, <2>5, <4>4, UniqueParent
      <4> QED BY <3>2, <4>4, <4>5
    <3> QED BY <3>1, <3>2
  <2>9. Hangs(u, w, m, l) BY <1>3, <1>4, <2>5, InsertNodeEffect DEF m
  <2>10. \A k \in N : n \in {L[k], R[k]} => k = p
         BY <1>1, <1>2, <2>1, UniqueParent
  <2>11. \A k \in Keys \ N : L[k] # n /\ R[k] # n BY <1>2, <1>5 DEF Linked
  <2>12. w.left_ptr_ = Bypass(L, n, l) /\ w.right_ptr_ = Bypass(R, n, l)
    <3>1. CASE R[p] = n
      <4>1. w.left_ptr_ = Bypass(L, n, Null)
            /\ w.right_ptr_ = [Bypass(R, n, Null) EXCEPT ![p] = l]
            BY <1>6, <2>8, <2>9, <3>1 DEF Hangs
      <4>2. L[p] # R[p] BY <1>1, <1>2, <2>1, UniqueParent
      <4>3. \A k \in Keys : L[k] # n /\ (R[k] = n <=> k = p) BY <2>10, <2>11, <3>1, <4>2
      <4>4. Bypass(L, n, Null) = Bypass(L, n, l) BY <4>3 DEF Bypass
      <4>5. p # n /\ p \in Keys BY <2>5, <2>8
      <4>6. [Bypass(R, n, Null) EXCEPT ![p] = l] = Bypass(R, n, l)
            BY <4>3, <4>5 DEF Bypass
      <4> QED BY <4>1, <4>4, <4>6
    <3>2. CASE R[p] # n
      <4>1. w.right_ptr_ = Bypass(R, n, Null)
            /\ w.left_ptr_ = [Bypass(L, n, Null) EXCEPT ![p] = l]
            BY <1>6, <2>8, <2>9, <3>2 DEF Hangs
      <4>2. \A k \in Keys : R[k] # n /\ (L[k] = n <=> k = p) BY <2>1, <2>10, <2>11, <3>2
      <4>3. Bypass(R, n, Null) = Bypass(R, n, l) BY <4>2 DEF Bypass
      <4>4. p # n /\ p \in Keys BY <2>5, <2>8
      <4>5. [Bypass(L, n, Null) EXCEPT ![p] = l] = Bypass(L, n, l)
            BY <4>2, <4>4 DEF Bypass
      <4> QED BY <4>1, <4>3, <4>5
    <3> QED BY <3>1, <3>2
  <2>13. /\ w \in Tree /\ w.nodes = N \ {n} /\ w.undefined = t.undefined
         /\ w.root_ptr_ = t.root_ptr_
         /\ w.parent_ = [[t.parent_ EXCEPT ![n] = Null] EXCEPT ![l] = p]
         /\ w.val_ = [t.val_ EXCEPT ![n] = Null]
         BY <1>6, <2>2, <2>8, <2>9 DEF Hangs
  <2> QED BY <1>8, <2>12, <2>13 DEF HalfBack, w
<1> QED BY <1>7, <1>8

\* w is u with n to the right of m.
HangsRight(u, w, m, n) ==
  /\ w \in Tree
  /\ w.nodes = u.nodes /\ w.undefined = u.undefined /\ w.val_ = u.val_
  /\ w.root_ptr_ = u.root_ptr_ /\ w.left_ptr_ = u.left_ptr_
  /\ w.right_ptr_ = [u.right_ptr_ EXCEPT ![m] = n]
  /\ w.parent_ = [u.parent_ EXCEPT ![n] = m]

LEMMA RightBack ==
  ASSUME NEW t \in Tree, NEW lo \in Bounds, NEW hi \in Bounds, TreeShaped(t, lo, hi),
         NEW n \in t.nodes, t.left_ptr_[n] # Null, t.right_ptr_[n] # Null,
         NEW u \in Tree, HalfBack(t, u, n)
  PROVE  \E m \in t.nodes \ {n} :
           /\ hi[m] = n /\ t.right_ptr_[m] = Null
           /\ HangsRight(u, reinsert_node(u, t.right_ptr_[n]), m, t.right_ptr_[n])
<1> DEFINE L == t.left_ptr_
           R == t.right_ptr_
           N == t.nodes
           l == L[n]
           r == R[n]
           high == Raised(hi, n)
           w == reinsert_node(u, r)
           m == find_nearest_node(u, r)
<1>0. \A k \in Keys : /\ k \in Nat \ {0} /\ k < Top
                      /\ lo[k] \in Nat /\ hi[k] \in Nat /\ hi[k] <= Top
      BY IntervalTypes
<1>1. /\ N \in SUBSET Keys /\ t.root_ptr_ \in Ptr /\ n \in Keys
      /\ L \in [Keys -> Ptr] /\ R \in [Keys -> Ptr] /\ t.parent_ \in [Keys -> Ptr]
      BY TreeFields
<1>2. /\ Within(N, lo, hi) /\ Linked(N, L, R, lo, hi) /\ Nested(N, lo, hi)
      /\ Complete(N, L, R, lo, hi) /\ Rooted(N, t.root_ptr_, lo, hi)
      BY DEF TreeShaped, Shaped
<1>3. /\ l \in N /\ lo[l] = lo[n] /\ hi[l] = n
      /\ r \in N /\ lo[r] = n /\ hi[r] = hi[n]
      BY <1>1, <1>2 DEF Linked
<1>4. /\ l \in Keys /\ r \in Keys /\ l < n /\ n < r /\ r < hi[n] /\ lo[n] < n
  <2>1. l < hi[l] /\ lo[r] < r /\ r < hi[r] /\ lo[n] < n BY <1>2, <1>3 DEF Within
  <2> QED BY <1>1, <1>3, <2>1
<1>5. w = insert_node(u, r) BY Zenon DEF reinsert_node
<1>6. /\ u.left_ptr_ = Bypass(L, n, l) /\ u.right_ptr_ = Bypass(R, n, l)
      /\ u.root_ptr_ = IF t.root_ptr_ = n THEN l ELSE t.root_ptr_
      BY DEF HalfBack
<1>7. \A k \in Keys : high[k] = IF hi[k] = n THEN hi[n] ELSE hi[k] BY DEF Raised
<1>8. /\ u.root_ptr_ \in N \ {n} /\ u.root_ptr_ # r
      /\ lo[u.root_ptr_] < r /\ r < high[u.root_ptr_]
  <2>1. t.root_ptr_ \in N /\ lo[t.root_ptr_] = 0 /\ hi[t.root_ptr_] = Top
        BY <1>2 DEF Rooted
  <2>2. CASE t.root_ptr_ = n
    <3>1. u.root_ptr_ = l /\ high[l] = Top /\ lo[l] = 0
          BY <1>3, <1>4, <1>6, <1>7, <2>1, <2>2
    <3> QED BY <1>0, <1>1, <1>3, <1>4, <3>1
  <2>3. CASE t.root_ptr_ # n
    <3>1. u.root_ptr_ = t.root_ptr_ /\ hi[t.root_ptr_] # n BY <1>0, <1>1, <1>6, <2>1, <2>3
    <3>2. high[t.root_ptr_] = Top BY <1>1, <1>7, <2>1, <3>1
    <3>3. t.root_ptr_ # r BY <1>0, <1>1, <1>3, <2>1
    <3> QED BY <1>0, <1>4, <2>1, <2>3, <3>1, <3>2, <3>3
  <2> QED BY <2>2, <2>3
<1>9. EndsAt(u, N \ {n}, lo, high, r, u.root_ptr_, m)
  <2>1. /\ Bypass(L, n, l) \in [Keys -> Ptr] /\ Bypass(R, n, l) \in [Keys -> Ptr]
        /\ high \in Bounds /\ Within(N \ {n}, lo, high)
        /\ Linked(N \ {n}, Bypass(L, n, l), Bypass(R, n, l), lo, high)
        BY <1>1, <1>2, HalfLinked
  <2>2. N \ {n} \in SUBSET Keys /\ Links(u)
        /\ Linked(N \ {n}, u.left_ptr_, u.right_ptr_, lo, high)
        BY <1>1, <1>6, <2>1 DEF Links
  <2> HIDE DEF r, high
  <2> QED BY <1>4, <1>8, <2>1, <2>2, Nearest
<1> HIDE DEF m, w, high
<1>10. m \in N \ {n} /\ m \in Keys /\ lo[m] < r /\ r < high[m] BY <1>1, <1>9 DEF EndsAt
<1>11. l # Null /\ r # Null BY <1>0, <1>4 DEF Null
<1>12. m # r
  <2>1. SUFFICES ASSUME m = r PROVE FALSE OBVIOUS
  <2>2. PICK q \in N \ {n} : m = u.left_ptr_[q] \/ m = u.right_ptr_[q]
        BY <1>8, <1>9, <2>1 DEF EndsAt
  <2>3. l # r BY <1>0, <1>1, <1>4
  <2>4. r = L[q] \/ r = R[q] BY <1>1, <1>6, <2>1, <2>2, <2>3 DEF Bypass
  <2>5. q = n BY <1>1, <1>2, <1>3, <2>2, <2>4, UniqueParent
  <2> QED BY <2>2, <2>5
<1>13. Child(u, r, m) = Null BY <1>9, <1>12 DEF EndsAt, StopsAt
<1>14. should_go_right(m, r) /\ R[m] = Null /\ hi[m] = n
  <2>1. CASE ~should_go_right(m, r)
    <3>1. r < m BY <1>0, <1>4, <1>10, <1>12, <2>1 DEF should_go_right
    <3>2. L[m] = Null BY <1>6, <1>10, <1>11, <1>13, <2>1 DEF Bypass, Child
    <3> QED BY <1>2, <1>3, <1>10, <3>1, <3>2 DEF Complete
  <2>2. CASE should_go_right(m, r)
    <3>1. m < r BY <1>0, <1>4, <1>10, <2>2 DEF should_go_right
    <3>2. R[m] = Null BY <1>6, <1>10, <1>11, <1>13, <2>2 DEF Bypass, Child
    <3>3. ~(m < r /\ r < hi[m]) BY <1>2, <1>3, <1>10, <3>2 DEF Complete
    <3> QED BY <1>7, <1>10, <2>2, <3>1, <3>2, <3>3
  <2> QED BY <2>1, <2>2
<1>15. Hangs(u, w, m, r) BY <1>4, <1>5, <1>10, InsertNodeEffect DEF m
<1>16. HangsRight(u, w, m, r) BY <1>14, <1>15 DEF Hangs, HangsRight
<1> QED BY <1>10, <1>14, <1>16 DEF w

(***************************************************************************)
(* erase_node, when it runs into no undefined behaviour, takes one node    *)
(* away.  A root that moves up keeps a parent_ that is deleted.            *)
(***************************************************************************)
Erased(t, u, n) ==
  /\ WellFormed(u) /\ Parented(u)
  /\ u.nodes = t.nodes \ {n}
  /\ u.val_ = [t.val_ EXCEPT ![n] = Null]
  /\ n # t.root_ptr_ => /\ u.root_ptr_ = t.root_ptr_
                        /\ u.parent_[u.root_ptr_] = t.parent_[t.root_ptr_]
  /\ n = t.root_ptr_ /\ u.root_ptr_ # Null => u.parent_[u.root_ptr_] \notin u.nodes

LEMMA ErasedBoth ==
  ASSUME NEW t \in Tree, NEW lo \in Bounds, NEW hi \in Bounds, TreeShaped(t, lo, hi),
         Parented(t), NEW n \in t.nodes, t.left_ptr_[n] # Null, t.right_ptr_[n] # Null,
         NEW u \in Tree, HalfBack(t, u, n)
  PROVE  LET w == reinsert_node(u, t.right_ptr_[n])
         IN  w \in Tree /\ w.undefined = t.undefined /\ Erased(t, w, n)
<1> DEFINE L == t.left_ptr_
           R == t.right_ptr_
           N == t.nodes
           l == L[n]
           r == R[n]
           w == reinsert_node(u, r)
<1>0. \A k \in Keys : /\ k \in Nat \ {0} /\ k < Top
                      /\ lo[k] \in Nat /\ hi[k] \in Nat /\ hi[k] <= Top
      BY IntervalTypes
<1>1. /\ N \in SUBSET Keys /\ t.root_ptr_ \in Ptr /\ n \in Keys
      /\ L \in [Keys -> Ptr] /\ R \in [Keys -> Ptr] /\ t.parent_ \in [Keys -> Ptr]
      BY TreeFields
<1>2. /\ Within(N, lo, hi) /\ Linked(N, L, R, lo, hi) /\ Nested(N, lo, hi)
      /\ Complete(N, L, R, lo, hi) /\ Rooted(N, t.root_ptr_, lo, hi)
      BY DEF TreeShaped, Shaped
<1>3. PICK m \in N \ {n} :
        hi[m] = n /\ R[m] = Null /\ HangsRight(u, w, m, r)
      BY RightBack, SMTT(30)
<1> DEFINE top == IF t.root_ptr_ = n THEN l ELSE t.root_ptr_
           cut == [t.parent_ EXCEPT ![n] = Null]
<1>4. /\ w.nodes = N \ {n} /\ w.undefined = t.undefined
      /\ w.val_ = [t.val_ EXCEPT ![n] = Null]
      /\ w.root_ptr_ = top /\ w.left_ptr_ = Bypass(L, n, l)
      /\ w.right_ptr_ = [Bypass(R, n, l) EXCEPT ![m] = r]
      /\ w.parent_ = [IF t.root_ptr_ = n THEN cut ELSE [cut EXCEPT ![l] = t.parent_[n]]
                        EXCEPT ![r] = m]
      /\ w \in Tree
      BY <1>3 DEF HalfBack, HangsRight
<1> HIDE DEF w
<1>5. WellFormed(w)
  <2>0. Shaped(N, t.root_ptr_, L, R, lo, hi) /\ m \in N BY DEF TreeShaped
  <2>1. /\ Lowered(lo, n, m) \in Bounds /\ Raised(hi, n) \in Bounds
        /\ Shaped(N \ {n}, top, Bypass(L, n, l), [Bypass(R, n, l) EXCEPT ![m] = r],
                  Lowered(lo, n, m), Raised(hi, n))
    <3>1. Spliced(N, t.root_ptr_, L, R, lo, hi, n, m) BY <1>1, <1>3, <2>0, Splice
    <3> QED BY <3>1 DEF Spliced
  <2> QED BY <1>4, <2>1 DEF WellFormed, TreeShaped
<1>6. /\ l \in N /\ lo[l] = lo[n] /\ hi[l] = n
      /\ r \in N /\ lo[r] = n /\ hi[r] = hi[n]
      BY <1>1, <1>2 DEF Linked
<1>7. /\ l \in Keys /\ r \in Keys /\ l # n /\ r # n /\ l # r
      /\ l # Null /\ r # Null /\ n # Null
      /\ l # t.root_ptr_ /\ r # t.root_ptr_
  <2>1. l < hi[l] /\ lo[r] < r /\ r < hi[r] /\ lo[n] < n /\ n < hi[n]
        BY <1>2, <1>6 DEF Within
  <2>2. t.root_ptr_ # Null => lo[t.root_ptr_] = 0 /\ hi[t.root_ptr_] = Top
        BY <1>2 DEF Rooted
  <2> QED BY <1>0, <1>1, <1>6, <2>1, <2>2 DEF Null
<1>8. t.root_ptr_ \in N BY <1>2 DEF Rooted
<1>9. \A k \in Keys : w.parent_[k] =
         IF k = r THEN m ELSE IF k = l /\ t.root_ptr_ # n THEN t.parent_[n]
         ELSE IF k = n THEN Null ELSE t.parent_[k]
      BY <1>1, <1>4, <1>7
<1>10. \A k \in N \ {n} : /\ w.left_ptr_[k] = IF L[k] = n THEN l ELSE L[k]
                          /\ w.right_ptr_[k] = IF k = m THEN r
                                               ELSE IF R[k] = n THEN l ELSE R[k]
       BY <1>1, <1>4 DEF Bypass
<1>11. Parented(w)
  <2>1. \A k \in Keys \ w.nodes : w.parent_[k] = Null
        BY <1>4, <1>6, <1>7, <1>9 DEF Parented
  <2>2. ASSUME NEW k \in w.nodes \ {w.root_ptr_}
        PROVE  /\ w.parent_[k] \in w.nodes
               /\ k \in {w.left_ptr_[w.parent_[k]], w.right_ptr_[w.parent_[k]]}
    <3>1. k \in N \ {n} /\ k \in Keys BY <1>1, <1>4, <2>2
    <3>2. CASE k = r BY <1>3, <1>4, <1>7, <1>9, <1>10, <3>2
    <3>3. CASE k = l
      <4>1. t.root_ptr_ # n BY <1>4, <2>2, <3>3
      <4>2. t.parent_[n] \in N /\ n \in {L[t.parent_[n]], R[t.parent_[n]]}
            BY <4>1 DEF Parented
      <4>3. t.parent_[n] # n
        <5>1. L[n] # n /\ R[n] # n BY <1>7
        <5> QED BY <4>2, <5>1
      <4>4. w.parent_[k] = t.parent_[n] BY <1>7, <1>9, <3>1, <3>3, <4>1
      <4>5. R[t.parent_[n]] = n => t.parent_[n] # m BY <1>3, <1>7
      <4> QED BY <1>4, <1>10, <3>3, <4>2, <4>3, <4>4, <4>5
    <3>4. CASE k # r /\ k # l
      <4>1. w.parent_[k] = t.parent_[k] BY <1>9, <3>1, <3>4
      <4>2. k # t.root_ptr_ BY <1>4, <2>2, <3>1
      <4>3. t.parent_[k] \in N /\ k \in {L[t.parent_[k]], R[t.parent_[k]]}
            BY <3>1, <4>2 DEF Parented
      <4>4. t.parent_[k] # n BY <3>4, <4>3
      <4>5. R[t.parent_[k]] = k => t.parent_[k] # m
            BY <1>0, <1>3, <3>1 DEF Null
      <4> QED BY <1>4, <1>10, <3>1, <4>1, <4>3, <4>4, <4>5
    <3> QED BY <3>2, <3>3, <3>4
  <2> QED BY <2>1, <2>2 DEF Parented
<1>12. n # t.root_ptr_ => /\ w.root_ptr_ = t.root_ptr_
                          /\ w.parent_[w.root_ptr_] = t.parent_[t.root_ptr_]
       BY <1>1, <1>4, <1>7, <1>8, <1>9
<1>13. n = t.root_ptr_ => w.parent_[w.root_ptr_] \notin w.nodes
  <2>1. SUFFICES ASSUME n = t.root_ptr_ PROVE w.parent_[l] \notin w.nodes
        BY <1>4
  <2>2. w.parent_[l] = t.parent_[l] BY <1>7, <1>9, <2>1
  <2>3. t.parent_[l] \in N /\ l \in {L[t.parent_[l]], R[t.parent_[l]]}
        BY <1>6, <1>7, <2>1 DEF Parented
  <2>4. t.parent_[l] = n BY <1>1, <1>2, <1>6, <2>3, UniqueParent
  <2> QED BY <1>4, <2>2, <2>4
<1>14. Erased(t, w, n) BY <1>4, <1>5, <1>11, <1>12, <1>13 DEF Erased
<1> QED BY <1>4, <1>14 DEF w

LEMMA ErasedRoot ==
  ASSUME NEW t \in Tree, NEW lo \in Bounds, NEW hi \in Bounds, TreeShaped(t, lo, hi),
         Parented(t), NEW n \in t.nodes, n = t.root_ptr_, t.left_ptr_[n] = Null,
         NEW u \in Tree, Cut(t, u, n)
  PROVE  LET w == reinsert_node(u, t.right_ptr_[n])
         IN  w \in Tree /\ w.undefined = t.undefined /\ Erased(t, w, n)
<1> DEFINE L == t.left_ptr_
           R == t.right_ptr_
           N == t.nodes
           r == R[n]
           w == reinsert_node(u, r)
<1>0. \A k \in Keys : /\ k \in Nat \ {0} /\ k < Top
                      /\ lo[k] \in Nat /\ hi[k] \in Nat /\ hi[k] <= Top
      BY IntervalTypes
<1>1. /\ N \in SUBSET Keys /\ t.root_ptr_ \in Ptr /\ n \in Keys
      /\ L \in [Keys -> Ptr] /\ R \in [Keys -> Ptr] /\ t.parent_ \in [Keys -> Ptr]
      BY TreeFields
<1>2. /\ Within(N, lo, hi) /\ Linked(N, L, R, lo, hi) /\ Nested(N, lo, hi)
      /\ Complete(N, L, R, lo, hi) /\ Rooted(N, t.root_ptr_, lo, hi)
      BY DEF TreeShaped, Shaped
<1>3. u.root_ptr_ = Null BY DEF Cut
<1>4. IsRoot(u, w, r)
  <2>1. CASE r = Null
    <3>1. w = u BY <1>3, <2>1, Zenon DEF reinsert_node
    <3> QED BY <1>3, <2>1, <3>1 DEF IsRoot
  <2>2. CASE r # Null
    <3>1. r \in Keys BY <1>1, <2>2 DEF Ptr
    <3>2. w = insert_node(u, r) BY <2>2, Zenon DEF reinsert_node
    <3>3. find_nearest_node(u, r) = Null BY <1>3, Zenon DEF find_nearest_node
    <3> QED BY <3>1, <3>2, <3>3, InsertNodeEffect
  <2> QED BY <2>1, <2>2
<1>5. /\ w \in Tree /\ w.nodes = N \ {n} /\ w.undefined = t.undefined
      /\ w.root_ptr_ = r
      /\ w.left_ptr_ = Bypass(L, n, Null) /\ w.right_ptr_ = Bypass(R, n, Null)
      /\ w.parent_ = [t.parent_ EXCEPT ![n] = Null]
      /\ w.val_ = [t.val_ EXCEPT ![n] = Null]
      BY <1>4 DEF IsRoot, Cut
<1> HIDE DEF w
<1>6. WellFormed(w)
  <2>1. /\ Lowered(lo, n, 0) \in Bounds
        /\ Shaped(N \ {n}, r, Bypass(L, n, Null), Bypass(R, n, Null), Lowered(lo, n, 0), hi)
        BY <1>1, RootRight DEF TreeShaped
  <2> QED BY <1>5, <2>1 DEF WellFormed, TreeShaped
<1>7. n # Null /\ L[n] # n /\ R[n] # n
  <2>1. R[n] # Null => lo[R[n]] = n /\ lo[R[n]] < R[n] BY <1>2 DEF Linked, Within
  <2> QED BY <1>0, <1>1, <2>1 DEF Null
<1>8. ASSUME NEW k \in w.nodes \ {w.root_ptr_}
      PROVE  /\ w.parent_[k] \in w.nodes
             /\ k \in {w.left_ptr_[w.parent_[k]], w.right_ptr_[w.parent_[k]]}
  <2>1. k \in N \ {n} /\ k \in Keys /\ k # r /\ k # Null
        BY <1>0, <1>1, <1>5, <1>8 DEF Null
  <2>2. t.parent_[k] \in N /\ k \in {L[t.parent_[k]], R[t.parent_[k]]}
        BY <2>1 DEF Parented
  <2>3. t.parent_[k] \in N \ {n} BY <2>1, <2>2
  <2>4. w.parent_[k] = t.parent_[k] BY <1>1, <1>5, <2>1
  <2> QED BY <1>1, <1>5, <2>1, <2>2, <2>3, <2>4 DEF Bypass
<1>9. \A k \in Keys \ w.nodes : w.parent_[k] = Null
      BY <1>1, <1>5 DEF Parented
<1>10. w.root_ptr_ # Null => w.parent_[w.root_ptr_] \notin w.nodes
  <2>1. SUFFICES ASSUME r # Null PROVE w.parent_[r] \notin w.nodes BY <1>5
  <2>2. r \in N /\ r # n BY <1>2, <1>7, <2>1 DEF Linked
  <2>3. t.parent_[r] \in N /\ r \in {L[t.parent_[r]], R[t.parent_[r]]}
        BY <2>2 DEF Parented
  <2>4. t.parent_[r] = n BY <1>1, <1>2, <2>2, <2>3, UniqueParent
  <2>5. w.parent_[r] = n BY <1>1, <1>5, <2>2, <2>4
  <2> QED BY <1>5, <2>5
<1>11. Erased(t, w, n) BY <1>5, <1>6, <1>8, <1>9, <1>10 DEF Erased, Parented
<1> QED BY <1>5, <1>11 DEF w

\* erase_node as a whole: the key and nothing else leaves a tree of good shape,
\* unless reinsert_node is called with a null pointer.
LEMMA EraseWorks ==
  ASSUME NEW t \in Tree, t.undefined = "no", WellFormed(t), Parented(t),
         NEW n \in t.nodes, t.parent_[t.root_ptr_] \notin t.nodes
  PROVE  LET u == erase_node(t, n)
         IN  u \in Tree /\ (u.undefined = "no" => Erased(t, u, n))
<1> DEFINE u == Unlink(t, n)
           l == t.left_ptr_[n]
           r == t.right_ptr_[n]
           h == reinsert_node(u, l)
           left == Then(u, h)
           w == reinsert_node(left, r)
           e == Then(left, w)
<1>0. erase_node(t, n) = e BY Zenon DEF erase_node
<1>1. PICK lo \in Bounds, hi \in Bounds : TreeShaped(t, lo, hi) BY DEF WellFormed
<1>2. /\ t.parent_[n] = Null \/ n # t.root_ptr_ => Cut(t, u, n)
      /\ t.parent_[n] # Null /\ n = t.root_ptr_ =>
           u = [t EXCEPT !.undefined = "deleted node"]
      BY <1>1, UnlinkEffect
<1>3. l \in Ptr /\ r \in Ptr /\ n \in Keys /\ n # Null
  <2>1. n \in Keys BY TreeFields
  <2> QED BY <2>1, TreeFields, KeysAssumption DEF Null
<1> HIDE DEF u, w
<1>4. CASE t.parent_[n] # Null /\ n = t.root_ptr_
  <2>1. u \in Tree /\ u.undefined = "deleted node" BY <1>2, <1>4 DEF Tree
  <2>2. left = u BY <2>1 DEF Then
  <2>3. e = u BY <2>1, <2>2 DEF Then
  <2> QED BY <1>0, <2>1, <2>3
<1>5. CASE t.parent_[n] = Null \/ n # t.root_ptr_
  <2>1. Cut(t, u, n) /\ u \in Tree /\ u.undefined = "no" BY <1>2, <1>5 DEF Cut
  <2>2. left = h BY <2>1 DEF Then
  <2>3. CASE l = Null /\ n # t.root_ptr_
    <3>1. u.root_ptr_ # Null
      <4>1. t.root_ptr_ # Null BY <1>1 DEF TreeShaped, Shaped, Rooted
      <4> QED BY <2>1, <2>3, <4>1 DEF Cut
    <3>2. h = [u EXCEPT !.undefined = "null node"] BY <2>3, <3>1 DEF reinsert_node
    <3>3. h \in Tree /\ h.undefined = "null node" BY <2>1, <3>2 DEF Tree
    <3>4. e = h BY <2>2, <3>3 DEF Then
    <3> QED BY <1>0, <3>3, <3>4
  <2>4. CASE l = Null /\ n = t.root_ptr_
    <3>1. u.root_ptr_ = Null BY <2>1, <2>4 DEF Cut
    <3>2. h = u BY <2>4, <3>1 DEF reinsert_node
    <3>3. e = reinsert_node(u, r) BY <2>1, <2>2, <3>2 DEF Then, w
    <3>4. e \in Tree /\ e.undefined = t.undefined /\ Erased(t, e, n)
          BY <1>1, <2>1, <2>4, <3>3, ErasedRoot
    <3> QED BY <1>0, <3>4
  <2>5. CASE l # Null
    <3>1. HalfBack(t, h, n) BY <1>1, <2>1, <2>5, LeftBack
    <3>2. h \in Tree /\ h.undefined = "no" BY <3>1 DEF HalfBack
    <3>3. e = reinsert_node(h, r) BY <2>2, <3>2 DEF Then, w
    <3>4. CASE r = Null
      <4>1. h.root_ptr_ # Null
        <5>1. t.root_ptr_ # Null BY <1>1 DEF TreeShaped, Shaped, Rooted
        <5> QED BY <2>5, <3>1, <5>1 DEF HalfBack
      <4>2. e = [h EXCEPT !.undefined = "null node"] BY <3>3, <3>4, <4>1 DEF reinsert_node
      <4>3. e \in Tree /\ e.undefined = "null node" BY <3>2, <4>2 DEF Tree
      <4> QED BY <1>0, <4>3
    <3>5. CASE r # Null
      <4>1. e \in Tree /\ e.undefined = t.undefined /\ Erased(t, e, n)
            BY <1>1, <2>5, <3>1, <3>2, <3>3, <3>5, ErasedBoth
      <4> QED BY <1>0, <4>1
    <3> QED BY <3>4, <3>5
  <2> QED BY <2>3, <2>4, <2>5
<1> QED BY <1>4, <1>5

-----------------------------------------------------------------------------
(***************************************************************************)
(* The inductive invariant.                                                *)
(***************************************************************************)
Types == TypeOK /\ before = [k \in DOMAIN before |-> before[k]]

\* The root has no parent_, but for a root that moved up in a rollback of a
\* range that was inserted into an empty tree.
RootParent ==
  tree.root_ptr_ # Null =>
    \/ tree.parent_[tree.root_ptr_] = Null
    \/ /\ op = "rollback" /\ DOMAIN before = {}
       /\ tree.parent_[tree.root_ptr_] \notin tree.nodes

Valued == \A k \in tree.nodes : tree.val_[k] \in Values

\* The keys of the range from the given one to the last one inserted.
News(from) == {keys[i] : i \in from..ix}

\* The keys inserted are new, what was there is kept, and so is its root.
Extends ==
  /\ \A i, j \in 1..ix : i # j => keys[i] # keys[j]
  /\ \A i \in 1..ix : keys[i] \notin DOMAIN before
  /\ \A k \in DOMAIN before : tree.val_[k] = before[k]
  /\ DOMAIN before = {} \/ tree.root_ptr_ \in DOMAIN before

Ranged ==
  /\ op # "idle" => val \in Values /\ ix <= Len(keys)
  /\ op = "allocate" => before = Contents(tree)
  /\ op \in {"insert", "rollback"} => Extends
  /\ op = "insert" => /\ tree.nodes = DOMAIN before \cup News(1)
                      /\ \A i \in 1..ix : tree.val_[keys[i]] = val
  /\ op = "rollback" => /\ erased <= ix
                        /\ tree.nodes = DOMAIN before \cup News(erased + 1)

Sound == WellFormed(tree) /\ Parented(tree) /\ RootParent /\ Valued /\ Ranged

\* Undefined behaviour is reached in a rollback only.
IInv == Types /\ IF tree.undefined = "no" THEN Sound ELSE op = "rollback"

\* The keys of a range by their index.
LEMMA RangeType ==
  /\ <<>> \in Ranges
  /\ \A ks \in Ranges : ks \in Seq(Keys) /\ Len(ks) \in 0..MaxRange
                        /\ \A i \in 1..Len(ks) : ks[i] \in Keys
<1>1. <<>> \in Ranges
  <2>1. <<>> \in [1..0 -> Keys] OBVIOUS
  <2>2. 0 \in 0..MaxRange BY MaxRangeAssumption
  <2> QED BY <2>1, <2>2 DEF Ranges
<1>2. ASSUME NEW ks \in Ranges
      PROVE  ks \in Seq(Keys) /\ Len(ks) \in 0..MaxRange
             /\ \A i \in 1..Len(ks) : ks[i] \in Keys
  <2>1. PICK n \in 0..MaxRange : ks \in [1..n -> Keys] BY DEF Ranges
  <2>2. n \in Nat BY <2>1, MaxRangeAssumption
  <2>3. ks \in Seq(Keys) /\ Len(ks) = n BY <2>1, <2>2
  <2> QED BY <2>1, <2>2, <2>3
<1> QED BY <1>1, <1>2

\* The empty tree.
LEMMA InitInvariant == Init => IInv
<1> SUFFICES ASSUME Init PROVE IInv OBVIOUS
<1>1. tree \in Tree BY DEF Init, Empty, Tree, Ptr
<1>2. DOMAIN before = {} /\ before = [k \in DOMAIN before |-> before[k]] BY DEF Init
<1>3. Types
      BY <1>1, <1>2, RangeType, MaxRangeAssumption DEF Init, Types, TypeOK
<1>4. /\ tree.nodes = {} /\ tree.root_ptr_ = Null
      /\ tree.left_ptr_ = [k \in Keys |-> Null] /\ tree.right_ptr_ = [k \in Keys |-> Null]
      /\ tree.parent_ = [k \in Keys |-> Null] /\ tree.undefined = "no"
      BY DEF Init, Empty
<1>5. WellFormed(tree)
  <2> DEFINE f == [k \in Keys |-> 0]
  <2>1. f \in Bounds BY TopType DEF Bounds
  <2> HIDE DEF f
  <2>2. Shaped({}, Null, tree.left_ptr_, tree.right_ptr_, f, f)
        BY <1>4 DEF Shaped, Within, Linked, Complete, Nested, Rooted
  <2> QED BY <1>4, <2>1, <2>2 DEF WellFormed, TreeShaped
<1>6. Parented(tree) BY <1>4 DEF Parented
<1>7. RootParent /\ Valued BY <1>4 DEF RootParent, Valued
<1>8. Ranged BY DEF Init, Ranged
<1> QED BY <1>3, <1>4, <1>5, <1>6, <1>7, <1>8 DEF IInv, Sound

\* The end of a call that leaves the tree as it is.
LEMMA ReturnsSound ==
  ASSUME IInv, tree.undefined = "no", NEW how \in {"returned", "thrown"}, Return(how),
         tree' = tree,
         tree.root_ptr_ # Null => tree.parent_[tree.root_ptr_] = Null
  PROVE  IInv'
<1>1. Types /\ Sound BY DEF IInv
<1>2. DOMAIN before' = {} /\ before' = [k \in DOMAIN before' |-> before'[k]] BY DEF Return
<1>3. TypeOK'
      BY <1>1, <1>2, RangeType, MaxRangeAssumption DEF Types, TypeOK, Return
<1>4. Types' BY <1>2, <1>3 DEF Types
<1>5. WellFormed(tree)' /\ Parented(tree)' BY <1>1 DEF Sound, WellFormed, TreeShaped, Parented
<1>6. RootParent' /\ Valued' BY <1>1 DEF Sound, RootParent, Valued
<1>7. Ranged' BY DEF Ranged, Return
<1> QED BY <1>4, <1>5, <1>6, <1>7 DEF IInv, Sound

\* find, in a tree that the invariant describes.
LEMMA FindInTree ==
  ASSUME IInv, tree.undefined = "no", NEW key \in Keys
  PROVE  /\ find(tree, key) <=> key \in tree.nodes
         /\ key \in tree.nodes => find_nearest_node(tree, key) = key
<1>1. tree \in Tree /\ WellFormed(tree) BY DEF IInv, Types, TypeOK, Sound
<1>2. Links(tree) /\ tree.nodes \in SUBSET Keys BY <1>1, TreeFields
<1>3. PICK lo \in Bounds, hi \in Bounds : TreeShaped(tree, lo, hi) BY <1>1 DEF WellFormed
<1>4. key \in tree.nodes => tree.root_ptr_ # Null
      BY <1>3 DEF TreeShaped, Shaped, Rooted
<1> QED BY <1>2, <1>3, <1>4, SearchExact

\* The steps of a range insertion that leave the tree alone.
LEMMA QuietSteps ==
  ASSUME IInv, tree.undefined = "no",
         Allocate \/ Allocated \/ InsertNextThrows
         \/ \E ks \in Ranges, v \in Values : RangeBegins(ks, v)
  PROVE  IInv'
<1>1. Types /\ Sound BY DEF IInv
<1>2. tree' = tree /\ outcome' = outcome /\ (op = "rollback" => FALSE)
      BY DEF Allocate, Allocated, InsertNextThrows, RangeBegins
<1>3. WellFormed(tree)' /\ Parented(tree)' /\ Valued'
      BY <1>1, <1>2 DEF Sound, WellFormed, TreeShaped, Parented, Valued
<1>4. RootParent' BY <1>1, <1>2 DEF Sound, RootParent
<1>5. keys \in Ranges /\ Len(keys) \in 0..MaxRange /\ ix \in Nat /\ MaxRange \in Nat
      BY <1>1, RangeType, MaxRangeAssumption DEF Types, TypeOK
<1>6. CASE Allocate
  <2>1. ix' = ix + 1 /\ ix < Len(keys) /\ op = "allocate"
        /\ UNCHANGED <<tree, op, keys, val, before, erased, outcome>>
        BY <1>6 DEF Allocate, range
  <2>2. Types' BY <1>1, <1>5, <2>1 DEF Types, TypeOK
  <2>3. Ranged' BY <1>1, <1>5, <2>1 DEF Sound, Ranged, Contents
  <2> QED BY <1>2, <1>3, <1>4, <2>2, <2>3 DEF IInv, Sound
<1>7. CASE Allocated
  <2>1. ix' = 0 /\ op = "allocate" /\ op' = "insert"
        /\ UNCHANGED <<tree, keys, val, before, erased, outcome>>
        BY <1>7 DEF Allocated, range
  <2>2. Types' BY <1>1, <1>5, <2>1 DEF Types, TypeOK
  <2>3. before = Contents(tree) /\ val \in Values BY <1>1, <2>1 DEF Sound, Ranged
  <2>4. DOMAIN before = tree.nodes /\ \A k \in DOMAIN before : tree.val_[k] = before[k]
        BY <2>3 DEF Contents
  <2>5. tree.nodes = {} \/ tree.root_ptr_ \in tree.nodes
    <3>1. PICK lo \in Bounds, hi \in Bounds : TreeShaped(tree, lo, hi)
          BY <1>1 DEF Sound, WellFormed
    <3> QED BY <3>1 DEF TreeShaped, Shaped, Rooted
  <2>6. News(1)' = {} BY <2>1 DEF News
  <2>7. Ranged' BY <1>5, <2>1, <2>3, <2>4, <2>5, <2>6 DEF Ranged, Extends
  <2> QED BY <1>2, <1>3, <1>4, <2>2, <2>7 DEF IInv, Sound
<1>8. CASE InsertNextThrows
  <2>1. erased' = 0 /\ op = "insert" /\ op' = "rollback"
        /\ UNCHANGED <<tree, keys, val, before, ix, outcome>>
        BY <1>8 DEF InsertNextThrows, range
  <2>2. Types' BY <1>1, <1>5, <2>1 DEF Types, TypeOK
  <2>3. News(erased + 1)' = News(1) BY <2>1 DEF News
  <2>4. Ranged' BY <1>1, <1>5, <2>1, <2>3 DEF Sound, Ranged, Extends
  <2> QED BY <1>2, <1>3, <1>4, <2>2, <2>4 DEF IInv, Sound
<1>9. ASSUME NEW ks \in Ranges, NEW v \in Values, RangeBegins(ks, v) PROVE IInv'
  <2>1. ix' = 0 /\ op = "idle" /\ op' = "allocate" /\ keys' = ks /\ val' = v
        /\ before' = Contents(tree) /\ UNCHANGED <<tree, erased, outcome>>
        BY <1>9 DEF RangeBegins
  <2>2. DOMAIN before' = tree.nodes /\ \A k \in tree.nodes : before'[k] = tree.val_[k]
        BY <2>1 DEF Contents
  <2>3. before' = [k \in DOMAIN before' |-> before'[k]] BY <2>1 DEF Contents
  <2>4. tree.nodes \subseteq Keys BY <1>1, TreeFields DEF Types, TypeOK
  <2>5. TypeOK' BY <1>1, <1>5, <2>1, <2>2, <2>4 DEF Types, TypeOK, Sound, Valued
  <2>6. Len(ks) \in Nat BY RangeType
  <2>7. Contents(tree)' = Contents(tree) BY <2>1 DEF Contents
  <2>8. Ranged' BY <2>1, <2>6, <2>7 DEF Ranged
  <2> QED BY <1>2, <1>3, <1>4, <2>3, <2>5, <2>8 DEF IInv, Sound, Types
<1> QED BY <1>6, <1>7, <1>8, <1>9

\* One step lemma for each action that changes the tree.
LEMMA InsertSound ==
  ASSUME IInv, tree.undefined = "no", NEW k \in Keys, NEW v \in Values, Insert(k, v)
  PROVE  IInv'
<1>1. Types /\ Sound BY DEF IInv
<1>2. tree \in Tree BY <1>1 DEF Types, TypeOK
<1>3. k \notin tree.nodes BY FindInTree DEF Insert
<1>4. tree' = Add(tree, k, v) /\ op = "idle" /\ Return("returned") BY DEF Insert
<1>5. /\ tree' \in Tree /\ WellFormed(tree') /\ Parented(tree')
      /\ tree'.nodes = tree.nodes \cup {k} /\ tree'.undefined = tree.undefined
      /\ tree'.val_ = [tree.val_ EXCEPT ![k] = v]
      /\ tree.root_ptr_ = Null => tree'.root_ptr_ = k /\ tree'.parent_[k] = Null
      /\ tree.root_ptr_ # Null => /\ tree'.root_ptr_ = tree.root_ptr_
                                  /\ tree'.parent_[tree'.root_ptr_] = tree.parent_[tree.root_ptr_]
      BY <1>1, <1>2, <1>3, <1>4, AddWorks DEF Sound
<1>6. DOMAIN before' = {} /\ before' = [j \in DOMAIN before' |-> before'[j]]
      BY <1>4 DEF Return
<1>7. Types'
      BY <1>1, <1>4, <1>5, <1>6, RangeType, MaxRangeAssumption DEF Types, TypeOK, Return
<1>8. RootParent' BY <1>1, <1>4, <1>5 DEF Sound, RootParent
<1>9. Valued'
  <2>1. tree.val_ \in [Keys -> Values \cup {Null}] /\ tree.nodes \in SUBSET Keys
        BY <1>2, TreeFields
  <2> QED BY <1>1, <1>5, <2>1 DEF Sound, Valued
<1>10. Ranged' BY <1>4 DEF Ranged, Return
<1>11. WellFormed(tree)' /\ Parented(tree)' BY <1>5 DEF WellFormed, TreeShaped, Parented
<1> QED BY <1>5, <1>7, <1>8, <1>9, <1>10, <1>11 DEF IInv, Sound

LEMMA InsertNextSound ==
  ASSUME IInv, tree.undefined = "no", InsertNext
  PROVE  IInv'
<1> DEFINE k == keys[ix + 1]
<1>1. Types /\ Sound BY DEF IInv
<1>2. tree \in Tree BY <1>1 DEF Types, TypeOK
<1>3. /\ op = "insert" /\ op' = "insert" /\ ix < Len(keys) /\ ix' = ix + 1
      /\ tree' = Add(tree, k, val) /\ ~find(tree, k)
      /\ UNCHANGED <<keys, val, before, erased, outcome>>
      BY DEF InsertNext, range
<1>4. /\ keys \in Ranges /\ Len(keys) \in 0..MaxRange /\ ix \in Nat /\ MaxRange \in Nat
      /\ \A i \in 1..Len(keys) : keys[i] \in Keys
      BY <1>1, RangeType, MaxRangeAssumption DEF Types, TypeOK
<1>5. k \in Keys BY <1>3, <1>4
<1>6. k \notin tree.nodes BY <1>3, <1>5, FindInTree
<1>7. /\ val \in Values /\ Extends
      /\ tree.nodes = DOMAIN before \cup News(1)
      /\ \A i \in 1..ix : tree.val_[keys[i]] = val
      BY <1>1, <1>3 DEF Sound, Ranged
<1> HIDE DEF k
<1>8. /\ tree' \in Tree /\ WellFormed(tree') /\ Parented(tree')
      /\ tree'.nodes = tree.nodes \cup {k} /\ tree'.undefined = tree.undefined
      /\ tree'.val_ = [tree.val_ EXCEPT ![k] = val]
      /\ tree.root_ptr_ = Null => tree'.root_ptr_ = k /\ tree'.parent_[k] = Null
      /\ tree.root_ptr_ # Null => /\ tree'.root_ptr_ = tree.root_ptr_
                                  /\ tree'.parent_[tree'.root_ptr_] = tree.parent_[tree.root_ptr_]
      BY <1>1, <1>2, <1>3, <1>5, <1>6, <1>7, AddWorks DEF Sound
<1>9. Types' BY <1>1, <1>3, <1>4, <1>8 DEF Types, TypeOK
<1>10. RootParent' BY <1>1, <1>3, <1>8 DEF Sound, RootParent
<1>11. tree.val_ \in [Keys -> Values \cup {Null}] /\ tree.nodes \in SUBSET Keys
       BY <1>2, TreeFields
<1>12. Valued'
  <2> SUFFICES ASSUME NEW j \in tree'.nodes PROVE tree'.val_[j] \in Values BY DEF Valued
  <2>1. CASE j = k BY <1>5, <1>7, <1>8, <1>11, <2>1
  <2>2. CASE j # k
    <3>1. j \in tree.nodes /\ tree'.val_[j] = tree.val_[j] BY <1>8, <1>11, <2>2
    <3> QED BY <1>1, <3>1 DEF Sound, Valued
  <2> QED BY <2>1, <2>2
<1>13. News(1)' = News(1) \cup {k}
  <2>1. 1..ix' = (1..ix) \cup {ix + 1} BY <1>3, <1>4
  <2> QED BY <1>3, <2>1 DEF News, k
<1>14. \A i \in 1..ix : keys[i] \in tree.nodes /\ keys[i] # k
       BY <1>6, <1>7 DEF News
<1>15. \A i \in 1..ix' : i \in 1..ix \/ (i = ix + 1 /\ keys[i] = k)
       BY <1>3, <1>4 DEF k
<1>16. Extends'
  <2>1. \A i, j \in 1..ix' : i # j => keys[i] # keys[j]
        BY <1>7, <1>14, <1>15 DEF Extends
  <2>2. \A i \in 1..ix' : keys[i] \notin DOMAIN before
        BY <1>6, <1>7, <1>15 DEF Extends
  <2>3. \A j \in DOMAIN before : tree'.val_[j] = before[j]
        BY <1>6, <1>7, <1>8, <1>11 DEF Extends
  <2>4. DOMAIN before = {} \/ tree'.root_ptr_ \in DOMAIN before
    <3>1. PICK lo \in Bounds, hi \in Bounds : TreeShaped(tree, lo, hi)
          BY <1>1 DEF Sound, WellFormed
    <3>2. tree.root_ptr_ = Null => tree.nodes = {} BY <3>1 DEF TreeShaped, Shaped, Rooted
    <3> QED BY <1>7, <1>8, <3>2 DEF Extends
  <2> QED BY <1>3, <2>1, <2>2, <2>3, <2>4 DEF Extends
<1>17. \A i \in 1..ix' : tree'.val_[keys[i]] = val
  <2> TAKE i \in 1..ix'
  <2>1. CASE i \in 1..ix
    <3>1. keys[i] \in tree.nodes /\ keys[i] # k /\ tree.val_[keys[i]] = val
          BY <1>7, <1>14, <2>1
    <3> QED BY <1>8, <1>11, <3>1
  <2>2. CASE i = ix + 1 /\ keys[i] = k BY <1>5, <1>8, <1>11, <2>2
  <2> QED BY <1>15, <2>1, <2>2
<1>18. Ranged'
  <2>1. tree'.nodes = DOMAIN before' \cup News(1)' BY <1>3, <1>7, <1>8, <1>13
  <2>2. val' \in Values /\ ix' <= Len(keys') BY <1>3, <1>4, <1>7
  <2> QED BY <1>3, <1>16, <1>17, <2>1, <2>2 DEF Ranged
<1>19. WellFormed(tree)' /\ Parented(tree)' BY <1>8 DEF WellFormed, TreeShaped, Parented
<1> QED BY <1>8, <1>9, <1>10, <1>12, <1>18, <1>19 DEF IInv, Sound

LEMMA EraseNextSound ==
  ASSUME IInv, tree.undefined = "no", EraseNext
  PROVE  IInv'
<1> DEFINE k == keys[erased + 1]
<1>1. Types /\ Sound BY DEF IInv
<1>2. tree \in Tree BY <1>1 DEF Types, TypeOK
<1>3. /\ op = "rollback" /\ op' = "rollback" /\ erased < ix /\ erased' = erased + 1
      /\ tree' = erase_node(tree, find_nearest_node(tree, k))
      /\ UNCHANGED <<keys, val, before, ix, outcome>>
      BY DEF EraseNext, range
<1>4. /\ keys \in Ranges /\ Len(keys) \in 0..MaxRange /\ ix \in 0..MaxRange
      /\ erased \in Nat /\ MaxRange \in Nat
      /\ \A i \in 1..Len(keys) : keys[i] \in Keys
      BY <1>1, RangeType, MaxRangeAssumption DEF Types, TypeOK
<1>5. /\ val \in Values /\ ix <= Len(keys) /\ Extends
      /\ tree.nodes = DOMAIN before \cup News(erased + 1)
      BY <1>1, <1>3 DEF Sound, Ranged
<1>6. erased + 1 \in 1..ix /\ erased + 1 \in erased + 1..ix /\ erased + 1 \in 1..Len(keys)
      BY <1>3, <1>4, <1>5
<1>7. k \in Keys /\ k \in tree.nodes /\ k \notin DOMAIN before
      BY <1>4, <1>5, <1>6 DEF News, Extends
<1>8. tree' = erase_node(tree, k) BY <1>3, <1>7, FindInTree
<1>9. News(erased + 1)' = News(erased + 1) \ {k}
  <2>1. erased + 1..ix = {erased + 1} \cup (erased' + 1..ix) BY <1>3, <1>4
  <2>2. \A i \in erased' + 1..ix : i \in 1..ix /\ i # erased + 1 BY <1>3, <1>4
  <2>3. \A i \in erased' + 1..ix : keys[i] # k BY <1>5, <1>6, <2>2 DEF Extends
  <2> QED BY <1>3, <2>1, <2>3 DEF News
<1> HIDE DEF k
<1>10. tree.root_ptr_ # Null
  <2>1. PICK lo \in Bounds, hi \in Bounds : TreeShaped(tree, lo, hi)
        BY <1>1 DEF Sound, WellFormed
  <2> QED BY <1>7, <2>1 DEF TreeShaped, Shaped, Rooted
<1>11. tree.parent_[tree.root_ptr_] \notin tree.nodes
  <2>1. tree.nodes \in SUBSET Keys BY <1>2, TreeFields
  <2>2. Null \notin Keys BY KeysAssumption DEF Null
  <2> QED BY <1>1, <1>10, <2>1, <2>2 DEF Sound, RootParent
<1>12. tree' \in Tree /\ (tree'.undefined = "no" => Erased(tree, tree', k))
       BY <1>1, <1>2, <1>7, <1>8, <1>11, EraseWorks DEF Sound
<1>13. Types' BY <1>1, <1>3, <1>4, <1>12 DEF Types, TypeOK
<1>14. ASSUME tree'.undefined = "no" PROVE Sound'
  <2>1. /\ WellFormed(tree') /\ Parented(tree')
        /\ tree'.nodes = tree.nodes \ {k}
        /\ tree'.val_ = [tree.val_ EXCEPT ![k] = Null]
        /\ k # tree.root_ptr_ => /\ tree'.root_ptr_ = tree.root_ptr_
                                 /\ tree'.parent_[tree'.root_ptr_] = tree.parent_[tree.root_ptr_]
        /\ k = tree.root_ptr_ /\ tree'.root_ptr_ # Null =>
             tree'.parent_[tree'.root_ptr_] \notin tree'.nodes
        BY <1>12, <1>14 DEF Erased
  <2>2. k = tree.root_ptr_ => DOMAIN before = {} BY <1>5, <1>7 DEF Extends
  <2>3. RootParent'
    <3>1. CASE k = tree.root_ptr_ BY <1>3, <2>1, <2>2, <3>1 DEF RootParent
    <3>2. CASE k # tree.root_ptr_ BY <1>1, <1>3, <1>10, <2>1, <3>2 DEF Sound, RootParent
    <3> QED BY <3>1, <3>2
  <2>4. tree.val_ \in [Keys -> Values \cup {Null}] /\ tree.nodes \in SUBSET Keys
        BY <1>2, TreeFields
  <2>5. Valued' BY <1>1, <2>1, <2>4 DEF Sound, Valued
  <2>6. Extends'
    <3>1. \A j \in DOMAIN before : tree'.val_[j] = before[j]
          BY <1>5, <1>7, <2>1, <2>4 DEF Extends
    <3>2. DOMAIN before = {} \/ tree'.root_ptr_ \in DOMAIN before
          BY <1>5, <2>1, <2>2 DEF Extends
    <3> QED BY <1>3, <1>5, <3>1, <3>2 DEF Extends
  <2>7. Ranged'
    <3>1. tree'.nodes = DOMAIN before' \cup News(erased + 1)'
          BY <1>3, <1>5, <1>7, <1>9, <2>1
    <3>2. val' \in Values /\ ix' <= Len(keys') /\ erased' <= ix' BY <1>3, <1>4, <1>5
    <3> QED BY <1>3, <2>6, <3>1, <3>2 DEF Ranged
  <2>8. WellFormed(tree)' /\ Parented(tree)' BY <2>1 DEF WellFormed, TreeShaped, Parented
  <2> QED BY <2>3, <2>5, <2>7, <2>8 DEF Sound
<1> QED BY <1>3, <1>13, <1>14 DEF IInv

\* No root that moved up is left when a rollback ends.
LEMMA RootFree ==
  ASSUME IInv, tree.undefined = "no", op = "rollback" => erased = ix
  PROVE  tree.root_ptr_ # Null => tree.parent_[tree.root_ptr_] = Null
<1> SUFFICES ASSUME tree.root_ptr_ # Null PROVE tree.parent_[tree.root_ptr_] = Null
    OBVIOUS
<1>1. Types /\ Sound BY DEF IInv
<1>2. tree.root_ptr_ \in tree.nodes
  <2>1. PICK lo \in Bounds, hi \in Bounds : TreeShaped(tree, lo, hi)
        BY <1>1 DEF Sound, WellFormed
  <2> QED BY <2>1 DEF TreeShaped, Shaped, Rooted
<1>3. ASSUME op = "rollback" PROVE tree.nodes = DOMAIN before
  <2>1. ix \in Nat /\ erased = ix BY <1>1, <1>3, MaxRangeAssumption DEF Types, TypeOK
  <2>2. News(erased + 1) = {} BY <2>1 DEF News
  <2> QED BY <1>1, <1>3, <2>2 DEF Sound, Ranged
<1> QED BY <1>1, <1>2, <1>3 DEF Sound, RootParent

\* Every step keeps the invariant.
LEMMA NextInvariant == IInv /\ [Next]_vars => IInv'
<1> SUFFICES ASSUME IInv, [Next]_vars PROVE IInv' OBVIOUS
<1>1. CASE UNCHANGED vars
  <2>1. UNCHANGED <<tree, op, keys, val, before, ix, erased, outcome>>
        BY <1>1 DEF vars, locals, range
  <2>2. Types' BY <2>1 DEF IInv, Types, TypeOK
  <2>3. Sound' <=> Sound
        BY <2>1 DEF Sound, WellFormed, TreeShaped, Parented, RootParent, Valued,
                    Ranged, Extends, News, Contents
  <2> QED BY <2>1, <2>2, <2>3 DEF IInv
<1>2. CASE Calls
  <2>1. tree.undefined = "no" BY <1>2 DEF Calls
  <2>2. ASSUME NEW k \in Keys, NEW v \in Values, Insert(k, v) PROVE IInv'
        BY <2>1, <2>2, InsertSound
  <2>3. CASE InsertThrows
    <3>1. op = "idle" /\ Return("thrown") /\ tree' = tree BY <2>3 DEF InsertThrows
    <3> QED BY <2>1, <3>1, RootFree, ReturnsSound
  <2>4. ASSUME NEW ks \in Ranges, NEW v \in Values, RangeBegins(ks, v) PROVE IInv'
        BY <2>1, <2>4, QuietSteps
  <2> QED BY <1>2, <2>2, <2>3, <2>4 DEF Calls
<1>3. CASE RangeSteps
  <2>1. tree.undefined = "no" BY <1>3 DEF RangeSteps
  <2>2. CASE Allocate \/ Allocated \/ InsertNextThrows BY <2>1, <2>2, QuietSteps
  <2>3. CASE AllocateThrows
    <3>1. op = "allocate" /\ Return("thrown") /\ tree' = tree BY <2>3 DEF AllocateThrows
    <3> QED BY <2>1, <3>1, RootFree, ReturnsSound
  <2>4. CASE InsertNext BY <2>1, <2>4, InsertNextSound
  <2>5. CASE RangeInserted
    <3>1. op = "insert" /\ Return("returned") /\ tree' = tree BY <2>5 DEF RangeInserted
    <3> QED BY <2>1, <3>1, RootFree, ReturnsSound
  <2>6. CASE EraseNext BY <2>1, <2>6, EraseNextSound
  <2>7. CASE RolledBack
    <3>1. op = "rollback" /\ erased = ix /\ Return("thrown") /\ tree' = tree
          BY <2>7 DEF RolledBack
    <3> QED BY <2>1, <3>1, RootFree, ReturnsSound
  <2> QED BY <1>3, <2>2, <2>3, <2>4, <2>5, <2>6, <2>7 DEF RangeSteps
<1> QED BY <1>1, <1>2, <1>3 DEF Next

\* The inductive invariant: every node's key is in the interval of its place, and
\* during a range insertion the tree is the old one with the range's new keys.
THEOREM Invariance == Spec => []IInv
BY InitInvariant, NextInvariant, PTL DEF Spec

\* find_nearest_node and find: whatever has been inserted, and taken back in
\* the middle of a range, the search finds a key exactly when it is there.
THEOREM SearchIsExact == Spec => []FindsTheKeys
<1>1. IInv => FindsTheKeys
  <2> SUFFICES ASSUME IInv, tree.undefined = "no", NEW k \in Keys
               PROVE  find(tree, k) <=> k \in tree.nodes
      BY DEF FindsTheKeys
  <2> QED BY FindInTree
<1> QED BY <1>1, Invariance, PTL

\* insert_node and erase_node: between the calls parent_ is the node that
\* this one hangs under, so that a later rollback unlinks the right place.
THEOREM ParentsAreRight == Spec => []ParentsMatch
<1>1. IInv => ParentsMatch
  <2> SUFFICES ASSUME IInv, tree.undefined = "no", op = "idle", NEW k \in tree.nodes
               PROVE  IF tree.root_ptr_ = k THEN tree.parent_[k] = Null
                      ELSE /\ tree.parent_[k] \in tree.nodes
                           /\ k \in {tree.left_ptr_[tree.parent_[k]],
                                     tree.right_ptr_[tree.parent_[k]]}
      BY DEF ParentsMatch, IInv
  <2>1. CASE tree.root_ptr_ = k
    <3>1. k # Null BY TreeFields, KeysAssumption DEF IInv, Types, TypeOK, Null
    <3> QED BY <2>1, <3>1, RootFree
  <2>2. CASE tree.root_ptr_ # k BY <2>2 DEF IInv, Sound, Parented
  <2> QED BY <2>1, <2>2
<1> QED BY <1>1, Invariance, PTL

-----------------------------------------------------------------------------
(***************************************************************************)
(* The tree implements the abstract map.                                   *)
(***************************************************************************)
Abstract == IF op = "idle" THEN Contents(tree) ELSE before

\* The empty tree is the empty map.
LEMMA InitRefines == Init => keyMap!Init
<1> SUFFICES ASSUME Init PROVE keyMap!Init OBVIOUS
<1>1. op = "idle" /\ tree.nodes = {} /\ outcome = "returned" BY DEF Init, Empty
<1>2. Contents(tree) = [k \in {} |-> {}] BY <1>1 DEF Contents
<1> QED BY <1>1, <1>2 DEF keyMap!Init

\* Every step of the tree is a step of the map or a stutter.
LEMMA StepRefines == IInv /\ [Next]_vars => [keyMap!Next]_keyMap!vars
<1> SUFFICES ASSUME IInv, [Next]_vars PROVE [keyMap!Next]_keyMap!vars OBVIOUS
<1>1. ASSUME Abstract' = Abstract, outcome' = outcome PROVE UNCHANGED keyMap!vars
      BY <1>1 DEF Abstract, keyMap!vars
<1>2. ASSUME Abstract' = Abstract, outcome' = "thrown" PROVE keyMap!Next
      BY <1>2 DEF Abstract, keyMap!Next, keyMap!Throw
<1>3. ASSUME NEW ks \in SUBSET Keys, NEW v \in Values, ks \cap DOMAIN Abstract = {},
             Abstract' = [k \in ks \cup DOMAIN Abstract |->
                            IF k \in ks THEN v ELSE Abstract[k]],
             outcome' = "returned"
      PROVE  keyMap!Next
      BY <1>3 DEF Abstract, keyMap!Next, keyMap!Insert
<1>4. tree' = tree => Contents(tree)' = Contents(tree) BY DEF Contents
<1>5. Types /\ (tree.undefined = "no" => Sound) BY DEF IInv
<1>6. tree \in Tree /\ tree.nodes \in SUBSET Keys
      /\ tree.val_ \in [Keys -> Values \cup {Null}]
      BY <1>5, TreeFields DEF Types, TypeOK
<1>7. CASE UNCHANGED vars
  <2>1. Abstract' = Abstract /\ outcome' = outcome
        BY <1>4, <1>7 DEF vars, locals, range, Abstract
  <2> QED BY <1>1, <2>1
<1>8. CASE Calls
  <2>1. tree.undefined = "no" BY <1>8 DEF Calls
  <2>2. ASSUME NEW k \in Keys, NEW v \in Values, Insert(k, v) PROVE keyMap!Next
    <3>1. k \notin tree.nodes /\ op = "idle" /\ tree' = Add(tree, k, v)
          /\ op' = "idle" /\ outcome' = "returned"
          BY <2>1, <2>2, FindInTree DEF Insert, Return
    <3>2. tree'.nodes = tree.nodes \cup {k} /\ tree'.val_ = [tree.val_ EXCEPT ![k] = v]
          BY <1>5, <1>6, <2>1, <3>1, AddWorks DEF Sound
    <3>3. Abstract = Contents(tree) /\ DOMAIN Abstract = tree.nodes
          BY <3>1 DEF Abstract, Contents
    <3>4. Abstract' = [j \in tree'.nodes |-> tree'.val_[j]] BY <3>1 DEF Abstract, Contents
    <3>5. tree'.nodes = {k} \cup DOMAIN Abstract BY <3>2, <3>3
    <3>6. \A j \in tree'.nodes : tree'.val_[j] = IF j \in {k} THEN v ELSE Abstract[j]
          BY <1>6, <3>2, <3>3 DEF Contents
    <3>7. Abstract' = [j \in {k} \cup DOMAIN Abstract |->
                         IF j \in {k} THEN v ELSE Abstract[j]]
          BY <3>4, <3>5, <3>6
    <3>8. {k} \in SUBSET Keys /\ {k} \cap DOMAIN Abstract = {} BY <3>1, <3>3
    <3> QED BY <1>3, <3>1, <3>7, <3>8
  <2>3. CASE InsertThrows
    <3>1. Abstract' = Abstract /\ outcome' = "thrown"
          BY <1>4, <2>3 DEF InsertThrows, Return, Abstract
    <3> QED BY <1>2, <3>1
  <2>4. ASSUME NEW ks \in Ranges, NEW v \in Values, RangeBegins(ks, v)
        PROVE  UNCHANGED keyMap!vars
    <3>1. Abstract' = Abstract /\ outcome' = outcome
          BY <2>4 DEF RangeBegins, Abstract
    <3> QED BY <1>1, <3>1
  <2> QED BY <1>8, <2>2, <2>3, <2>4 DEF Calls
<1>9. CASE RangeSteps
  <2>1. Sound BY <1>5, <1>9 DEF RangeSteps
  <2>2. CASE Allocate \/ Allocated \/ InsertNext \/ InsertNextThrows \/ EraseNext
    <3>1. before' = before /\ outcome' = outcome /\ op # "idle" /\ op' # "idle"
          BY <2>2 DEF Allocate, Allocated, InsertNext, InsertNextThrows, EraseNext, range
    <3>2. Abstract' = Abstract BY <3>1 DEF Abstract
    <3> QED BY <1>1, <3>1, <3>2
  <2>3. CASE AllocateThrows
    <3>1. op = "allocate" /\ op' = "idle" /\ tree' = tree /\ outcome' = "thrown"
          BY <2>3 DEF AllocateThrows, Return
    <3>2. before = Contents(tree) BY <2>1, <3>1 DEF Sound, Ranged
    <3>3. Abstract' = Abstract BY <1>4, <3>1, <3>2 DEF Abstract
    <3> QED BY <1>2, <3>1, <3>3
  <2>4. before = [k \in DOMAIN before |-> before[k]] BY <1>5 DEF Types
  <2>5. CASE RangeInserted
    <3>1. op = "insert" /\ op' = "idle" /\ tree' = tree /\ outcome' = "returned"
          BY <2>5 DEF RangeInserted, Return
    <3>2. /\ val \in Values /\ Extends /\ ix <= Len(keys)
          /\ tree.nodes = DOMAIN before \cup News(1)
          /\ \A i \in 1..ix : tree.val_[keys[i]] = val
          BY <2>1, <3>1 DEF Sound, Ranged
    <3>3. News(1) \subseteq Keys BY <1>6, <3>2
    <3>4. Abstract = before /\ Abstract' = [k \in tree.nodes |-> tree.val_[k]]
          BY <1>4, <3>1 DEF Abstract, Contents
    <3>5. News(1) \cap DOMAIN before = {} BY <3>2 DEF News, Extends
    <3>6. \A k \in tree.nodes : tree.val_[k] = IF k \in News(1) THEN val ELSE before[k]
          BY <3>2 DEF News, Extends
    <3>7. Abstract' = [k \in News(1) \cup DOMAIN Abstract |->
                         IF k \in News(1) THEN val ELSE Abstract[k]]
          BY <3>2, <3>4, <3>6
    <3> QED BY <1>3, <3>1, <3>2, <3>3, <3>4, <3>5, <3>7
  <2>6. CASE RolledBack
    <3>1. op = "rollback" /\ op' = "idle" /\ tree' = tree /\ outcome' = "thrown"
          /\ erased = ix
          BY <2>6 DEF RolledBack, Return
    <3>2. ix \in Nat BY <1>5, MaxRangeAssumption DEF Types, TypeOK
    <3>3. News(erased + 1) = {} BY <3>1, <3>2 DEF News
    <3>4. tree.nodes = DOMAIN before /\ \A k \in DOMAIN before : tree.val_[k] = before[k]
          BY <2>1, <3>1, <3>3 DEF Sound, Ranged, Extends
    <3>5. Contents(tree) = before BY <2>4, <3>4 DEF Contents
    <3>6. Abstract' = Abstract BY <1>4, <3>1, <3>5 DEF Abstract
    <3> QED BY <1>2, <3>1, <3>6
  <2> QED BY <1>9, <2>2, <2>3, <2>5, <2>6 DEF RangeSteps
<1> QED BY <1>7, <1>8, <1>9 DEF Next

\* insert of a key and of a range: the tree is a map that an insertion that
\* returns extends by all of its keys, and one that throws, wherever it is
\* struck, leaves as it was.
THEOREM Refinement == Spec => AllOrNothing
BY InitRefines, StepRefines, Invariance, PTL DEF Spec, AllOrNothing, keyMap!Spec
=============================================================================
