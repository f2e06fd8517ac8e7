-------------------------- MODULE Libraries_proofs --------------------------
(***************************************************************************)
(* Proofs about the libraries, for every number of threads, objects,       *)
(* events, ids, declarations, types and containers.  A component's         *)
(* invariant is preserved by its own steps and by those of the others,     *)
(* which leave it alone.                                                   *)
(***************************************************************************)
EXTENDS Libraries, FiniteSetTheorems, SequenceTheorems, WellFoundedInduction, TLAPS

\* A step is one of a component, and no step of the others.
LEMMA StepOfEach ==
  [Next]_vars => /\ [J!Next]_injectorVars /\ [E!Next]_eventVars /\ [D!Next]_monitorVars /\ [N!Next]_stackVars
                 /\ [DD!Next]_dispatchVars /\ [I!Next]_iteratorVars
BY DEF Next, Is, vars, injectorVars, eventVars, monitorVars, stackVars, dispatchVars, iteratorVars

-----------------------------------------------------------------------------
(***************************************************************************)
(* The stack.  A thread in the loop that has not been raced still has an   *)
(* element to use, and what it refers to has not moved.                    *)
(***************************************************************************)
StackInv ==
  /\ N!TypeOK /\ size =< pushed
  /\ N!MissesOnlyWhenRaced
  /\ \A t \in Poppers \ raced : loop[t] # "stale" /\ (loop[t] # "out" => size > 0)

LEMMA StackInit == N!Init => StackInv
BY StackAssumption DEF N!Init, StackInv, N!TypeOK, N!MissesOnlyWhenRaced

\* What a push or a pop does to the other threads.
LEMMA StackChanged ==
  ASSUME StackInv, NEW t \in Poppers, N!Changed(t)
  PROVE  /\ loop' \in [Poppers -> {"out", "top", "read", "stale", "pop"}]
         /\ raced \subseteq raced' /\ raced' \subseteq Poppers
         /\ \A u \in Poppers \ raced' : loop'[u] = "out"
BY DEF N!Changed, StackInv, N!TypeOK

LEMMA StackNext == StackInv /\ [N!Next]_stackVars => StackInv'
<1> SUFFICES ASSUME StackInv, [N!Next]_stackVars PROVE StackInv'
  OBVIOUS
<1> USE StackAssumption
<1>1. ASSUME NEW t \in Poppers, N!push(t) PROVE StackInv'
  BY <1>1, StackChanged DEF StackInv, N!TypeOK, N!MissesOnlyWhenRaced, N!push
<1>2. ASSUME NEW t \in Poppers, N!empty(t) PROVE StackInv'
  BY <1>2 DEF StackInv, N!TypeOK, N!MissesOnlyWhenRaced, N!empty, N!Runs
<1>3. ASSUME NEW t \in Poppers, N!top(t) PROVE StackInv'
  BY <1>3 DEF StackInv, N!TypeOK, N!MissesOnlyWhenRaced, N!top, N!Uses
<1>4. ASSUME NEW t \in Poppers, N!ReadTop(t) PROVE StackInv'
  BY <1>4 DEF StackInv, N!TypeOK, N!MissesOnlyWhenRaced, N!ReadTop, N!Uses
<1>5. ASSUME NEW t \in Poppers, N!pop(t) PROVE StackInv'
  BY <1>5, StackChanged DEF StackInv, N!TypeOK, N!MissesOnlyWhenRaced, N!pop, N!Uses
<1>6. CASE UNCHANGED stackVars
  BY <1>6 DEF stackVars, StackInv, N!TypeOK, N!MissesOnlyWhenRaced
<1> QED
  BY <1>1, <1>2, <1>3, <1>4, <1>5, <1>6 DEF N!Next

LEMMA StackInvariant == Spec => []StackInv
<1>1. Init => StackInv
  BY StackInit DEF Init
<1>2. StackInv /\ [Next]_vars => StackInv'
  BY StepOfEach, StackNext
<1> QED
  BY <1>1, <1>2, PTL DEF Spec

(***************************************************************************)
(* The loop of main misses its element only if another thread's push or    *)
(* pop came between its calls, for any number of threads.                  *)
(***************************************************************************)
THEOREM StackMissesOnlyWhenRaced == Spec => []MissesOnlyWhenRaced
<1>1. StackInv => MissesOnlyWhenRaced
  BY DEF StackInv, MissesOnlyWhenRaced
<1> QED
  BY <1>1, StackInvariant, PTL

-----------------------------------------------------------------------------
(***************************************************************************)
(* The dispatcher.  A registration is the last one of its two types, and   *)
(* leaves the entries of all others alone.                                 *)
(***************************************************************************)
\* What DispatchesByType says of two types.
Right(map, rs, a, b) ==
  LET for == {n \in DOMAIN rs : rs[n] \in {<<a, b>>, <<b, a>>}}
      called == map[<<a, b>>]
  IN  IF for = {} THEN called.func = DD!bad_cast
      ELSE /\ called.func \in for /\ \A n \in for : n <= called.func
           /\ rs[called.func] = [k \in 1..2 |-> <<a, b>>[called.args[k]]]
           /\ a = b => called.args = <<2, 1>>

LEMMA DispatchRight ==
  /\ DD!DispatchesByType <=> \A a, b \in Shapes : Right(dd_map, regs, a, b)
  /\ DD!DispatchesByType' <=> \A a, b \in Shapes : Right(dd_map', regs', a, b)
BY DEF Right, DD!DispatchesByType, DD!call, DD!bad_cast

DispatchInv == DD!TypeOK /\ DD!DispatchesByType

LEMMA DispatchInit == DD!Init => DispatchInv
<1> SUFFICES ASSUME DD!Init PROVE DispatchInv
  OBVIOUS
<1>1. DD!TypeOK
  BY DispatchAssumption DEF DD!Init, DD!TypeOK, DD!Stored, DD!bad_cast
<1>2. ASSUME NEW a \in Shapes, NEW b \in Shapes PROVE DD!call(a, b).func = DD!bad_cast /\ DOMAIN regs = {}
  BY DEF DD!Init, DD!call, DD!Stored, DD!Pairs
<1> QED
  BY <1>1, <1>2 DEF DispatchInv, DD!DispatchesByType

\* What is registered for the types of a pair, in either order.
LEMMA DispatchEntries ==
  ASSUME DispatchInv, NEW tp \in DD!Pairs, DD!reg(tp)
  PROVE  \E n \in 1..MaxRegs :
           /\ n = Len(regs) + 1 /\ DOMAIN regs' = 1..n /\ DOMAIN regs = 1..(n - 1)
           /\ regs'[n] = tp /\ \A k \in DOMAIN regs : regs'[k] = regs[k]
           /\ regs' \in Seq(DD!Pairs) /\ Len(regs') = n
           /\ DOMAIN dd_map' = DD!Pairs
           /\ \A a, b \in Shapes :
                dd_map'[<<a, b>>] = IF <<a, b>> = <<tp[2], tp[1]>> THEN DD!Stored(n, 2, 1)
                                    ELSE IF <<a, b>> = tp THEN DD!Stored(n, 1, 2)
                                    ELSE dd_map[<<a, b>>]
<1> DEFINE n == Len(regs) + 1
<1>1. /\ n \in 1..MaxRegs /\ regs' = Append(regs, tp) /\ regs \in Seq(DD!Pairs)
      /\ dd_map' = DD!Registered(tp, n)
  BY DispatchAssumption DEF DispatchInv, DD!TypeOK, DD!reg
<1>2. DOMAIN dd_map = DD!Pairs
  BY DEF DispatchInv, DD!TypeOK
<1>3. <<tp[2], tp[1]>> \in DD!Pairs /\ \A a, b \in Shapes : <<a, b>> \in DD!Pairs
  BY DEF DD!Pairs
<1> HIDE DEF n
<1>4. /\ DOMAIN dd_map' = DD!Pairs
      /\ \A a, b \in Shapes :
           dd_map'[<<a, b>>] = IF <<a, b>> = <<tp[2], tp[1]>> THEN DD!Stored(n, 2, 1)
                               ELSE IF <<a, b>> = tp THEN DD!Stored(n, 1, 2)
                               ELSE dd_map[<<a, b>>]
  BY <1>1, <1>2, <1>3 DEF DD!Registered
<1>5. /\ DOMAIN regs' = 1..n /\ DOMAIN regs = 1..(n - 1) /\ regs'[n] = tp
      /\ regs' \in Seq(DD!Pairs) /\ Len(regs') = n /\ \A k \in DOMAIN regs : regs'[k] = regs[k]
  BY <1>1 DEF n
<1> QED
  BY <1>1, <1>4, <1>5 DEF n

LEMMA DispatchReg == ASSUME DispatchInv, NEW tp \in DD!Pairs, DD!reg(tp) PROVE DispatchInv'
<1>1. PICK n \in 1..MaxRegs :
           /\ n = Len(regs) + 1 /\ DOMAIN regs' = 1..n /\ DOMAIN regs = 1..(n - 1)
           /\ regs'[n] = tp /\ \A k \in DOMAIN regs : regs'[k] = regs[k]
           /\ regs' \in Seq(DD!Pairs) /\ Len(regs') = n
           /\ DOMAIN dd_map' = DD!Pairs
           /\ \A a, b \in Shapes :
                dd_map'[<<a, b>>] = IF <<a, b>> = <<tp[2], tp[1]>> THEN DD!Stored(n, 2, 1)
                                    ELSE IF <<a, b>> = tp THEN DD!Stored(n, 1, 2)
                                    ELSE dd_map[<<a, b>>]
  BY DispatchEntries, Zenon
<1>2. DD!TypeOK'
  <2> DEFINE Es == [func : 0..MaxRegs, args : {<<1, 2>>, <<2, 1>>}]
  <2>1. DD!Stored(n, 2, 1) \in Es /\ DD!Stored(n, 1, 2) \in Es
    BY DispatchAssumption DEF DD!Stored
  <2>2. dd_map \in [DD!Pairs -> Es] /\ dd_map' = DD!Registered(tp, n)
    BY <1>1 DEF DispatchInv, DD!TypeOK, DD!reg
  <2> HIDE DEF Es
  <2>3. dd_map' \in [DD!Pairs -> Es]
    BY <2>1, <2>2 DEF DD!Registered
  <2> QED BY <1>1, <2>3, DispatchAssumption DEF DD!TypeOK, Es
<1>3. ASSUME NEW a \in Shapes, NEW b \in Shapes
      PROVE Right(dd_map', regs', a, b)
  <2> DEFINE for == {k \in DOMAIN regs : regs[k] \in {<<a, b>>, <<b, a>>}}
             forNew == {k \in DOMAIN regs' : regs'[k] \in {<<a, b>>, <<b, a>>}}
             called == dd_map'[<<a, b>>]
  <2>1. CASE tp \in {<<a, b>>, <<b, a>>}
    <3>1. n \in forNew /\ \A k \in forNew : k <= n
      BY <1>1, <2>1
    <3>2. called = IF <<a, b>> = <<tp[2], tp[1]>> THEN DD!Stored(n, 2, 1) ELSE DD!Stored(n, 1, 2)
      BY <1>1, <2>1
    <3>3. /\ called.func = n /\ (a = b => called.args = <<2, 1>>)
          /\ tp = [k \in 1..2 |-> <<a, b>>[called.args[k]]]
      <4>1. CASE tp = <<b, a>>
        BY <3>2, <4>1 DEF DD!Stored
      <4>2. CASE tp = <<a, b>> /\ a # b
        BY <3>2, <4>2 DEF DD!Stored
      <4> QED BY <2>1, <4>1, <4>2
    <3> QED BY <1>1, <3>1, <3>3 DEF Right
  <2>2. CASE tp \notin {<<a, b>>, <<b, a>>}
    <3>1. forNew = for
      BY <1>1, <2>2
    <3>2. <<a, b>> # <<tp[2], tp[1]>> /\ <<a, b>> # tp
      BY <2>2 DEF DD!Pairs
    <3>3. called = dd_map[<<a, b>>]
      BY <1>1, <3>2
    <3>4. Right(dd_map, regs, a, b)
      BY DispatchRight DEF DispatchInv
    <3> HIDE DEF called
    <3>5. CASE for = {}
      BY <3>1, <3>3, <3>4, <3>5 DEF called, Right
    <3>6. CASE for # {}
      <4>1. called.func \in DOMAIN regs
        BY <3>3, <3>4, <3>6 DEF Right
      <4>2. regs'[called.func] = regs[called.func]
        BY <1>1, <4>1
      <4> QED BY <3>1, <3>3, <3>4, <3>6, <4>2 DEF called, Right
    <3> QED BY <3>5, <3>6 DEF called
  <2> QED BY <2>1, <2>2
<1>4. DD!DispatchesByType'
  BY <1>3, DispatchRight
<1> QED
  BY <1>2, <1>4 DEF DispatchInv

LEMMA DispatchInvariant == Spec => []DispatchInv
<1>1. Init => DispatchInv
  BY DispatchInit DEF Init
<1>2. DispatchInv /\ [DD!Next]_dispatchVars => DispatchInv'
  <2>1. ASSUME DispatchInv, UNCHANGED dispatchVars PROVE DispatchInv'
    <3>1. dd_map' = dd_map /\ regs' = regs
      BY <2>1 DEF dispatchVars
    <3>2. DD!TypeOK'
      BY <2>1, <3>1 DEF DispatchInv, DD!TypeOK
    <3>3. DD!DispatchesByType'
      BY <2>1, <3>1, DispatchRight DEF DispatchInv
    <3> QED BY <3>2, <3>3 DEF DispatchInv
  <2> QED BY <2>1, DispatchReg DEF DD!Next
<1>3. DispatchInv /\ [Next]_vars => DispatchInv'
  BY <1>2, StepOfEach
<1> QED
  BY <1>1, <1>3, PTL DEF Spec

(***************************************************************************)
(* A call of double_dispatch finds the function that was registered last   *)
(* for its two types, and hands over the objects in the order the function *)
(* declares, for any types and registrations.                              *)
(***************************************************************************)
THEOREM FunctionsFoundByType == Spec => []DD!DispatchesByType
<1>1. DispatchInv => DD!DispatchesByType
  BY DEF DispatchInv
<1> QED
  BY <1>1, DispatchInvariant, PTL

-----------------------------------------------------------------------------
(***************************************************************************)
(* The iterators.  A loop stands at an element it has not been at: of a    *)
(* container that is not empty and has none that is empty before it, or at *)
(* a letter; or the next number has been read.  The parts are stated for   *)
(* any items xs.                                                           *)
(***************************************************************************)
AtElement(xs, p) ==
  /\ p \in [cont : Nat, it : Nat] /\ p.cont \in 1..(Len(xs) + 1)
  /\ IF p.cont = Len(xs) + 1 THEN p.it = 1 ELSE p.it \in 1..xs[p.cont]
  /\ \A b \in 1..(p.cont - 1) : xs[b] > 0

Elements(xs, p) ==
  {e \in (DOMAIN xs) \X (1..MaxItems) : e[2] <= xs[e[1]] /\ (e[1] < p.cont \/ (e[1] = p.cont /\ e[2] < p.it))}

LinearizedInv(xs, p, been) ==
  IF p # I!Nowhere THEN AtElement(xs, p) /\ been = Elements(xs, p)
  ELSE xs = <<>> \/ \E c \in DOMAIN xs :
         xs[c] = 0 /\ (\A b \in 1..(c - 1) : xs[b] > 0) /\ been = Elements(xs, [cont |-> c, it |-> 1])

LettersOf(xs, p) == {k \in DOMAIN xs : xs[k] \in Alpha /\ k < p}

AlphaInv(xs, p, end, been) ==
  /\ p \in 1..(Len(xs) + 1) /\ (p # Len(xs) + 1 => xs[p] \in Alpha)
  /\ IF end = Len(xs) + 1 THEN been = LettersOf(xs, p)
     ELSE end = p /\ been \in {LettersOf(xs, p), LettersOf(xs, p + 1)}

StreamInv(xs, sums, more, val, n) ==
  /\ Len(sums) <= Len(xs)
  /\ \A k \in DOMAIN sums : xs[k] \in Numbers /\ sums[k] = xs[k] + (IF k = 1 THEN 0 ELSE sums[k - 1])
  /\ more => n = Len(sums) + 1 /\ n <= Len(xs) /\ xs[n] \in Numbers /\ val = xs[n]
  /\ more \/ Len(sums) = Len(xs) \/ xs[Len(sums) + 1] \notin Numbers

IteratorInv ==
  /\ I!TypeOK
  /\ ~begun => seen = {} /\ taken = 0 /\ written = <<>>
  /\ begun => /\ walk = "linearized" => LinearizedInv(items, current, seen)
              /\ walk = "alpha" => AlphaInv(items, it_, endit_, seen)
              /\ walk = "istream" => StreamInv(items, written, in_stream_, current_value_, taken)

LEMMA IteratorsVisit == IteratorInv => I!IteratorsVisitAll
<1> SUFFICES ASSUME IteratorInv, begun PROVE I!IteratorsVisitAll
  BY DEF I!IteratorsVisitAll
<1>1. ASSUME walk = "linearized" PROVE I!ElementsOnce
  BY <1>1 DEF IteratorInv, LinearizedInv, Elements, I!ElementsOnce, I!ElementsBefore
<1>2. ASSUME walk = "alpha" PROVE I!LettersOnce
  <2>1. AlphaInv(items, it_, endit_, seen) /\ items \in Seq(I!Items(walk))
    BY <1>2 DEF IteratorInv, I!TypeOK
  <2>2. I!LettersBefore(it_) = LettersOf(items, it_) /\ I!LettersBefore(it_ + 1) = LettersOf(items, it_ + 1)
    BY DEF I!LettersBefore, LettersOf
  <2> QED BY <2>1, <2>2 DEF AlphaInv, I!LettersOnce, I!isalpha
<1>3. ASSUME walk = "istream" PROVE I!NumbersSummed
  BY <1>3 DEF IteratorInv, StreamInv, I!NumbersSummed
<1>4. walk \in {"linearized", "alpha", "istream"}
  BY DEF IteratorInv, I!TypeOK, I!Walks
<1> QED
  BY <1>1, <1>2, <1>3, <1>4 DEF I!IteratorsVisitAll

LEMMA IteratorInit == I!Init => IteratorInv
<1> SUFFICES ASSUME I!Init PROVE IteratorInv
  OBVIOUS
<1>1. items \in Seq(I!Items(walk)) /\ Len(items) = 0 /\ written \in Seq(Int)
  BY EmptySeq DEF I!Init
<1>2. begun \in BOOLEAN /\ in_stream_ \in BOOLEAN /\ walk = "none" /\ ~begun
  BY Zenon DEF I!Init
<1>3. I!TypeOK
  <2>1. Len(items) <= MaxItems /\ it_ \in Nat /\ endit_ \in Nat /\ current_value_ \in Int /\ taken \in Nat
    BY <1>1, IteratorsAssumption DEF I!Init
  <2>2. current \in [cont : Nat, it : Nat]
    BY DEF I!Init, I!Nowhere
  <2> QED BY <1>1, <1>2, <2>1, <2>2 DEF I!TypeOK
<1> QED
  BY <1>2, <1>3 DEF I!Init, IteratorInv

\* What the items are, by the iterator.
LEMMA ItemsType ==
  ASSUME I!TypeOK
  PROVE  /\ walk = "linearized" => items \in Seq(0..MaxItems)
         /\ walk = "alpha" => items \in Seq(Chars)
         /\ walk = "istream" => items \in Seq(Words)
         /\ walk = "none" => items = <<>>
<1>1. items \in Seq(I!Items(walk))
  BY DEF I!TypeOK
<1>2. ASSUME walk = "none" PROVE items = <<>>
  <2>1. items \in Seq({})
    BY <1>1, <1>2 DEF I!Items
  <2> QED BY <2>1
<1> QED
  BY <1>1, <1>2 DEF I!Items

LEMMA IteratorFill ==
  ASSUME IteratorInv, NEW which \in I!Walks, NEW x \in I!Items(which), I!Fill(which, x)
  PROVE  IteratorInv'
<1>1. /\ ~begun /\ walk \in {"none", which} /\ walk' = which /\ Len(items) < MaxItems
      /\ items' = Append(items, x)
      /\ UNCHANGED <<begun, current, it_, endit_, in_stream_, current_value_, taken, written, seen>>
  BY DEF I!Fill, I!Unbegun, I!alphaVars, I!streamVars
<1>2. items \in Seq(I!Items(which))
  BY <1>1, ItemsType, EmptySeq DEF IteratorInv, I!TypeOK
<1>3. items' \in Seq(I!Items(which)) /\ Len(items') = Len(items) + 1
  BY <1>1, <1>2
<1>4. items' \in Seq(I!Items(walk'))
  BY <1>1, <1>3
<1>5. I!TypeOK'
  BY <1>1, <1>3, <1>4, IteratorsAssumption DEF IteratorInv, I!TypeOK, I!Walks
<1> QED
  BY <1>1, <1>5 DEF IteratorInv

\* What is at the indices of a sequence.
LEMMA AtIndex ==
  ASSUME NEW S, NEW s \in Seq(S)
  PROVE  (\A k \in DOMAIN s : s[k] \in S) /\ Len(s) \in Nat /\ DOMAIN s = 1..Len(s)
OBVIOUS

\* Where linearized_next goes from an element, and from the beginning of an empty container.
LEMMA LinearizedNext ==
  ASSUME items \in Seq(0..MaxItems), NEW p \in [cont : Nat, it : Nat], p.cont \in 1..Len(items),
         p.it \in 1..items[p.cont] \/ (p.it = 1 /\ items[p.cont] = 0),
         NEW q, q = I!linearized_next(p)
  PROVE  \/ /\ p.it < items[p.cont] /\ q = [cont |-> p.cont, it |-> p.it + 1]
         \/ /\ p.it = items[p.cont] /\ q = [cont |-> p.cont + 1, it |-> 1]
            /\ p.cont = Len(items) \/ items[p.cont + 1] > 0
         \/ /\ p.it = items[p.cont] /\ q = I!Nowhere /\ p.cont + 1 \in DOMAIN items /\ items[p.cont + 1] = 0
         \/ /\ items[p.cont] = 0 /\ q = I!Nowhere
<1>1. items[p.cont] \in 0..MaxItems /\ (p.cont < Len(items) => items[p.cont + 1] \in 0..MaxItems)
  <2>1. (\A k \in DOMAIN items : items[k] \in 0..MaxItems) /\ Len(items) \in Nat /\ DOMAIN items = 1..Len(items)
    BY AtIndex, Zenon
  <2> QED BY <2>1
<1>2. CASE p.it < items[p.cont]
  <2>1. q = [p EXCEPT !.it = p.it + 1]
    BY <1>1, <1>2, IteratorsAssumption DEF I!linearized_next
  <2> QED BY <1>2, <2>1
<1>3. CASE p.it = items[p.cont]
  <2>1. ~(p.cont > Len(items)) /\ ~(p.it > items[p.cont]) /\ ~(p.it < items[p.cont])
    BY <1>1, <1>3, IteratorsAssumption
  <2>2. q = IF p.cont = Len(items) THEN [cont |-> p.cont + 1, it |-> 1]
            ELSE IF items[p.cont + 1] > 0 THEN [cont |-> p.cont + 1, it |-> 1]
            ELSE I!Nowhere
    BY <2>1 DEF I!linearized_next
  <2>3. p.cont # Len(items) => p.cont + 1 \in DOMAIN items
    OBVIOUS
  <2> QED BY <1>1, <1>3, <2>2, <2>3, IteratorsAssumption
<1>4. CASE p.it > items[p.cont]
  BY <1>1, <1>4, IteratorsAssumption DEF I!linearized_next
<1> QED
  BY <1>1, <1>2, <1>3, <1>4, IteratorsAssumption

\* One step of the loop adds the element it is at to those before it.
LEMMA ElementsStep ==
  ASSUME items \in Seq(0..MaxItems), NEW p \in [cont : Nat, it : Nat], p.cont \in DOMAIN items, p.it \in 1..items[p.cont]
  PROVE  /\ Elements(items, p) \cup {<<p.cont, p.it>>} = Elements(items, [cont |-> p.cont, it |-> p.it + 1])
         /\ p.it = items[p.cont] =>
              Elements(items, p) \cup {<<p.cont, p.it>>} = Elements(items, [cont |-> p.cont + 1, it |-> 1])
<1>1. \A c \in DOMAIN items : items[c] \in 0..MaxItems
  BY AtIndex, Zenon
<1>2. p.cont \in Nat /\ p.it \in Nat /\ p.it <= MaxItems
  BY <1>1, IteratorsAssumption
<1>3. ASSUME NEW e \in (DOMAIN items) \X (1..MaxItems)
      PROVE  e[1] \in Nat /\ e[2] \in Nat /\ e[2] >= 1 /\ items[e[1]] \in 0..MaxItems /\ e = <<e[1], e[2]>>
  <2>1. e[1] \in DOMAIN items /\ e[2] \in 1..MaxItems /\ e = <<e[1], e[2]>>
    OBVIOUS
  <2> QED BY <1>1, <2>1, IteratorsAssumption
<1>4. <<p.cont, p.it>> \in (DOMAIN items) \X (1..MaxItems) /\ p.it <= items[p.cont]
  BY <1>1, <1>2, IteratorsAssumption
<1>5. ASSUME NEW e \in (DOMAIN items) \X (1..MaxItems), e[2] <= items[e[1]]
      PROVE  /\ (e[1] < p.cont \/ (e[1] = p.cont /\ e[2] < p.it + 1))
                  <=> (e[1] < p.cont \/ (e[1] = p.cont /\ e[2] < p.it)) \/ e = <<p.cont, p.it>>
             /\ p.it = items[p.cont] =>
                  ((e[1] < p.cont + 1 \/ (e[1] = p.cont + 1 /\ e[2] < 1))
                     <=> (e[1] < p.cont \/ (e[1] = p.cont /\ e[2] < p.it)) \/ e = <<p.cont, p.it>>)
  <2>1. e = <<p.cont, p.it>> <=> e[1] = p.cont /\ e[2] = p.it
    BY <1>3
  <2> QED BY <1>2, <1>3, <1>5, <2>1
<1>6. /\ [cont |-> p.cont, it |-> p.it + 1].cont = p.cont /\ [cont |-> p.cont, it |-> p.it + 1].it = p.it + 1
      /\ [cont |-> p.cont + 1, it |-> 1].cont = p.cont + 1 /\ [cont |-> p.cont + 1, it |-> 1].it = 1
  OBVIOUS
<1> QED
  BY <1>4, <1>5, <1>6 DEF Elements

LEMMA ElementsFirst ==
  ASSUME items \in Seq(0..MaxItems)
  PROVE  Elements(items, [cont |-> 1, it |-> 1]) = {}
BY IteratorsAssumption DEF Elements

\* What a step of the loop over containers leaves alone.
LEMMA LinearizedHolds ==
  ASSUME IteratorInv, walk = "linearized", begun' = TRUE, current' \in [cont : Nat, it : Nat],
         UNCHANGED <<walk, items, it_, endit_, in_stream_, current_value_, taken, written>>,
         LinearizedInv(items, current', seen')
  PROVE  IteratorInv'
<1>1. I!TypeOK'
  BY DEF IteratorInv, I!TypeOK, I!Items, I!Walks
<1> QED
  BY <1>1 DEF IteratorInv

LEMMA LinearizedBegins == ASSUME IteratorInv, I!LinearizedBegin PROVE IteratorInv'
<1>1. /\ ~begun /\ walk \in {"none", "linearized"} /\ walk' = "linearized" /\ begun' = TRUE
      /\ UNCHANGED <<items, seen, it_, endit_, in_stream_, current_value_, taken, written>>
      /\ current' = I!linearized_begin /\ seen = {}
  BY DEF I!LinearizedBegin, I!Begins, I!Unbegun, I!alphaVars, I!streamVars, IteratorInv
<1>2. items \in Seq(0..MaxItems)
  BY <1>1, ItemsType, EmptySeq DEF IteratorInv
<1>3. Elements(items, [cont |-> 1, it |-> 1]) = {}
  BY <1>2, ElementsFirst
<1>4. /\ I!Nowhere \in [cont : Nat, it : Nat] /\ [cont |-> 1, it |-> 1] \in [cont : Nat, it : Nat]
      /\ [cont |-> 1, it |-> 1] # I!Nowhere
  BY DEF I!Nowhere
<1>5. LinearizedInv(items, current', seen') /\ current' \in [cont : Nat, it : Nat]
  <2>1. CASE items = <<>>
    BY <1>1, <1>4, <2>1 DEF I!linearized_begin, LinearizedInv
  <2>2. CASE items # <<>> /\ items[1] = 0
    <3>1. 1 \in DOMAIN items
      BY <1>2, <2>2
    <3>2. PICK q : q = I!linearized_next([cont |-> 1, it |-> 1])
      OBVIOUS
    <3>3. q = I!Nowhere
      BY <1>2, <1>4, <2>2, <3>1, <3>2, LinearizedNext
    <3>4. current' = I!Nowhere
      BY <1>1, <2>2, <3>2, <3>3 DEF I!linearized_begin
    <3> QED BY <1>1, <1>3, <1>4, <2>2, <3>1, <3>4 DEF LinearizedInv
  <2>3. CASE items # <<>> /\ items[1] # 0
    <3>1. current' = [cont |-> 1, it |-> 1]
      BY <1>1, <2>3 DEF I!linearized_begin
    <3>2. AtElement(items, [cont |-> 1, it |-> 1])
      <4>1. (\A k \in DOMAIN items : items[k] \in 0..MaxItems) /\ Len(items) \in Nat /\ DOMAIN items = 1..Len(items)
        BY <1>2, AtIndex, Zenon
      <4>2. Len(items) >= 1
        BY <1>2, <2>3
      <4>3. items[1] \in 1..MaxItems
        BY <4>1, <4>2, <2>3, IteratorsAssumption
      <4> QED BY <1>4, <4>1, <4>2, <4>3 DEF AtElement
    <3> QED BY <1>1, <1>3, <1>4, <3>1, <3>2 DEF LinearizedInv
  <2> QED BY <2>1, <2>2, <2>3
<1>6. I!TypeOK'
  <2>1. items' \in Seq(I!Items(walk'))
    BY <1>1, <1>2 DEF I!Items
  <2> QED BY <1>1, <1>5, <2>1 DEF IteratorInv, I!TypeOK, I!Walks
<1> QED
  BY <1>1, <1>5, <1>6 DEF IteratorInv

LEMMA LinearizedSteps == ASSUME IteratorInv, I!Linearized PROVE IteratorInv'
<1>1. /\ walk = "linearized" /\ begun /\ begun' = begun /\ current # I!Nowhere /\ ~(current.cont > Len(items))
      /\ UNCHANGED <<walk, items, it_, endit_, in_stream_, current_value_, taken, written>>
      /\ seen' = seen \cup {<<current.cont, current.it>>} /\ current' = I!linearized_next(current)
  BY DEF I!Linearized, I!Runs, I!linearized_equal, I!alphaVars, I!streamVars
<1>2. items \in Seq(0..MaxItems) /\ begun' = TRUE
  BY <1>1, ItemsType DEF IteratorInv, I!TypeOK
<1>3. AtElement(items, current) /\ seen = Elements(items, current)
  BY <1>1 DEF IteratorInv, LinearizedInv
<1>4. PICK p : p = current
  OBVIOUS
<1>5. PICK q : q = current'
  OBVIOUS
<1>6. (\A k \in DOMAIN items : items[k] \in 0..MaxItems) /\ Len(items) \in Nat /\ DOMAIN items = 1..Len(items)
  BY <1>2, AtIndex, Zenon
<1>7. p \in [cont : Nat, it : Nat] /\ p.cont \in DOMAIN items /\ p.cont \in 1..Len(items) /\ p.it \in 1..items[p.cont]
  BY <1>1, <1>3, <1>4, <1>6 DEF AtElement
<1>8. \A b \in 1..(p.cont - 1) : items[b] > 0
  BY <1>3, <1>4 DEF AtElement
<1>9. items[p.cont] \in Nat /\ items[p.cont] > 0
  BY <1>6, <1>7, IteratorsAssumption
<1>10. q = I!linearized_next(p)
  BY <1>1, <1>4, <1>5
<1>11. \/ /\ p.it < items[p.cont] /\ q = [cont |-> p.cont, it |-> p.it + 1]
       \/ /\ p.it = items[p.cont] /\ q = [cont |-> p.cont + 1, it |-> 1]
          /\ p.cont = Len(items) \/ items[p.cont + 1] > 0
       \/ /\ p.it = items[p.cont] /\ q = I!Nowhere /\ p.cont + 1 \in DOMAIN items /\ items[p.cont + 1] = 0
       \/ /\ items[p.cont] = 0 /\ q = I!Nowhere
  BY <1>2, <1>7, <1>10, LinearizedNext
<1>12. /\ seen' = Elements(items, [cont |-> p.cont, it |-> p.it + 1])
       /\ p.it = items[p.cont] => seen' = Elements(items, [cont |-> p.cont + 1, it |-> 1])
  BY <1>1, <1>2, <1>3, <1>4, <1>7, ElementsStep
<1>13. LinearizedInv(items, q, seen') /\ q \in [cont : Nat, it : Nat]
  <2>1. CASE p.it < items[p.cont] /\ q = [cont |-> p.cont, it |-> p.it + 1]
    <3>1. q \in [cont : Nat, it : Nat] /\ q # I!Nowhere /\ q.cont = p.cont /\ q.it = p.it + 1
      BY <1>6, <1>7, <2>1 DEF I!Nowhere
    <3>2. AtElement(items, q)
      BY <1>6, <1>7, <1>8, <1>9, <2>1, <3>1 DEF AtElement
    <3> QED BY <1>12, <2>1, <3>1, <3>2 DEF LinearizedInv
  <2>2. CASE p.it = items[p.cont] /\ q = [cont |-> p.cont + 1, it |-> 1] /\ (p.cont = Len(items) \/ items[p.cont + 1] > 0)
    <3>1. q \in [cont : Nat, it : Nat] /\ q # I!Nowhere /\ q.cont = p.cont + 1 /\ q.it = 1
      BY <1>6, <1>7, <2>2 DEF I!Nowhere
    <3>2. \A b \in 1..(q.cont - 1) : items[b] > 0
      BY <1>6, <1>7, <1>8, <1>9, <3>1
    <3>3. p.cont # Len(items) => items[p.cont + 1] \in 1..MaxItems
      BY <1>6, <1>7, <2>2, IteratorsAssumption
    <3>4. AtElement(items, q)
      BY <1>6, <1>7, <3>1, <3>2, <3>3, IteratorsAssumption DEF AtElement
    <3> QED BY <1>12, <2>2, <3>1, <3>4 DEF LinearizedInv
  <2>3. CASE p.it = items[p.cont] /\ q = I!Nowhere /\ p.cont + 1 \in DOMAIN items /\ items[p.cont + 1] = 0
    <3>1. q \in [cont : Nat, it : Nat]
      BY <2>3 DEF I!Nowhere
    <3>2. \A b \in 1..((p.cont + 1) - 1) : items[b] > 0
      BY <1>6, <1>7, <1>8, <1>9
    <3> QED BY <1>12, <2>3, <3>1, <3>2 DEF LinearizedInv
  <2> QED BY <1>9, <1>11, <2>1, <2>2, <2>3
<1> QED
  BY <1>1, <1>2, <1>5, <1>13, LinearizedHolds

\* A set of naturals that is not empty has a smallest member.
LEMMA SmallestNat ==
  ASSUME NEW T \in SUBSET Nat, T # {}
  PROVE  \E x \in T : \A y \in T : x <= y
<1> DEFINE R == {ss \in Nat \X Nat : ss[1] < ss[2]}
<1>1. IsWellFoundedOn(R, Nat)
  BY NatLessThanWellFounded, Zenon DEF OpToRel
<1>2. \A y, z \in Nat : y < z => <<y, z>> \in R
  OBVIOUS
<1> HIDE DEF R
<1>3. PICK x \in T : \A y \in T : ~(<<y, x>> \in R)
  BY <1>1, WFMin
<1> QED
  <2> SUFFICES ASSUME NEW y \in T PROVE x <= y
    OBVIOUS
  <2>1. ~(y < x)
    BY <1>2, <1>3
  <2> QED BY <2>1

\* goToNextAlpha finds the next letter, or the end.
LEMMA NextAlpha ==
  ASSUME NEW p \in Nat, NEW end \in Nat, p < end
  PROVE  LET q == I!goToNextAlpha(p, end)
         IN  q \in (p + 1)..end /\ (I!isalpha(q) \/ q = end) /\ \A r \in (p + 1)..(q - 1) : ~I!isalpha(r)
<1> DEFINE Ok(q) == (I!isalpha(q) \/ q = end) /\ \A r \in (p + 1)..(q - 1) : ~I!isalpha(r)
           T == {q \in (p + 1)..end : I!isalpha(q) \/ q = end}
<1>1. PICK q \in T : \A y \in T : q <= y
  <2>1. end \in T /\ T \in SUBSET Nat
    OBVIOUS
  <2> HIDE DEF T
  <2> QED BY <2>1, SmallestNat
<1>2. \A r \in (p + 1)..(q - 1) : ~I!isalpha(r)
  <2> SUFFICES ASSUME NEW r \in (p + 1)..(q - 1), I!isalpha(r) PROVE FALSE
    OBVIOUS
  <2>1. r \in T /\ q \in Nat
    BY <1>1
  <2> QED BY <1>1, <2>1
<1>3. \E x \in (p + 1)..end : Ok(x)
  BY <1>1, <1>2
<1>4. I!goToNextAlpha(p, end) = CHOOSE x \in (p + 1)..end : Ok(x)
  BY DEF I!goToNextAlpha
<1> HIDE DEF Ok
<1>5. I!goToNextAlpha(p, end) \in (p + 1)..end /\ Ok(I!goToNextAlpha(p, end))
  BY <1>3, <1>4, Zenon
<1> QED
  BY <1>5 DEF Ok

\* The next position of a loop over letters has the letters before it that p has, and p.
LEMMA LettersStep ==
  ASSUME NEW S, items \in Seq(S), NEW p \in 1..Len(items), items[p] \in Alpha, NEW q, q = I!goToNextAlpha(p, Len(items) + 1)
  PROVE  /\ q \in (p + 1)..(Len(items) + 1) /\ (q # Len(items) + 1 => items[q] \in Alpha)
         /\ LettersOf(items, q) = LettersOf(items, p) \cup {p}
         /\ LettersOf(items, p + 1) = LettersOf(items, p) \cup {p}
<1>1. /\ q \in (p + 1)..(Len(items) + 1) /\ (I!isalpha(q) \/ q = Len(items) + 1)
      /\ \A r \in (p + 1)..(q - 1) : ~I!isalpha(r)
  <2>1. p \in Nat /\ Len(items) + 1 \in Nat /\ p < Len(items) + 1
    OBVIOUS
  <2> QED BY <2>1, NextAlpha
<1>2. \A k \in DOMAIN items : k \in (p + 1)..(q - 1) => items[k] \notin Alpha
  BY <1>1 DEF I!isalpha
<1>3. \A k \in DOMAIN items : items[k] \in Alpha => (k < q <=> k < p \/ k = p) /\ (k < p + 1 <=> k < p \/ k = p)
  BY <1>1, <1>2
<1> QED
  BY <1>1, <1>3 DEF I!isalpha, LettersOf

LEMMA AlphaHolds ==
  ASSUME IteratorInv, walk' = "alpha", begun' = TRUE, items' \in Seq(I!Items(walk')), it_' \in Nat, endit_' \in Nat,
         UNCHANGED <<items, current, in_stream_, current_value_, taken, written>>,
         AlphaInv(items, it_', endit_', seen')
  PROVE  IteratorInv'
<1>1. I!TypeOK'
  BY DEF IteratorInv, I!TypeOK, I!Walks
<1> QED
  BY <1>1 DEF IteratorInv

LEMMA AlphaBegins == ASSUME IteratorInv, I!AlphaBegin PROVE IteratorInv'
<1>1. /\ ~begun /\ walk \in {"none", "alpha"} /\ walk' = "alpha" /\ begun' = TRUE
      /\ UNCHANGED <<items, seen, current, in_stream_, current_value_, taken, written>> /\ seen = {}
      /\ endit_' = Len(items) + 1 /\ it_' = IF I!isalpha(1) THEN 1 ELSE I!goToNextAlpha(1, Len(items) + 1)
  BY DEF I!AlphaBegin, I!Begins, I!Unbegun, I!streamVars, IteratorInv
<1>2. items \in Seq(Chars)
  BY <1>1, ItemsType, EmptySeq DEF IteratorInv
<1>3. items' \in Seq(I!Items(walk')) /\ endit_' \in Nat
  BY <1>1, <1>2 DEF I!Items
<1>4. PICK q : q = it_'
  OBVIOUS
<1>5. q \in 1..(Len(items) + 1) /\ (q # Len(items) + 1 => items[q] \in Alpha) /\ LettersOf(items, q) = {}
  <2>1. CASE I!isalpha(1)
    BY <1>1, <1>2, <1>4, <2>1 DEF I!isalpha, LettersOf
  <2>2. CASE ~I!isalpha(1) /\ Len(items) = 0
    BY <1>1, <1>2, <1>4, <2>2 DEF I!goToNextAlpha, LettersOf
  <2>3. CASE ~I!isalpha(1) /\ Len(items) # 0
    <3>1. Len(items) \in Nat /\ DOMAIN items = 1..Len(items)
      BY <1>2
    <3>2. /\ q \in 2..(Len(items) + 1) /\ (I!isalpha(q) \/ q = Len(items) + 1) /\ \A r \in 2..(q - 1) : ~I!isalpha(r)
      <4>1. 1 \in Nat /\ Len(items) + 1 \in Nat /\ 1 < Len(items) + 1 /\ 1 + 1 = 2
        BY <2>3, <3>1
      <4>2. q = I!goToNextAlpha(1, Len(items) + 1)
        BY <1>1, <1>4, <2>3
      <4> QED BY <4>1, <4>2, NextAlpha
    <3>3. \A k \in DOMAIN items : k < q => items[k] \notin Alpha
      BY <2>3, <3>1, <3>2 DEF I!isalpha
    <3> QED BY <3>1, <3>2, <3>3 DEF I!isalpha, LettersOf
  <2> QED BY <2>1, <2>2, <2>3
<1>6. AlphaInv(items, it_', endit_', seen') /\ it_' \in Nat
  BY <1>1, <1>2, <1>4, <1>5 DEF AlphaInv
<1> QED
  BY <1>1, <1>3, <1>6, AlphaHolds

LEMMA AlphaSteps == ASSUME IteratorInv, I!Letters \/ I!LettersAssigned PROVE IteratorInv'
<1>1. /\ walk = "alpha" /\ begun /\ walk' = walk /\ begun' = begun /\ it_ <= Len(items) /\ seen' = seen \cup {it_}
      /\ UNCHANGED <<items, current, in_stream_, current_value_, taken, written>>
      /\ \/ it_' = I!goToNextAlpha(it_, endit_) /\ endit_' = endit_
         \/ it_' \in {it_, I!goToNextAlpha(it_, endit_)} /\ endit_' = it_'
  BY DEF I!Letters, I!LettersAssigned, I!AtLetter, I!Runs, I!streamVars
<1>2. items \in Seq(Chars) /\ items' \in Seq(I!Items(walk')) /\ begun' = TRUE
  BY <1>1, ItemsType DEF IteratorInv, I!TypeOK, I!Items
<1>3. AlphaInv(items, it_, endit_, seen)
  BY <1>1 DEF IteratorInv
<1>4. it_ \in 1..Len(items) /\ items[it_] \in Alpha /\ Len(items) \in Nat
  BY <1>1, <1>2, <1>3 DEF AlphaInv
<1>5. PICK q : q = I!goToNextAlpha(it_, Len(items) + 1)
  OBVIOUS
<1>6. /\ q \in (it_ + 1)..(Len(items) + 1) /\ (q # Len(items) + 1 => items[q] \in Alpha)
      /\ LettersOf(items, q) = LettersOf(items, it_) \cup {it_}
      /\ LettersOf(items, it_ + 1) = LettersOf(items, it_) \cup {it_}
  BY <1>2, <1>4, <1>5, LettersStep, Zenon
<1>7. CASE endit_ = Len(items) + 1
  <2>1. seen' = LettersOf(items, it_) \cup {it_}
    BY <1>1, <1>3, <1>7 DEF AlphaInv
  <2>2. \/ it_' = q /\ endit_' = Len(items) + 1
        \/ it_' = q /\ endit_' = q
        \/ it_' = it_ /\ endit_' = it_
    BY <1>1, <1>5, <1>7
  <2>3. AlphaInv(items, it_', endit_', seen') /\ it_' \in Nat /\ endit_' \in Nat
    BY <1>4, <1>6, <2>1, <2>2 DEF AlphaInv
  <2> QED BY <1>1, <1>2, <2>3, AlphaHolds
<1>8. CASE endit_ # Len(items) + 1
  <2>1. endit_ = it_ /\ seen \in {LettersOf(items, it_), LettersOf(items, it_ + 1)}
    BY <1>3, <1>8 DEF AlphaInv
  <2>2. it_' = it_ /\ endit_' = it_
    BY <1>1, <2>1 DEF I!goToNextAlpha
  <2>3. seen' = LettersOf(items, it_ + 1)
    BY <1>1, <1>6, <2>1
  <2>4. AlphaInv(items, it_', endit_', seen') /\ it_' \in Nat /\ endit_' \in Nat
    BY <1>4, <2>2, <2>3 DEF AlphaInv
  <2> QED BY <1>1, <1>2, <2>4, AlphaHolds
<1> QED
  BY <1>7, <1>8

\* What operator>> leaves behind.
LEMMA StreamExtracted ==
  ASSUME items \in Seq(Words), taken \in Nat, taken <= Len(items), current_value_ \in Int, I!Extracted
  PROVE  /\ in_stream_' \in BOOLEAN /\ current_value_' \in Int /\ taken' \in Nat
         /\ in_stream_' => /\ taken' = taken + 1 /\ taken' <= Len(items)
                           /\ items[taken'] \in Numbers /\ current_value_' = items[taken']
         /\ in_stream_' \/ taken = Len(items) \/ items[taken + 1] \notin Numbers
<1>1. CASE taken = Len(items) /\ in_stream_' = FALSE /\ UNCHANGED <<current_value_, taken>>
  BY <1>1
<1>2. CASE /\ taken < Len(items) /\ taken' = taken + 1
           /\ \/ items[taken'] \in Numbers /\ in_stream_' = TRUE /\ current_value_' = items[taken']
              \/ items[taken'] \notin Numbers /\ in_stream_' = FALSE /\ current_value_' = 0
  <2>1. (\A k \in DOMAIN items : items[k] \in Words) /\ Len(items) \in Nat /\ DOMAIN items = 1..Len(items)
    BY AtIndex, Zenon
  <2>2. taken' = taken + 1 /\ taken' \in DOMAIN items
    BY <1>2, <2>1
  <2>3. items[taken'] \in Int
    BY <2>1, <2>2, IteratorsAssumption
  <2>4. CASE items[taken'] \in Numbers /\ in_stream_' = TRUE /\ current_value_' = items[taken']
    BY <1>2, <2>2, <2>3, <2>4
  <2>5. CASE items[taken'] \notin Numbers /\ in_stream_' = FALSE /\ current_value_' = 0
    <3>1. in_stream_' \in BOOLEAN /\ ~in_stream_'
      BY <2>5, Zenon
    <3>2. items[taken + 1] \notin Numbers
      BY <2>2, <2>5, Zenon
    <3>3. current_value_' \in Int /\ taken' \in Nat
      BY <2>2, <2>5
    <3> QED BY <3>1, <3>2, <3>3, Zenon
  <2> QED BY <1>2, <2>4, <2>5
<1> QED
  BY <1>1, <1>2 DEF I!Extracted

LEMMA StreamHolds ==
  ASSUME IteratorInv, walk' = "istream", begun' = TRUE, items' \in Seq(I!Items(walk')), written' \in Seq(Int),
         in_stream_' \in BOOLEAN, current_value_' \in Int, taken' \in Nat,
         UNCHANGED <<items, current, it_, endit_, seen>>,
         StreamInv(items, written', in_stream_', current_value_', taken')
  PROVE  IteratorInv'
<1>1. I!TypeOK'
  BY DEF IteratorInv, I!TypeOK, I!Walks
<1> QED
  BY <1>1 DEF IteratorInv

LEMMA StreamBegins == ASSUME IteratorInv, I!StreamBegin PROVE IteratorInv'
<1>1. /\ ~begun /\ walk \in {"none", "istream"} /\ walk' = "istream" /\ begun' = TRUE
      /\ UNCHANGED <<items, current, it_, endit_, seen, written>> /\ I!Extracted /\ taken = 0 /\ written = <<>>
  BY DEF I!StreamBegin, I!Begins, I!Unbegun, I!alphaVars, IteratorInv
<1>2. items \in Seq(Words)
  BY <1>1, ItemsType, EmptySeq DEF IteratorInv
<1>3. items' \in Seq(I!Items(walk')) /\ written' \in Seq(Int)
  BY <1>1, <1>2, EmptySeq DEF I!Items
<1>4. taken <= Len(items) /\ taken \in Nat /\ current_value_ \in Int
  BY <1>1, <1>2 DEF IteratorInv, I!TypeOK
<1>5. /\ in_stream_' \in BOOLEAN /\ current_value_' \in Int /\ taken' \in Nat
      /\ in_stream_' => /\ taken' = taken + 1 /\ taken' <= Len(items)
                        /\ items[taken'] \in Numbers /\ current_value_' = items[taken']
      /\ in_stream_' \/ taken = Len(items) \/ items[taken + 1] \notin Numbers
  BY <1>1, <1>2, <1>4, StreamExtracted
<1>6. StreamInv(items, written', in_stream_', current_value_', taken')
  <2>1. Len(written') = 0 /\ DOMAIN written' = {} /\ Len(items) \in Nat
    BY <1>1, <1>2
  <2> QED BY <1>1, <1>5, <2>1 DEF StreamInv
<1> QED
  BY <1>1, <1>3, <1>5, <1>6, StreamHolds

LEMMA StreamSteps == ASSUME IteratorInv, I!inf_sum PROVE IteratorInv'
<1>1. /\ walk = "istream" /\ begun /\ walk' = walk /\ begun' = begun /\ in_stream_ /\ I!Extracted
      /\ UNCHANGED <<items, current, it_, endit_, seen>> /\ written' = Append(written, I!Summed)
  BY DEF I!inf_sum, I!Runs, I!alphaVars
<1>2. items \in Seq(Words) /\ items' \in Seq(I!Items(walk')) /\ begun' = TRUE /\ written \in Seq(Int)
  BY <1>1, ItemsType DEF IteratorInv, I!TypeOK, I!Items
<1>3. StreamInv(items, written, in_stream_, current_value_, taken)
  BY <1>1 DEF IteratorInv
<1>4. /\ taken = Len(written) + 1 /\ taken <= Len(items) /\ items[taken] \in Numbers /\ current_value_ = items[taken]
      /\ taken \in Nat /\ current_value_ \in Int
  BY <1>1, <1>3 DEF StreamInv, IteratorInv, I!TypeOK
<1>5. /\ in_stream_' \in BOOLEAN /\ current_value_' \in Int /\ taken' \in Nat
      /\ in_stream_' => /\ taken' = taken + 1 /\ taken' <= Len(items)
                        /\ items[taken'] \in Numbers /\ current_value_' = items[taken']
      /\ in_stream_' \/ taken = Len(items) \/ items[taken + 1] \notin Numbers
  BY <1>1, <1>2, <1>4, StreamExtracted
<1>6. I!Summed = items[taken] + (IF taken = 1 THEN 0 ELSE written[taken - 1]) /\ I!Summed \in Int
  <2>1. written = <<>> <=> taken = 1
    BY <1>2, <1>4
  <2>2. taken # 1 => written[taken - 1] \in Int /\ taken - 1 = Len(written)
    BY <1>2, <1>4
  <2> QED BY <1>4, <2>1, <2>2 DEF I!Summed
<1>7. /\ written' \in Seq(Int) /\ Len(written') = taken /\ DOMAIN written' = 1..taken /\ written'[taken] = I!Summed
      /\ \A k \in 1..(taken - 1) : written'[k] = written[k] /\ k \in DOMAIN written
  BY <1>1, <1>2, <1>4, <1>6
<1>8. ASSUME NEW k \in DOMAIN written'
      PROVE items[k] \in Numbers /\ written'[k] = items[k] + (IF k = 1 THEN 0 ELSE written'[k - 1])
  <2>1. k \in 1..taken /\ (k # 1 => k - 1 \in 1..(taken - 1))
    BY <1>4, <1>7
  <2>2. CASE k = taken
    BY <1>4, <1>6, <1>7, <2>1, <2>2
  <2>3. CASE k # taken
    <3>1. k \in 1..(taken - 1)
      BY <1>4, <2>1, <2>3
    <3>2. items[k] \in Numbers /\ written[k] = items[k] + (IF k = 1 THEN 0 ELSE written[k - 1])
      BY <1>3, <1>7, <3>1 DEF StreamInv
    <3> QED BY <1>7, <2>1, <3>1, <3>2
  <2> QED BY <2>2, <2>3
<1>9. StreamInv(items, written', in_stream_', current_value_', taken')
  BY <1>4, <1>5, <1>7, <1>8 DEF StreamInv
<1> QED
  BY <1>1, <1>2, <1>5, <1>7, <1>9, StreamHolds

LEMMA IteratorInvariant == Spec => []IteratorInv
<1>1. Init => IteratorInv
  BY IteratorInit DEF Init
<1>2. IteratorInv /\ [I!Next]_iteratorVars => IteratorInv'
  <2>1. IteratorInv /\ UNCHANGED iteratorVars => IteratorInv'
    BY DEF iteratorVars, IteratorInv, I!TypeOK
  <2> QED
    BY <2>1, IteratorFill, LinearizedBegins, LinearizedSteps, AlphaBegins, AlphaSteps, StreamBegins, StreamSteps
    DEF I!Next
<1>3. IteratorInv /\ [Next]_vars => IteratorInv'
  BY <1>2, StepOfEach
<1> QED
  BY <1>1, <1>3, PTL DEF Spec

(***************************************************************************)
(* A loop over containers, letters or numbers is at every element once and *)
(* in order, with the exceptions IteratorsVisitAll names, for any number   *)
(* of containers and any characters and words.                             *)
(***************************************************************************)
THEOREM LoopsVisitAll == Spec => []IteratorsVisitAll
<1>1. IteratorInv => IteratorsVisitAll
  BY IteratorsVisit DEF IteratorsVisitAll
<1> QED
  BY <1>1, IteratorInvariant, PTL

-----------------------------------------------------------------------------
(***************************************************************************)
(* The monitors.  The invariant says without counting that a lock is       *)
(* carried once: some monitor has it and every monitor that has it is that *)
(* one.  What moves, swaps and assigns locks is followed index by index.   *)
(***************************************************************************)
CarriedOnce(ms, o) == \E k \in DOMAIN ms : ms[k].lock = o /\ \A j \in DOMAIN ms : ms[j].lock = o => j = k
CarriedNever(ms, o) == \A k \in DOMAIN ms : ms[k].lock # o
OwnLock(ms) == \A k \in DOMAIN ms : ms[k].lock \in {Null, ms[k].object} \/ ms[k].mixed

MonitorInv ==
  /\ D!TypeOK
  /\ \A t \in Owners, o \in Objects : IF mut_[o] = t THEN CarriedOnce(monitors[t], o) ELSE CarriedNever(monitors[t], o)
  /\ \A t \in Owners : OwnLock(monitors[t])
  /\ \A t \in Owners : wants[t] # Null => Len(monitors[t]) < MaxMonitors

\* A set has one element exactly when there is one that all of it equals.
LEMMA ExactlyOne ==
  ASSUME NEW n \in Nat, NEW S \in SUBSET (1..n)
  PROVE  Cardinality(S) = 1 <=> \E k \in S : \A j \in S : j = k
<1>1. IsFiniteSet(S)
  <2>1. IsFiniteSet(1..n)
    BY FS_Interval
  <2> QED BY <2>1, FS_Subset
<1>2. Cardinality(S) = 1 => \E k : S = {k}
  BY <1>1, FS_Singleton
<1>3. ASSUME NEW k \in S, \A j \in S : j = k PROVE Cardinality(S) = 1
  <2>1. S = {k}
    BY <1>3
  <2> QED
    BY <2>1, FS_Singleton
<1> QED
  BY <1>2, <1>3

LEMMA CarriedExactlyOne ==
  ASSUME NEW ms \in Seq(D!Monitor), NEW o
  PROVE  Cardinality({k \in DOMAIN ms : ms[k].lock = o}) = 1 <=> CarriedOnce(ms, o)
<1> DEFINE S == {k \in DOMAIN ms : ms[k].lock = o}
<1>1. Len(ms) \in Nat /\ S \in SUBSET (1..Len(ms))
  OBVIOUS
<1>2. Cardinality(S) = 1 <=> \E k \in S : \A j \in S : j = k
  <2> HIDE DEF S
  <2> QED BY <1>1, ExactlyOne
<1> QED
  BY <1>2 DEF CarriedOnce

LEMMA MonitorsFollow == MonitorInv => LocksFollowMonitors
<1> SUFFICES ASSUME MonitorInv PROVE D!LocksFollowMonitors
  BY DEF LocksFollowMonitors
<1>1. ASSUME NEW t \in Owners, NEW o \in Objects
      PROVE  mut_[o] = t <=> CarriedOnce(monitors[t], o)
  BY <1>1 DEF MonitorInv, CarriedOnce, CarriedNever
<1>2. \A t \in Owners : monitors[t] \in Seq(D!Monitor)
  BY DEF MonitorInv, D!TypeOK
<1>3. \A t \in Owners, o \in Objects :
        mut_[o] = t <=> Cardinality({k \in DOMAIN monitors[t] : monitors[t][k].lock = o}) = 1
  BY <1>1, <1>2, CarriedExactlyOne
<1>4. \A t \in Owners : \A k \in DOMAIN monitors[t] :
        monitors[t][k].lock \in {Null, monitors[t][k].object} \/ monitors[t][k].mixed
  BY DEF MonitorInv, OwnLock
<1>5. \A S : D!Cardinality(S) = Cardinality(S)
  BY DEF D!Cardinality, Cardinality
<1>6. D!LocksFollowMonitors!1
  BY <1>3, <1>5
<1>7. D!LocksFollowMonitors!2
  BY <1>4
<1> QED
  BY <1>6, <1>7 DEF D!LocksFollowMonitors

LEMMA MonitorInit == D!Init => MonitorInv
<1> SUFFICES ASSUME D!Init PROVE MonitorInv
  OBVIOUS
<1>1. D!TypeOK
  BY MonitorsAssumption, EmptySeq DEF D!Init, D!TypeOK
<1>2. \A t \in Owners, o \in Objects : mut_[o] # t /\ CarriedNever(monitors[t], o)
  BY MonitorsAssumption DEF D!Init, CarriedNever
<1> QED
  BY <1>1, <1>2, MonitorsAssumption DEF D!Init, MonitorInv, OwnLock

\* A step changes the monitors of one thread; the locks of the others are not its own.
LEMMA MonitorStep ==
  ASSUME MonitorInv, NEW t \in Owners, NEW ms \in Seq(D!Monitor),
         Len(ms) <= MaxMonitors, monitors' = [monitors EXCEPT ![t] = ms],
         wants' \in [Owners -> Objects \cup {Null}], mut_' \in [Objects -> Owners \cup {NoThread}],
         \A o \in Objects : mut_'[o] = mut_[o] \/ {mut_[o], mut_'[o]} \subseteq {t, NoThread},
         \A o \in Objects : IF mut_'[o] = t THEN CarriedOnce(ms, o) ELSE CarriedNever(ms, o),
         OwnLock(ms),
         \A u \in Owners : wants'[u] # Null => u # t /\ wants[u] # Null
  PROVE  MonitorInv'
<1>1. D!TypeOK'
  BY DEF MonitorInv, D!TypeOK
<1>2. ASSUME NEW u \in Owners PROVE monitors'[u] = IF u = t THEN ms ELSE monitors[u]
  BY DEF MonitorInv, D!TypeOK
<1>3. ASSUME NEW u \in Owners, NEW o \in Objects
      PROVE IF mut_'[o] = u THEN CarriedOnce(monitors'[u], o) ELSE CarriedNever(monitors'[u], o)
  <2>1. CASE u = t
    BY <1>2, <2>1
  <2>2. CASE u # t
    <3>1. mut_'[o] = u <=> mut_[o] = u
      BY <2>2, MonitorsAssumption
    <3> QED BY <1>2, <2>2, <3>1 DEF MonitorInv
  <2> QED BY <2>1, <2>2
<1>4. \A u \in Owners : OwnLock(monitors'[u])
  BY <1>2 DEF MonitorInv
<1>5. \A u \in Owners : wants'[u] # Null => Len(monitors'[u]) < MaxMonitors
  BY <1>2 DEF MonitorInv
<1> QED
  BY <1>1, <1>3, <1>4, <1>5 DEF MonitorInv, CarriedOnce, CarriedNever, OwnLock

LEMMA MonitorLocked == ASSUME MonitorInv, NEW t \in Owners, D!Locked(t) PROVE MonitorInv'
<1> DEFINE ms == monitors[t]
           m == [lock |-> wants[t], object |-> wants[t], mixed |-> FALSE]
           ns == Append(ms, m)
<1>1. wants[t] \in Objects /\ mut_[wants[t]] = NoThread
  BY DEF MonitorInv, D!TypeOK, D!Locked
<1>2. ms \in Seq(D!Monitor) /\ Len(ms) < MaxMonitors /\ m \in D!Monitor
  BY <1>1 DEF MonitorInv, D!TypeOK, D!Locked, D!Monitor
<1>3. /\ ns \in Seq(D!Monitor) /\ Len(ns) =< MaxMonitors
      /\ DOMAIN ns = DOMAIN ms \cup {Len(ms) + 1} /\ Len(ms) + 1 \notin DOMAIN ms
      /\ \A k \in DOMAIN ns : ns[k] = IF k = Len(ms) + 1 THEN m ELSE ms[k]
  BY <1>2, MonitorsAssumption
<1>4. OwnLock(ns)
  BY <1>3 DEF OwnLock, MonitorInv
<1>5. ASSUME NEW o \in Objects
      PROVE  IF mut_'[o] = t THEN CarriedOnce(ns, o) ELSE CarriedNever(ns, o)
  <2>1. CASE o = wants[t]
    <3>1. CarriedNever(ms, o)
      BY <1>1, <2>1, MonitorsAssumption DEF MonitorInv
    <3>2. CarriedOnce(ns, o)
      BY <1>3, <2>1, <3>1 DEF CarriedOnce, CarriedNever
    <3> QED BY <1>1, <2>1, <3>2 DEF D!Locked, MonitorInv, D!TypeOK
  <2>2. CASE o # wants[t]
    <3>1. mut_'[o] = mut_[o]
      BY <2>2 DEF D!Locked, MonitorInv, D!TypeOK
    <3>2. /\ CarriedOnce(ms, o) => CarriedOnce(ns, o)
          /\ CarriedNever(ms, o) => CarriedNever(ns, o)
      BY <1>3, <2>2 DEF CarriedOnce, CarriedNever
    <3> QED BY <3>1, <3>2 DEF MonitorInv
  <2> QED BY <2>1, <2>2
<1>6. /\ monitors' = [monitors EXCEPT ![t] = ns]
      /\ wants' \in [Owners -> Objects \cup {Null}] /\ mut_' \in [Objects -> Owners \cup {NoThread}]
      /\ \A o \in Objects : mut_'[o] = mut_[o] \/ {mut_[o], mut_'[o]} \subseteq {t, NoThread}
      /\ \A u \in Owners : wants'[u] # Null => u # t /\ wants[u] # Null
  BY <1>1 DEF D!Locked, MonitorInv, D!TypeOK
<1> QED
  <2> HIDE DEF ns
  <2> QED BY <1>3, <1>4, <1>5, <1>6, MonitorStep

\* One element of a sequence is replaced.
LEMMA ReplaceOne ==
  ASSUME NEW S, NEW s \in Seq(S), NEW i \in DOMAIN s, NEW e \in S
  PROVE  /\ [s EXCEPT ![i] = e] \in Seq(S)
         /\ DOMAIN [s EXCEPT ![i] = e] = DOMAIN s /\ Len([s EXCEPT ![i] = e]) = Len(s)
         /\ \A j \in DOMAIN s : [s EXCEPT ![i] = e][j] = IF j = i THEN e ELSE s[j]
OBVIOUS

LEMMA MonitorMoved ==
  ASSUME MonitorInv, NEW t \in Owners, NEW k \in 1..MaxMonitors, D!move(t, k)
  PROVE  MonitorInv'
<1> DEFINE ms == monitors[t]
           ls == [ms EXCEPT ![k].lock = Null]
           ns == Append(ls, ms[k])
<1>1. ms \in Seq(D!Monitor) /\ Len(ms) < MaxMonitors /\ k \in DOMAIN ms
  BY DEF MonitorInv, D!TypeOK, D!move
<1>2. /\ ls \in Seq(D!Monitor) /\ Len(ls) = Len(ms)
      /\ \A i \in DOMAIN ms : ls[i] = IF i = k THEN [ms[k] EXCEPT !.lock = Null] ELSE ms[i]
  <2>1. ls = [ms EXCEPT ![k] = [ms[k] EXCEPT !.lock = Null]]
    BY <1>1
  <2>2. ms[k] \in D!Monitor
    BY <1>1
  <2>3. [ms[k] EXCEPT !.lock = Null] \in D!Monitor
    BY <2>2 DEF D!Monitor
  <2> QED BY <1>1, <2>1, <2>3, ReplaceOne
<1>3. /\ ns \in Seq(D!Monitor) /\ Len(ns) =< MaxMonitors
      /\ DOMAIN ns = DOMAIN ms \cup {Len(ms) + 1} /\ Len(ms) + 1 \notin DOMAIN ms
      /\ \A i \in DOMAIN ms : ns[i] = IF i = k THEN [ms[k] EXCEPT !.lock = Null] ELSE ms[i]
      /\ ns[Len(ms) + 1] = ms[k]
  <2> HIDE DEF ls
  <2> QED BY <1>1, <1>2, MonitorsAssumption
<1> HIDE DEF ls, ns
<1>4. [ms[k] EXCEPT !.lock = Null].lock = Null
  BY <1>1 DEF D!Monitor
<1>5. OwnLock(ms)
  BY DEF MonitorInv
<1>6. OwnLock(ns)
  BY <1>1, <1>3, <1>4, <1>5 DEF OwnLock
<1>7. ASSUME NEW o \in Objects
      PROVE  IF mut_'[o] = t THEN CarriedOnce(ns, o) ELSE CarriedNever(ns, o)
  <2>1. ASSUME CarriedOnce(ms, o) PROVE CarriedOnce(ns, o)
    <3>1. PICK i \in DOMAIN ms : ms[i].lock = o /\ \A h \in DOMAIN ms : ms[h].lock = o => h = i
      BY <2>1 DEF CarriedOnce
    <3>2. CASE i = k
      <4>1. ns[Len(ms) + 1].lock = o /\ \A h \in DOMAIN ns : ns[h].lock = o => h = Len(ms) + 1
        BY <1>1, <1>3, <1>4, <3>1, <3>2, MonitorsAssumption
      <4> QED BY <1>3, <4>1 DEF CarriedOnce
    <3>3. CASE i # k
      <4>1. ns[i].lock = o /\ \A h \in DOMAIN ns : ns[h].lock = o => h = i
        BY <1>1, <1>3, <1>4, <3>1, <3>3, MonitorsAssumption
      <4> QED BY <1>3, <3>1, <4>1 DEF CarriedOnce
    <3> QED BY <3>2, <3>3
  <2>2. ASSUME CarriedNever(ms, o) PROVE CarriedNever(ns, o)
    BY <1>1, <1>3, <1>4, <2>2, MonitorsAssumption DEF CarriedNever
  <2> QED BY <2>1, <2>2 DEF MonitorInv, D!move
<1>8. monitors' = [monitors EXCEPT ![t] = ns]
  BY DEF D!move, MonitorInv, D!TypeOK, ls, ns
<1>9. /\ wants' \in [Owners -> Objects \cup {Null}] /\ mut_' \in [Objects -> Owners \cup {NoThread}]
      /\ \A o \in Objects : mut_'[o] = mut_[o] \/ {mut_[o], mut_'[o]} \subseteq {t, NoThread}
      /\ \A u \in Owners : wants'[u] # Null => u # t /\ wants[u] # Null
  BY DEF D!move, MonitorInv, D!TypeOK
<1> QED
  BY <1>3, <1>6, <1>7, <1>8, <1>9, MonitorStep

LEMMA MonitorSwapped ==
  ASSUME MonitorInv, NEW t \in Owners, NEW j \in 1..MaxMonitors, NEW k \in 1..MaxMonitors, D!swap(t, j, k)
  PROVE  MonitorInv'
<1> DEFINE ms == monitors[t]
           ns == D!Swapped(ms, j, k)
<1>1. ms \in Seq(D!Monitor) /\ Len(ms) =< MaxMonitors /\ {j, k} \subseteq DOMAIN ms /\ j # k
  BY DEF MonitorInv, D!TypeOK, D!swap
<1> DEFINE new(i) == [ms[i] EXCEPT !.lock = ms[IF i = j THEN k ELSE j].lock, !.mixed = D!Mixes(ms, j, k)]
<1>2. ns = [[ms EXCEPT ![j] = new(j)] EXCEPT ![k] = new(k)]
  BY <1>1 DEF D!Swapped, D!Monitor
<1>3. ASSUME NEW i \in {j, k}
      PROVE  /\ new(i) \in D!Monitor /\ new(i).lock = ms[IF i = j THEN k ELSE j].lock
             /\ new(i).lock \in {Null, new(i).object} \/ new(i).mixed
  <2>1. ms[j] \in D!Monitor /\ ms[k] \in D!Monitor
    BY <1>1
  <2>2. \A h \in {j, k} : ms[h].lock \in {Null, ms[h].object} \/ ms[h].mixed
    BY <1>1 DEF MonitorInv, OwnLock
  <2>3. D!Mixes(ms, j, k) \in BOOLEAN
    BY DEF D!Mixes
  <2>4. D!Mixes(ms, j, k) \/ (ms[j].object = ms[k].object /\ \A h \in {j, k} : ms[h].lock \in {Null, ms[j].object})
    BY <2>2 DEF D!Mixes
  <2> DEFINE h == IF i = j THEN k ELSE j
             mix == D!Mixes(ms, j, k)
  <2>5. ms[i] \in D!Monitor /\ ms[h] \in D!Monitor /\ mix \in BOOLEAN
        /\ (mix \/ (ms[i].object = ms[j].object /\ ms[h].lock \in {Null, ms[j].object}))
    BY <2>1, <2>3, <2>4
  <2> HIDE DEF h, mix
  <2>6. [ms[i] EXCEPT !.lock = ms[h].lock, !.mixed = mix] \in D!Monitor
        /\ [ms[i] EXCEPT !.lock = ms[h].lock, !.mixed = mix].lock = ms[h].lock
        /\ [ms[i] EXCEPT !.lock = ms[h].lock, !.mixed = mix].object = ms[i].object
        /\ [ms[i] EXCEPT !.lock = ms[h].lock, !.mixed = mix].mixed = mix
    BY <2>5 DEF D!Monitor
  <2> QED BY <2>5, <2>6 DEF h, mix
<1>4. /\ ns \in Seq(D!Monitor) /\ DOMAIN ns = DOMAIN ms /\ Len(ns) = Len(ms)
      /\ \A i \in DOMAIN ms : ns[i] = IF i \in {j, k} THEN new(i) ELSE ms[i]
  <2> HIDE DEF ms, ns, new
  <2>1. new(j) \in D!Monitor /\ new(k) \in D!Monitor
    BY <1>3
  <2> QED BY <1>1, <1>2, <2>1, ReplaceOne
<1>5. OwnLock(ms)
  BY DEF MonitorInv
<1> HIDE DEF ns, new
<1>6. OwnLock(ns)
  BY <1>1, <1>3, <1>4, <1>5 DEF OwnLock
<1>7. ASSUME NEW o \in Objects
      PROVE  IF mut_'[o] = t THEN CarriedOnce(ns, o) ELSE CarriedNever(ns, o)
  <2>1. CarriedNever(ms, o) => CarriedNever(ns, o)
    BY <1>1, <1>3, <1>4 DEF CarriedNever
  <2>2. ASSUME CarriedOnce(ms, o) PROVE CarriedOnce(ns, o)
    <3>1. PICK i \in DOMAIN ms : ms[i].lock = o /\ \A h \in DOMAIN ms : ms[h].lock = o => h = i
      BY <2>2 DEF CarriedOnce
    <3> DEFINE x == IF i = j THEN k ELSE IF i = k THEN j ELSE i
    <3>2. x \in DOMAIN ns /\ ns[x].lock = o /\ \A h \in DOMAIN ns : ns[h].lock = o => h = x
      BY <1>1, <1>3, <1>4, <3>1
    <3> QED BY <3>2 DEF CarriedOnce
  <2> QED BY <2>1, <2>2 DEF MonitorInv, D!swap
<1>8. /\ monitors' = [monitors EXCEPT ![t] = ns]
      /\ wants' \in [Owners -> Objects \cup {Null}] /\ mut_' \in [Objects -> Owners \cup {NoThread}]
      /\ \A o \in Objects : mut_'[o] = mut_[o] \/ {mut_[o], mut_'[o]} \subseteq {t, NoThread}
      /\ \A u \in Owners : wants'[u] # Null => u # t /\ wants[u] # Null
  BY DEF D!swap, MonitorInv, D!TypeOK, ns
<1> QED
  BY <1>1, <1>4, <1>6, <1>7, <1>8, MonitorStep

\* What the lock that goes leaves: only the mutex of its object changes, and it was locked by the thread.
LEMMA MonitorReleased ==
  ASSUME MonitorInv, NEW t \in Owners, NEW k \in DOMAIN monitors[t],
         mut_' = D!Released(monitors[t][k].lock)
  PROVE  /\ mut_' \in [Objects -> Owners \cup {NoThread}]
         /\ \A o \in Objects : /\ o = monitors[t][k].lock => mut_[o] = t /\ mut_'[o] = NoThread
                               /\ o # monitors[t][k].lock => mut_'[o] = mut_[o]
BY DEF MonitorInv, D!TypeOK, D!Released, CarriedNever

LEMMA MonitorAssigned ==
  ASSUME MonitorInv, NEW t \in Owners, NEW j \in 1..MaxMonitors, NEW k \in 1..MaxMonitors, D!assign(t, j, k)
  PROVE  MonitorInv'
<1> DEFINE ms == monitors[t]
           to == [ms[j] EXCEPT !.lock = ms[k].lock, !.mixed = D!Mixes(ms, j, k)]
           from == [ms[k] EXCEPT !.lock = Null]
           ns == D!Assigned(ms, j, k)
<1>1. ms \in Seq(D!Monitor) /\ Len(ms) =< MaxMonitors /\ {j, k} \subseteq DOMAIN ms /\ j # k
  BY DEF MonitorInv, D!TypeOK, D!assign
<1>2. monitors' = [monitors EXCEPT ![t] = ns] /\ ns = [[ms EXCEPT ![j] = to] EXCEPT ![k] = from]
  <2>1. monitors' = [monitors EXCEPT ![t] = ns]
    BY DEF D!assign
  <2> HIDE DEF ms
  <2>2. ns = [[ms EXCEPT ![j] = to] EXCEPT ![k] = from]
    BY <1>1 DEF D!Assigned, D!Monitor
  <2> QED BY <2>1, <2>2
<1>3. /\ to \in D!Monitor /\ to.lock = ms[k].lock /\ (to.lock \in {Null, to.object} \/ to.mixed)
      /\ from \in D!Monitor /\ from.lock = Null
  <2>1. ms[j] \in D!Monitor /\ ms[k] \in D!Monitor
    BY <1>1
  <2>2. ms[k].lock \in {Null, ms[k].object} \/ ms[k].mixed
    BY <1>1 DEF MonitorInv, OwnLock
  <2>3. D!Mixes(ms, j, k) \in BOOLEAN
    BY DEF D!Mixes
  <2>4. D!Mixes(ms, j, k) \/ (ms[j].object = ms[k].object /\ ms[k].lock \in {Null, ms[j].object})
    BY <2>2 DEF D!Mixes
  <2> DEFINE mix == D!Mixes(ms, j, k)
  <2> HIDE DEF mix
  <2> QED BY <2>1, <2>3, <2>4 DEF D!Monitor, mix
<1> HIDE DEF to, from
<1>4. /\ ns \in Seq(D!Monitor) /\ DOMAIN ns = DOMAIN ms /\ Len(ns) = Len(ms)
      /\ \A i \in DOMAIN ms : ns[i] = IF i = k THEN from ELSE IF i = j THEN to ELSE ms[i]
  <2> HIDE DEF ms, ns
  <2> QED BY <1>1, <1>2, <1>3, ReplaceOne
<1> HIDE DEF ns
<1>5. OwnLock(ms)
  BY DEF MonitorInv
<1>6. OwnLock(ns)
  BY <1>1, <1>3, <1>4, <1>5 DEF OwnLock
<1>7. /\ mut_' \in [Objects -> Owners \cup {NoThread}]
      /\ \A o \in Objects : /\ o = ms[j].lock => mut_[o] = t /\ mut_'[o] = NoThread
                            /\ o # ms[j].lock => mut_'[o] = mut_[o]
  BY <1>1, MonitorReleased DEF D!assign
<1>8. ASSUME NEW o \in Objects
      PROVE  IF mut_'[o] = t THEN CarriedOnce(ns, o) ELSE CarriedNever(ns, o)
  <2>1. CASE o = ms[j].lock
    <3>1. CarriedOnce(ms, o)
      BY <1>7, <2>1 DEF MonitorInv
    <3>2. CarriedNever(ns, o)
      BY <1>1, <1>3, <1>4, <2>1, <3>1, MonitorsAssumption DEF CarriedOnce, CarriedNever
    <3> QED BY <1>7, <2>1, <3>2, MonitorsAssumption
  <2>2. ASSUME o # ms[j].lock, CarriedOnce(ms, o) PROVE CarriedOnce(ns, o)
    <3>1. PICK i \in DOMAIN ms : ms[i].lock = o /\ \A h \in DOMAIN ms : ms[h].lock = o => h = i
      BY <2>2 DEF CarriedOnce
    <3> DEFINE x == IF i = k THEN j ELSE i
    <3>2. x \in DOMAIN ns /\ ns[x].lock = o /\ \A h \in DOMAIN ns : ns[h].lock = o => h = x
      BY <1>1, <1>3, <1>4, <2>2, <3>1, MonitorsAssumption
    <3> QED BY <3>2 DEF CarriedOnce
  <2>3. CarriedNever(ms, o) => CarriedNever(ns, o)
    BY <1>1, <1>3, <1>4, MonitorsAssumption DEF CarriedNever
  <2> QED BY <1>7, <2>1, <2>2, <2>3 DEF MonitorInv
<1>9. /\ wants' \in [Owners -> Objects \cup {Null}]
      /\ \A o \in Objects : mut_'[o] = mut_[o] \/ {mut_[o], mut_'[o]} \subseteq {t, NoThread}
      /\ \A u \in Owners : wants'[u] # Null => u # t /\ wants[u] # Null
  BY <1>7 DEF D!assign, MonitorInv, D!TypeOK
<1> QED
  BY <1>1, <1>2, <1>4, <1>6, <1>7, <1>8, <1>9, MonitorStep

LEMMA MonitorDestroyed == ASSUME MonitorInv, NEW t \in Owners, D!Destroy(t) PROVE MonitorInv'
<1> DEFINE ms == monitors[t]
           ns == SubSeq(ms, 1, Len(ms) - 1)
<1>1. /\ ms \in Seq(D!Monitor) /\ Len(ms) =< MaxMonitors /\ Len(ms) \in DOMAIN ms
  BY DEF MonitorInv, D!TypeOK, D!Destroy
<1>2. /\ ns \in Seq(D!Monitor) /\ DOMAIN ns = DOMAIN ms \ {Len(ms)} /\ Len(ns) =< MaxMonitors
      /\ \A i \in DOMAIN ns : ns[i] = ms[i]
  BY <1>1, MonitorsAssumption
<1> HIDE DEF ns
<1>3. OwnLock(ns)
  BY <1>2 DEF OwnLock, MonitorInv
<1>4. /\ mut_' \in [Objects -> Owners \cup {NoThread}]
      /\ \A o \in Objects : /\ o = ms[Len(ms)].lock => mut_[o] = t /\ mut_'[o] = NoThread
                            /\ o # ms[Len(ms)].lock => mut_'[o] = mut_[o]
  BY <1>1, MonitorReleased DEF D!Destroy
<1>5. ASSUME NEW o \in Objects
      PROVE  IF mut_'[o] = t THEN CarriedOnce(ns, o) ELSE CarriedNever(ns, o)
  <2>1. CASE o = ms[Len(ms)].lock
    <3>1. CarriedOnce(ms, o)
      BY <1>4, <2>1 DEF MonitorInv
    <3>2. CarriedNever(ns, o)
      BY <1>1, <1>2, <2>1, <3>1 DEF CarriedOnce, CarriedNever
    <3> QED BY <1>4, <2>1, <3>2, MonitorsAssumption
  <2>2. CASE o # ms[Len(ms)].lock
    <3>1. CarriedOnce(ms, o) => CarriedOnce(ns, o)
      BY <1>1, <1>2, <2>2 DEF CarriedOnce
    <3>2. CarriedNever(ms, o) => CarriedNever(ns, o)
      BY <1>1, <1>2 DEF CarriedNever
    <3> QED BY <1>4, <2>2, <3>1, <3>2 DEF MonitorInv
  <2> QED BY <2>1, <2>2
<1>6. /\ monitors' = [monitors EXCEPT ![t] = ns]
      /\ wants' \in [Owners -> Objects \cup {Null}]
      /\ \A o \in Objects : mut_'[o] = mut_[o] \/ {mut_[o], mut_'[o]} \subseteq {t, NoThread}
      /\ \A u \in Owners : wants'[u] # Null => u # t /\ wants[u] # Null
  BY <1>4 DEF D!Destroy, MonitorInv, D!TypeOK, ns
<1> QED
  BY <1>2, <1>3, <1>4, <1>5, <1>6, MonitorStep

LEMMA MonitorNext == MonitorInv /\ [D!Next]_monitorVars => MonitorInv'
<1> SUFFICES ASSUME MonitorInv, [D!Next]_monitorVars PROVE MonitorInv'
  OBVIOUS
<1>1. ASSUME NEW t \in Owners, NEW o \in Objects, D!monitor(t, o) PROVE MonitorInv'
  BY <1>1 DEF D!monitor, MonitorInv, D!TypeOK
<1>2. CASE UNCHANGED monitorVars
  BY <1>2 DEF monitorVars, MonitorInv, D!TypeOK
<1> QED
  BY <1>1, <1>2, MonitorLocked, MonitorMoved, MonitorSwapped, MonitorAssigned, MonitorDestroyed DEF D!Next

LEMMA MonitorInvariant == Spec => []MonitorInv
<1>1. Init => MonitorInv
  BY MonitorInit DEF Init
<1>2. MonitorInv /\ [Next]_vars => MonitorInv'
  BY StepOfEach, MonitorNext
<1> QED
  BY <1>1, <1>2, PTL DEF Spec

(***************************************************************************)
(* The mutex of an object is locked by a thread exactly while one of its   *)
(* monitors carries the lock, however they are moved, swapped, assigned    *)
(* and destroyed, for any number of threads, objects and monitors.         *)
(***************************************************************************)
THEOREM LocksAreCarriedOnce == Spec => []LocksFollowMonitors
BY MonitorInvariant, MonitorsFollow, PTL

-----------------------------------------------------------------------------
(***************************************************************************)
(* The events.  The invariant says what keeps a deleter's index right: the *)
(* handlers of a state never move or go, each was added once and a deleter *)
(* names the one it was returned for; and what keeps a loop of fire()      *)
(* right: it never gets past the end it started with, and the handler that *)
(* is running was counted as called; none was called late.                *)
(***************************************************************************)
Entries == [on : BOOLEAN, handler : 1..MaxAdds]
Fires == [state : Events, next : Nat \ {0}, running : BOOLEAN, called : SUBSET (1..MaxAdds),
          late : SUBSET (1..MaxAdds), end : Nat]

OneOwner == \A e, d \in Events : state_ptr_[e] = state_ptr_[d] => e = d \/ state_ptr_[e] = "null"

AddedOnce ==
  /\ removed \subseteq 1..added
  /\ \A s \in Events : states[s].cntr =< added /\ \A k \in DOMAIN states[s].handlers : states[s].handlers[k].handler =< added
  /\ \A s, r \in Events : \A k \in DOMAIN states[s].handlers, j \in DOMAIN states[r].handlers :
       states[s].handlers[k].handler = states[r].handlers[j].handler => s = r /\ k = j

DeletersName ==
  \A d \in deleters : d.id \in DOMAIN states[d.state].handlers /\ states[d.state].handlers[d.id].handler = d.handler

OnUntilRemoved ==
  \A s \in Events : \A k \in DOMAIN states[s].handlers : states[s].handlers[k].on <=> states[s].handlers[k].handler \notin removed

FirePasses(f, hs) ==
  /\ f.next =< f.end + 1 /\ f.end =< Len(hs) /\ f.late = {}
  /\ f.running => f.next =< f.end /\ hs[f.next].handler \in f.called
  /\ \A n \in 1..(f.next - 1) : hs[n].on => hs[n].handler \in f.called

EventInv ==
  /\ E!TypeOK /\ fires \in Seq(Fires)
  /\ OneOwner /\ AddedOnce /\ DeletersName /\ OnUntilRemoved
  /\ \A k \in DOMAIN fires : FirePasses(fires[k], states[fires[k].state].handlers)

LEMMA EventsRemovedOrCalled == EventInv => E!RemovedOrCalled
<1> SUFFICES ASSUME EventInv PROVE E!RemovedOrCalled
  OBVIOUS
<1>1. E!RemovedOrCalled!1
  BY DEF EventInv, OnUntilRemoved
<1>2. E!RemovedOrCalled!2
  BY DEF EventInv, FirePasses
<1> QED
  BY <1>1, <1>2 DEF E!RemovedOrCalled

LEMMA EventInit == E!Init => EventInv
<1> SUFFICES ASSUME E!Init PROVE EventInv
  OBVIOUS
<1> USE EventsAssumption
<1>1. [live |-> TRUE, cntr |-> 0, handlers |-> <<>>] \in E!State
  BY DEF E!State
<1>2. fires \in Seq(Fires) /\ fires = <<>> /\ Len(fires) =< MaxFires
  BY DEF E!Init
<1>3. E!TypeOK
  <2>1. states \in [Events -> E!State] /\ added \in 0..MaxAdds /\ removed \subseteq 1..MaxAdds
    BY <1>1 DEF E!Init
  <2>2. /\ state_ptr_ \in [Events -> Events \cup {"null"}] /\ stopped \in BOOLEAN
        /\ \A e \in Events : states[state_ptr_[e]].live
    BY DEF E!Init
  <2>3. deleters \subseteq [state : Events, id : 1..MaxAdds, handler : 1..MaxAdds]
    BY DEF E!Init
  <2> QED BY <1>2, <2>1, <2>2, <2>3 DEF E!TypeOK
<1>4. \A s \in Events : states[s].handlers = <<>> /\ states[s].cntr = 0
  BY DEF E!Init
<1>5. OneOwner /\ AddedOnce /\ DeletersName /\ OnUntilRemoved
  BY <1>4 DEF E!Init, OneOwner, AddedOnce, DeletersName, OnUntilRemoved
<1> QED
  BY <1>2, <1>3, <1>5 DEF EventInv

\* A loop of fire() that is right stays so when handlers are added at the end or turned off.
LEMMA FirePassesKept ==
  ASSUME NEW f \in Fires, NEW T, NEW hs \in Seq(T), NEW hs2 \in Seq(T), FirePasses(f, hs), Len(hs) =< Len(hs2),
         \A n \in DOMAIN hs : hs2[n].handler = hs[n].handler /\ (hs2[n].on => hs[n].on)
  PROVE  FirePasses(f, hs2)
<1>1. f.next \in Nat \ {0} /\ f.end \in Nat /\ f.next =< f.end + 1 /\ f.end =< Len(hs2) /\ f.late = {}
  BY DEF Fires, FirePasses
<1>2. 1..f.end \subseteq DOMAIN hs
  BY <1>1 DEF FirePasses
<1>3. ASSUME f.running PROVE f.next =< f.end /\ hs2[f.next].handler \in f.called
  <2>1. f.next =< f.end /\ hs[f.next].handler \in f.called
    BY <1>3 DEF FirePasses
  <2>2. f.next \in DOMAIN hs
    BY <1>1, <1>2, <2>1
  <2> QED BY <2>1, <2>2
<1>4. ASSUME NEW n \in 1..(f.next - 1), hs2[n].on PROVE hs2[n].handler \in f.called
  <2>1. n \in 1..f.end
    BY <1>1
  <2>2. n \in DOMAIN hs
    BY <1>2, <2>1
  <2>3. hs[n].on
    BY <1>4, <2>2
  <2>4. hs[n].handler \in f.called
    BY <2>3 DEF FirePasses
  <2> QED BY <2>2, <2>4
<1> QED
  BY <1>1, <1>3, <1>4 DEF FirePasses

LEMMA HandlersType ==
  ASSUME E!TypeOK, NEW s \in Events
  PROVE  /\ states[s].handlers \in Seq(Entries) /\ states[s].cntr \in 0..MaxAdds
         /\ states[s] \in E!State
         /\ \A k \in DOMAIN states[s].handlers : /\ states[s].handlers[k] \in Entries
                                         /\ states[s].handlers[k].handler \in 1..MaxAdds
<1>1. states[s] \in E!State
  BY DEF E!TypeOK
<1>2. states[s].handlers \in Seq(Entries) /\ states[s].cntr \in 0..MaxAdds
  BY <1>1 DEF E!State, Entries
<1>3. \A k \in DOMAIN states[s].handlers : states[s].handlers[k] \in Entries
  BY <1>2
<1> QED
  BY <1>1, <1>2, <1>3 DEF Entries

LEMMA FiresType == ASSUME EventInv, NEW k \in DOMAIN fires PROVE fires[k] \in Fires /\ fires[k].state \in Events
<1>1. fires[k] \in Fires
  BY DEF EventInv
<1> QED
  BY <1>1 DEF Fires

\* The program stops, or add() is only counted.
LEMMA EventStopped ==
  ASSUME EventInv, UNCHANGED <<state_ptr_, states, deleters, fires, removed>>,
         stopped' \in BOOLEAN, added' \in added..MaxAdds
  PROVE  EventInv'
<1>1. added \in Nat /\ added' \in 0..MaxAdds /\ added =< added'
  BY EventsAssumption DEF EventInv, E!TypeOK
<1>2. E!TypeOK'
  BY <1>1 DEF EventInv, E!TypeOK
<1>3. AddedOnce'
  <2>1. \A s \in Events : states[s].cntr \in Nat /\ \A k \in DOMAIN states[s].handlers : states[s].handlers[k].handler \in Nat
    BY HandlersType, EventsAssumption DEF EventInv
  <2> QED BY <1>1, <2>1 DEF EventInv, AddedOnce
<1> QED
  BY <1>2, <1>3 DEF EventInv, OneOwner, DeletersName, OnUntilRemoved

\* Only the loops of fire() change.
LEMMA EventLoops ==
  ASSUME EventInv, UNCHANGED <<state_ptr_, states, deleters, added, removed, stopped>>,
         fires' \in Seq(Fires), Len(fires') =< MaxFires,
         \A k \in DOMAIN fires' : FirePasses(fires'[k], states[fires'[k].state].handlers)
  PROVE  EventInv'
<1>1. E!TypeOK'
  BY DEF EventInv, E!TypeOK
<1> QED
  BY <1>1 DEF EventInv, OneOwner, AddedOnce, DeletersName, OnUntilRemoved

\* The innermost loop goes on as g.
LEMMA EventTop ==
  ASSUME EventInv, UNCHANGED <<state_ptr_, states, deleters, added, removed, stopped>>, fires # <<>>,
         NEW g \in Fires, fires' = [fires EXCEPT ![Len(fires)] = g], FirePasses(g, states[g.state].handlers)
  PROVE  EventInv'
<1>1. fires \in Seq(Fires) /\ Len(fires) \in DOMAIN fires /\ Len(fires) =< MaxFires
  BY DEF EventInv, E!TypeOK
<1>2. /\ fires' \in Seq(Fires) /\ DOMAIN fires' = DOMAIN fires /\ Len(fires') = Len(fires)
      /\ \A j \in DOMAIN fires : fires'[j] = IF j = Len(fires) THEN g ELSE fires[j]
  BY <1>1, ReplaceOne
<1>3. \A k \in DOMAIN fires' : FirePasses(fires'[k], states[fires'[k].state].handlers)
  BY <1>2 DEF EventInv
<1> QED
  BY <1>1, <1>2, <1>3, EventLoops

\* The types of the innermost loop and of the handler it is at.
LEMMA EventTopType ==
  ASSUME EventInv, fires # <<>>
  PROVE  /\ E!Top \in Fires /\ FirePasses(E!Top, states[E!Top.state].handlers)
         /\ states[E!Top.state].handlers \in Seq(Entries)
<1>1. Len(fires) \in DOMAIN fires
  BY DEF EventInv
<1>2. fires[Len(fires)] \in Fires
  BY <1>1 DEF EventInv
<1>3. fires[Len(fires)].state \in Events
  BY <1>2 DEF Fires
<1>4. \A s \in Events : states[s].handlers \in Seq(Entries)
  BY HandlersType DEF EventInv
<1> QED
  BY <1>1, <1>2, <1>3, <1>4 DEF EventInv, E!Top

LEMMA EventFire == ASSUME EventInv, NEW e \in Events, E!fire(e) PROVE EventInv'
<1>1. CASE state_ptr_[e] = "null"
  BY <1>1, EventStopped, EventsAssumption DEF E!fire, E!Stop, EventInv, E!TypeOK
<1>2. CASE state_ptr_[e] # "null"
  <2> DEFINE s == state_ptr_[e]
             f == [state |-> s, next |-> 1, running |-> FALSE, called |-> {}, late |-> {},
                   end |-> Len(states[s].handlers)]
  <2>1. s \in Events /\ states[s].handlers \in Seq(Entries)
    BY <1>2, HandlersType DEF EventInv, E!TypeOK
  <2>2. f \in Fires /\ FirePasses(f, states[f.state].handlers)
    BY <2>1 DEF Fires, FirePasses
  <2>3. fires' = Append(fires, f) /\ Len(fires) < MaxFires /\ fires \in Seq(Fires)
        /\ UNCHANGED <<state_ptr_, states, deleters, added, removed, stopped>>
    BY <1>2 DEF E!fire, EventInv
  <2> HIDE DEF f
  <2>4. /\ fires' \in Seq(Fires) /\ Len(fires') =< MaxFires
        /\ \A k \in DOMAIN fires' : (k \in DOMAIN fires /\ fires'[k] = fires[k]) \/ fires'[k] = f
    BY <2>2, <2>3, EventsAssumption
  <2>5. \A k \in DOMAIN fires' : FirePasses(fires'[k], states[fires'[k].state].handlers)
    BY <2>2, <2>4 DEF EventInv
  <2> QED BY <2>3, <2>4, <2>5, EventLoops
<1> QED BY <1>1, <1>2

LEMMA EventCallNext == ASSUME EventInv, E!CallNext PROVE EventInv'
<1> DEFINE f == E!Top
           h == states[f.state].handlers[f.next]
<1>1. /\ f \in Fires /\ FirePasses(f, states[f.state].handlers) /\ ~f.running /\ f.next =< f.end
      /\ states[f.state].handlers \in Seq(Entries)
  BY EventTopType DEF E!CallNext
<1>2. f.next \in DOMAIN states[f.state].handlers /\ h \in Entries
  <2> HIDE DEF f
  <2>1. f.next \in DOMAIN states[f.state].handlers
    BY <1>1 DEF Fires, FirePasses
  <2> QED BY <1>1, <2>1
<1>3. CASE h.on
  <2> DEFINE g == E!Called(f, h)
  <2>1. /\ g \in Fires /\ g.state = f.state /\ g.next = f.next /\ g.end = f.end
        /\ g.called = f.called \cup {h.handler} /\ g.late = f.late
    <3>1. {h.handler} \cap removed = {}
      BY <1>1, <1>2, <1>3 DEF EventInv, OnUntilRemoved, Fires
    <3> HIDE DEF f, h
    <3> QED BY <1>1, <1>2, <3>1 DEF Fires, Entries, E!Called
  <2>2. FirePasses(g, states[g.state].handlers)
    <3> HIDE DEF f, g
    <3> QED BY <1>1, <2>1 DEF FirePasses
  <2>3. fires' = [fires EXCEPT ![Len(fires)] = g]
    BY <1>3 DEF E!CallNext, E!SetTop
  <2> QED
    <3> HIDE DEF f, g
    <3>1. fires # <<>> /\ UNCHANGED <<state_ptr_, states, deleters, added, removed, stopped>>
      BY DEF E!CallNext
    <3> QED BY <2>1, <2>2, <2>3, <3>1, EventTop, Zenon
<1>4. CASE ~h.on
  <2> DEFINE g == [f EXCEPT !.next = @ + 1]
  <2>1. /\ g \in Fires /\ g.state = f.state /\ g.next = f.next + 1 /\ g.end = f.end
        /\ g.called = f.called /\ g.running = f.running /\ g.late = f.late
    <3> HIDE DEF f
    <3>1. f.next \in Nat /\ f.next + 1 \in Nat \ {0}
      BY <1>1 DEF Fires
    <3> QED BY <1>1, <3>1 DEF Fires
  <2>2. FirePasses(g, states[g.state].handlers)
    <3> HIDE DEF f, g
    <3>1. \A n \in 1..(g.next - 1) : n \in 1..(f.next - 1) \/ n = f.next
      BY <1>1, <2>1 DEF Fires
    <3> QED BY <1>1, <1>4, <2>1, <3>1 DEF FirePasses, Fires
  <2>3. fires' = [fires EXCEPT ![Len(fires)] = g]
    BY <1>4 DEF E!CallNext, E!SetTop
  <2> QED
    <3> HIDE DEF f, g
    <3>1. fires # <<>> /\ UNCHANGED <<state_ptr_, states, deleters, added, removed, stopped>>
      BY DEF E!CallNext
    <3> QED BY <2>1, <2>2, <2>3, <3>1, EventTop, Zenon
<1> QED BY <1>3, <1>4

LEMMA EventHandlerReturns == ASSUME EventInv, E!HandlerReturns PROVE EventInv'
<1> DEFINE f == E!Top
           g == [f EXCEPT !.running = FALSE, !.next = @ + 1]
<1>1. /\ f \in Fires /\ FirePasses(f, states[f.state].handlers) /\ f.running
      /\ states[f.state].handlers \in Seq(Entries)
  <2>1. fires # <<>> /\ f.running
    BY DEF E!HandlerReturns, E!UserCode
  <2> QED BY <2>1, EventTopType
<1>2. /\ g \in Fires /\ g.state = f.state /\ g.next = f.next + 1 /\ g.end = f.end
      /\ g.called = f.called /\ g.late = f.late /\ ~g.running
  <2> HIDE DEF f
  <2>1. f.next \in Nat /\ f.next + 1 \in Nat \ {0}
    BY <1>1 DEF Fires
  <2> QED BY <1>1, <2>1 DEF Fires
<1>3. FirePasses(g, states[g.state].handlers)
  <2> HIDE DEF f, g
  <2>1. \A n \in 1..(g.next - 1) : n \in 1..(f.next - 1) \/ n = f.next
    BY <1>1, <1>2 DEF Fires
  <2> QED BY <1>1, <1>2, <2>1 DEF FirePasses, Fires
<1>4. fires' = [fires EXCEPT ![Len(fires)] = g]
  BY DEF E!HandlerReturns, E!SetTop
<1> QED
  <2> HIDE DEF f, g
  <2> QED BY <1>2, <1>3, <1>4, EventTop DEF E!HandlerReturns

LEMMA EventFireReturns == ASSUME EventInv, E!FireReturns PROVE EventInv'
<1>1. /\ fires' = SubSeq(fires, 1, Len(fires) - 1) /\ fires # <<>> /\ fires \in Seq(Fires) /\ Len(fires) =< MaxFires
      /\ UNCHANGED <<state_ptr_, states, deleters, added, removed, stopped>>
  BY DEF E!FireReturns, EventInv, E!TypeOK
<1>2. /\ fires' \in Seq(Fires) /\ Len(fires') =< MaxFires
      /\ \A k \in DOMAIN fires' : k \in DOMAIN fires /\ fires'[k] = fires[k]
  BY <1>1, EventsAssumption
<1>3. \A k \in DOMAIN fires' : FirePasses(fires'[k], states[fires'[k].state].handlers)
  BY <1>2 DEF EventInv
<1> QED
  BY <1>1, <1>2, <1>3, EventLoops

\* add() that returns a deleter: the new handler is the last one of its state.
Appended(s) ==
  /\ E!AssertsId(states[s]) /\ added < MaxAdds /\ added' = added + 1
  /\ states' = [states EXCEPT ![s].cntr = @ + 1, ![s].handlers = Append(@, [on |-> TRUE, handler |-> added'])]
  /\ deleters' = deleters \cup {[state |-> s, id |-> states[s].cntr + 1, handler |-> added']}
  /\ UNCHANGED <<state_ptr_, fires, removed, stopped>>

LEMMA EventAppended == ASSUME EventInv, NEW s \in Events, Appended(s) PROVE EventInv'
<1> DEFINE h == [on |-> TRUE, handler |-> added']
           st == [states[s] EXCEPT !.cntr = @ + 1, !.handlers = Append(@, h)]
<1>1. /\ added \in Nat /\ added' \in 1..MaxAdds /\ added' = added + 1
      /\ states[s] \in E!State
      /\ states[s].cntr =< added /\ states[s].cntr \in Nat /\ states[s].live \in BOOLEAN
  <2>1. added \in 0..MaxAdds /\ added < MaxAdds /\ added' = added + 1
    BY DEF EventInv, E!TypeOK, Appended
  <2>2. states[s] \in E!State /\ states[s].cntr \in 0..MaxAdds
    BY <2>1, HandlersType DEF EventInv
  <2>3. states[s].live \in BOOLEAN
    BY <2>2 DEF E!State
  <2>4. states[s].cntr =< added
    BY <2>1 DEF EventInv, AddedOnce
  <2> QED BY <2>1, <2>2, <2>3, <2>4, EventsAssumption
<1>2. h \in Entries /\ h.on /\ h.handler = added + 1
  BY <1>1 DEF Entries
<1>3. states' = [states EXCEPT ![s] = st]
  <2>1. states \in [Events -> E!State]
    BY DEF EventInv, E!TypeOK
  <2> HIDE DEF h
  <2> QED BY <1>1, <2>1 DEF E!State, h, Appended
<1>4. /\ states[s].handlers \in Seq(Entries) /\ Len(states[s].handlers) = states[s].cntr
      /\ \A r \in Events : states[r].handlers \in Seq(Entries)
  BY <1>1, HandlersType DEF EventInv, E!AssertsId, Appended
<1>5. /\ states'[s].handlers = Append(states[s].handlers, h)
      /\ \A r \in Events : r # s => states'[r].handlers = states[r].handlers
      /\ \A r \in Events : states'[r].live = states[r].live
      /\ \A r \in Events : states'[r].cntr = IF r = s THEN states[r].cntr + 1 ELSE states[r].cntr
  <2>1. /\ st.cntr = states[s].cntr + 1 /\ st.live = states[s].live
        /\ st.handlers = Append(states[s].handlers, h)
    <3> HIDE DEF h
    <3> QED BY <1>1 DEF E!State
  <2>2. \A r \in Events : states'[r] = IF r = s THEN st ELSE states[r]
    <3> HIDE DEF st
    <3> QED BY <1>3 DEF EventInv, E!TypeOK
  <2> HIDE DEF h, st
  <2> QED BY <1>1, <2>1, <2>2
<1>6. st \in E!State
  <2>1. Append(states[s].handlers, h) \in Seq([on : BOOLEAN, handler : 1..MaxAdds])
    <3> HIDE DEF h
    <3> QED BY <1>2, <1>4 DEF Entries
  <2>2. states[s].cntr + 1 \in 0..MaxAdds
    BY <1>1, EventsAssumption
  <2> HIDE DEF h
  <2> QED BY <1>1, <2>1, <2>2 DEF E!State
<1> HIDE DEF h, st
<1>7. /\ states'[s].handlers \in Seq(Entries) /\ Len(states'[s].handlers) = Len(states[s].handlers) + 1
      /\ states'[s].handlers[Len(states[s].handlers) + 1] = h
      /\ \A k \in DOMAIN states[s].handlers : k \in DOMAIN states'[s].handlers /\ states'[s].handlers[k] = states[s].handlers[k]
      /\ \A k \in DOMAIN states'[s].handlers : k \in DOMAIN states[s].handlers \/ k = Len(states[s].handlers) + 1
      /\ Len(states[s].handlers) + 1 \in DOMAIN states'[s].handlers
  <2> DEFINE hs == states[s].handlers
  <2>1. /\ hs \in Seq(Entries) /\ Len(hs) \in Nat
    BY <1>4
  <2> HIDE DEF hs
  <2>2. /\ Append(hs, h) \in Seq(Entries) /\ Len(Append(hs, h)) = Len(hs) + 1
        /\ DOMAIN hs = 1..Len(hs) /\ DOMAIN Append(hs, h) = 1..(Len(hs) + 1)
        /\ Append(hs, h)[Len(hs) + 1] = h
        /\ \A k \in DOMAIN hs : Append(hs, h)[k] = hs[k]
    BY <1>2, <2>1
  <2>3. states'[s].handlers = Append(hs, h)
    BY <1>5 DEF hs
  <2>4. /\ \A k \in DOMAIN hs : k \in DOMAIN Append(hs, h)
        /\ \A k \in DOMAIN Append(hs, h) : k \in DOMAIN hs \/ k = Len(hs) + 1
        /\ Len(hs) + 1 \in DOMAIN Append(hs, h)
    BY <2>1, <2>2
  <2> QED BY <2>2, <2>3, <2>4 DEF hs
<1>8. E!TypeOK'
  <2>1. states' \in [Events -> E!State]
    BY <1>1, <1>3, <1>6 DEF EventInv, E!TypeOK
  <2>2. deleters' \subseteq [state : Events, id : 1..MaxAdds, handler : 1..MaxAdds]
    <3>1. states[s].cntr + 1 \in 1..MaxAdds
      BY <1>1, EventsAssumption
    <3> QED BY <1>1, <3>1 DEF EventInv, E!TypeOK, Appended
  <2>3. \A d \in Events : state_ptr_'[d] # "null" => states'[state_ptr_'[d]].live
    BY <1>5 DEF EventInv, E!TypeOK, Appended
  <2> QED BY <1>1, <2>1, <2>2, <2>3, EventsAssumption DEF EventInv, E!TypeOK, Appended
<1>9. AddedOnce'
  <2>1. \A r \in Events : \A k \in DOMAIN states[r].handlers : states[r].handlers[k].handler \in 1..added
    BY <1>1, HandlersType, EventsAssumption DEF EventInv, AddedOnce
  <2>2. removed' \subseteq 1..added'
    BY <1>1 DEF EventInv, AddedOnce, Appended
  <2>3. \A r \in Events : states'[r].cntr =< added'
    <3>1. \A r \in Events : states[r].cntr \in Nat /\ states[r].cntr =< added
      BY HandlersType, EventsAssumption DEF EventInv, AddedOnce
    <3> QED BY <1>1, <1>5, <3>1
  <2>4. ASSUME NEW r \in Events, NEW k \in DOMAIN states'[r].handlers
        PROVE  \/ k \in DOMAIN states[r].handlers /\ states'[r].handlers[k].handler = states[r].handlers[k].handler
               \/ r = s /\ k = Len(states[s].handlers) + 1 /\ states'[r].handlers[k].handler = added + 1
    BY <1>2, <1>5, <1>7
  <2>5. \A r \in Events : \A k \in DOMAIN states'[r].handlers : states'[r].handlers[k].handler =< added'
    BY <1>1, <2>1, <2>4
  <2>6. ASSUME NEW r \in Events, NEW q \in Events, NEW k \in DOMAIN states'[r].handlers, NEW j \in DOMAIN states'[q].handlers,
               states'[r].handlers[k].handler = states'[q].handlers[j].handler
        PROVE  r = q /\ k = j
    BY <1>1, <2>1, <2>4, <2>6 DEF EventInv, AddedOnce
  <2> QED BY <2>2, <2>3, <2>5, <2>6 DEF AddedOnce
<1>10. DeletersName'
  <2>1. ASSUME NEW d \in deleters PROVE d.id \in DOMAIN states'[d.state].handlers /\ states'[d.state].handlers[d.id].handler = d.handler
    <3>1. d.state \in Events /\ d.id \in DOMAIN states[d.state].handlers /\ states[d.state].handlers[d.id].handler = d.handler
      BY DEF EventInv, E!TypeOK, DeletersName
    <3> QED BY <1>5, <1>7, <3>1
  <2>2. ASSUME NEW d \in {[state |-> s, id |-> states[s].cntr + 1, handler |-> added']}
        PROVE  d.id \in DOMAIN states'[d.state].handlers /\ states'[d.state].handlers[d.id].handler = d.handler
    <3>1. d.state = s /\ d.id = Len(states[s].handlers) + 1 /\ d.handler = added + 1
      BY <1>1, <1>4
    <3> QED BY <1>2, <1>7, <3>1
  <2> QED BY <2>1, <2>2 DEF DeletersName, Appended
<1>11. OnUntilRemoved'
  <2>1. added + 1 \notin removed
    BY <1>1 DEF EventInv, AddedOnce
  <2>2. ASSUME NEW r \in Events, NEW k \in DOMAIN states'[r].handlers
        PROVE  states'[r].handlers[k].on <=> states'[r].handlers[k].handler \notin removed
    <3>1. CASE r # s
      BY <1>5, <3>1 DEF EventInv, OnUntilRemoved
    <3>2. CASE r = s /\ k \in DOMAIN states[s].handlers
      BY <1>7, <3>2 DEF EventInv, OnUntilRemoved
    <3>3. CASE r = s /\ k = Len(states[s].handlers) + 1
      BY <1>2, <1>7, <2>1, <3>3
    <3> QED BY <1>7, <3>1, <3>2, <3>3
  <2> QED BY <2>2 DEF OnUntilRemoved, Appended
<1>12. ASSUME NEW k \in DOMAIN fires PROVE FirePasses(fires[k], states'[fires[k].state].handlers)
  <2>1. fires[k] \in Fires /\ FirePasses(fires[k], states[fires[k].state].handlers)
    BY DEF EventInv
  <2>2. fires[k].state \in Events
    BY <2>1 DEF Fires
  <2>3. /\ states[fires[k].state].handlers \in Seq(Entries) /\ states'[fires[k].state].handlers \in Seq(Entries)
        /\ Len(states[fires[k].state].handlers) =< Len(states'[fires[k].state].handlers)
        /\ \A n \in DOMAIN states[fires[k].state].handlers : states'[fires[k].state].handlers[n] = states[fires[k].state].handlers[n]
    <3> DEFINE r == fires[k].state
    <3> HIDE DEF r
    <3>1. r \in Events
      BY <2>2 DEF r
    <3>2. Len(states[r].handlers) \in Nat
      BY <1>4, <3>1
    <3>3. /\ states'[r].handlers \in Seq(Entries) /\ Len(states[r].handlers) =< Len(states'[r].handlers)
          /\ \A n \in DOMAIN states[r].handlers : states'[r].handlers[n] = states[r].handlers[n]
      <4>1. CASE r = s
        BY <1>7, <3>2, <4>1
      <4>2. CASE r # s
        <5>1. states'[r].handlers = states[r].handlers
          BY <1>5, <3>1, <4>2
        <5> QED BY <1>4, <3>1, <3>2, <5>1
      <4> QED BY <4>1, <4>2
    <3> QED BY <1>4, <3>1, <3>3 DEF r
  <2> QED BY <2>1, <2>3, FirePassesKept
<1> QED
  BY <1>8, <1>9, <1>10, <1>11, <1>12 DEF EventInv, OneOwner, Appended

LEMMA EventAdd == ASSUME EventInv, NEW e \in Events, E!add(e) PROVE EventInv'
<1> DEFINE s == state_ptr_[e]
<1>1. s \in Events \cup {"null"} /\ added < MaxAdds /\ added' = added + 1 /\ added \in 0..MaxAdds
  BY DEF EventInv, E!TypeOK, E!add
<1>2. added' \in added..MaxAdds
  BY <1>1, EventsAssumption
<1>3. CASE E!Stop
  BY <1>2, <1>3, EventStopped DEF E!Stop
<1>4. CASE s # "null" /\ Appended(s)
  BY <1>1, <1>4, EventAppended
<1>5. ASSUME s # "null", states' = [states EXCEPT ![s].cntr = @ + 1],
             UNCHANGED <<state_ptr_, deleters, fires, removed, stopped>>
      PROVE  EventInv'
  <2>1. s \in Events /\ states[s] \in E!State /\ states[s].cntr \in 0..MaxAdds /\ states[s].cntr =< added
    BY <1>1, <1>5, HandlersType DEF EventInv, AddedOnce
  <2>2. states[s].cntr + 1 \in 0..MaxAdds
    BY <1>1, <2>1, EventsAssumption
  <2>3. states' = [states EXCEPT ![s] = [states[s] EXCEPT !.cntr = states[s].cntr + 1]]
    BY <1>5
  <2>4. [states[s] EXCEPT !.cntr = states[s].cntr + 1] \in E!State
    BY <2>1, <2>2 DEF E!State
  <2>5. states' \in [Events -> E!State]
    BY <2>1, <2>3, <2>4 DEF EventInv, E!TypeOK
  <2>6. /\ [states[s] EXCEPT !.cntr = states[s].cntr + 1].cntr = states[s].cntr + 1
        /\ [states[s] EXCEPT !.cntr = states[s].cntr + 1].live = states[s].live
        /\ [states[s] EXCEPT !.cntr = states[s].cntr + 1].handlers = states[s].handlers
    <3> HIDE DEF s
    <3> QED BY <2>1 DEF E!State
  <2>7. \A r \in Events : /\ states'[r].handlers = states[r].handlers /\ states'[r].live = states[r].live
                          /\ states'[r].cntr = states[r].cntr \/ (r = s /\ states'[r].cntr = states[s].cntr + 1)
    BY <2>1, <2>3, <2>6 DEF EventInv, E!TypeOK
  <2>8. E!TypeOK'
    <3>1. \A d \in Events : state_ptr_'[d] # "null" => states'[state_ptr_'[d]].live
      BY <1>5, <2>7 DEF EventInv, E!TypeOK
    <3>2. added' \in 0..MaxAdds
      BY <1>1, EventsAssumption
    <3> QED BY <1>5, <2>5, <3>1, <3>2 DEF EventInv, E!TypeOK
  <2>9. AddedOnce'
    <3>1. ASSUME NEW r \in Events
          PROVE  /\ states'[r].cntr =< added'
                 /\ \A k \in DOMAIN states'[r].handlers : states'[r].handlers[k].handler =< added'
      <4>1. /\ states[r].cntr \in 0..MaxAdds /\ states[r].cntr =< added
            /\ \A k \in DOMAIN states[r].handlers : /\ states[r].handlers[k].handler \in 1..MaxAdds
                                                   /\ states[r].handlers[k].handler =< added
        BY HandlersType DEF EventInv, AddedOnce
      <4>2. states'[r].handlers = states[r].handlers
        BY <2>7
      <4>3. \A k \in DOMAIN states'[r].handlers : states'[r].handlers[k].handler =< added'
        BY <1>1, <4>1, <4>2, EventsAssumption
      <4>4. states'[r].cntr =< added'
        BY <1>1, <2>1, <2>7, <4>1, EventsAssumption
      <4> QED BY <4>3, <4>4
    <3>2. removed' \subseteq 1..added'
      BY <1>1, <1>5 DEF EventInv, AddedOnce
    <3> QED BY <2>7, <3>1, <3>2 DEF EventInv, AddedOnce
  <2>10. DeletersName' /\ OnUntilRemoved'
    <3>1. \A d \in deleters : d.state \in Events
      BY DEF EventInv, E!TypeOK
    <3> QED BY <1>5, <2>7, <3>1 DEF EventInv, DeletersName, OnUntilRemoved
  <2>11. \A k \in DOMAIN fires : FirePasses(fires[k], states'[fires[k].state].handlers)
    <3>1. \A k \in DOMAIN fires : fires[k].state \in Events
      BY FiresType
    <3> QED BY <2>7, <3>1 DEF EventInv
  <2> QED BY <1>5, <2>8, <2>9, <2>10, <2>11 DEF EventInv, OneOwner
<1> QED
  BY <1>1, <1>3, <1>4, <1>5 DEF E!add, Appended

LEMMA EventMove ==
  ASSUME EventInv, NEW e \in Events, NEW src \in Events \cup {"null"}, E!move(e, src)
  PROVE  EventInv'
<1> DEFINE s == state_ptr_[e]
<1>1. s \in Events /\ e # src /\ added' = added /\ added \in 0..MaxAdds /\ states[s] \in E!State
  BY HandlersType DEF EventInv, E!TypeOK, E!move
<1>2. CASE E!Firing(s)
  <2>1. added' \in added..MaxAdds
    BY <1>1, EventsAssumption
  <2> QED BY <1>2, <2>1, EventStopped DEF E!move, E!Stop
<1>3. ASSUME ~E!Firing(s) PROVE EventInv'
  <2>1. /\ state_ptr_' = [d \in Events |-> IF d = e THEN (IF src = "null" THEN src ELSE state_ptr_[src])
                                           ELSE IF d = src THEN "null" ELSE state_ptr_[d]]
        /\ states' = [states EXCEPT ![s].live = FALSE]
        /\ UNCHANGED <<deleters, fires, removed, stopped>>
    BY <1>3 DEF E!move
  <2> DEFINE st == [states[s] EXCEPT !.live = FALSE]
  <2>2. st \in E!State /\ st.cntr = states[s].cntr /\ st.handlers = states[s].handlers
    <3> HIDE DEF s
    <3> QED BY <1>1 DEF E!State
  <2>3. states' = [states EXCEPT ![s] = st]
    BY <2>1
  <2> HIDE DEF st
  <2>4. /\ states' \in [Events -> E!State]
        /\ \A r \in Events : /\ states'[r].handlers = states[r].handlers /\ states'[r].cntr = states[r].cntr
                             /\ r # s => states'[r].live = states[r].live
    BY <1>1, <2>2, <2>3 DEF EventInv, E!TypeOK
  <2>5. \A d \in Events : state_ptr_'[d] # "null" =>
          state_ptr_'[d] # s /\ \E c \in Events : state_ptr_'[d] = state_ptr_[c]
    BY <1>1, <2>1, EventsAssumption DEF EventInv, OneOwner, E!TypeOK
  <2>6. OneOwner'
    BY <1>1, <2>1, EventsAssumption DEF EventInv, OneOwner, E!TypeOK
  <2>7. E!TypeOK'
    <3>1. state_ptr_' \in [Events -> Events \cup {"null"}]
      BY <2>1 DEF EventInv, E!TypeOK
    <3>2. \A d \in Events : state_ptr_'[d] # "null" => states'[state_ptr_'[d]].live
      BY <2>4, <2>5, <3>1 DEF EventInv, E!TypeOK
    <3> QED BY <1>1, <2>1, <2>4, <3>1, <3>2 DEF EventInv, E!TypeOK
  <2>8. AddedOnce' /\ OnUntilRemoved'
    BY <1>1, <2>1, <2>4 DEF EventInv, AddedOnce, OnUntilRemoved
  <2>9. DeletersName'
    <3>1. \A d \in deleters : d.state \in Events
      BY DEF EventInv, E!TypeOK
    <3> QED BY <2>1, <2>4, <3>1 DEF EventInv, DeletersName
  <2>10. \A k \in DOMAIN fires : FirePasses(fires[k], states'[fires[k].state].handlers)
    <3>1. \A k \in DOMAIN fires : fires[k].state \in Events
      BY FiresType
    <3> QED BY <2>4, <3>1 DEF EventInv
  <2> QED BY <2>1, <2>6, <2>7, <2>8, <2>9, <2>10 DEF EventInv
<1> QED BY <1>2, <1>3

\* What a deleter does: the entry it names is turned off, no other one has its handler.
Removes(d) ==
  /\ states' = [states EXCEPT ![d.state].handlers[d.id].on = FALSE]
  /\ removed' = removed \cup {d.handler}
  /\ UNCHANGED <<state_ptr_, deleters, fires, added, stopped>>

LEMMA EventRemoved == ASSUME EventInv, NEW d \in deleters, Removes(d) PROVE EventInv'
<1> DEFINE s == d.state
           hs == states[s].handlers
           h == [hs[d.id] EXCEPT !.on = FALSE]
           ns == [hs EXCEPT ![d.id] = h]
           st == [states[s] EXCEPT !.handlers = ns]
<1>1. /\ s \in Events /\ d.id \in DOMAIN hs /\ hs[d.id].handler = d.handler /\ d.handler \in 1..MaxAdds
      /\ states[s] \in E!State /\ hs \in Seq(Entries) /\ hs[d.id] \in Entries
  <2>1. /\ s \in Events /\ d.id \in DOMAIN hs /\ hs[d.id].handler = d.handler /\ d.handler \in 1..MaxAdds
    BY DEF EventInv, E!TypeOK, DeletersName
  <2> QED BY <2>1, HandlersType DEF EventInv
<1>2. h \in Entries /\ ~h.on /\ h.handler = d.handler
  <2> HIDE DEF hs
  <2> QED BY <1>1 DEF Entries
<1>3. states' = [states EXCEPT ![s] = st]
  BY <1>1 DEF Removes
<1> HIDE DEF h
<1>4. /\ ns \in Seq(Entries) /\ DOMAIN ns = DOMAIN hs /\ Len(ns) = Len(hs)
      /\ \A k \in DOMAIN hs : ns[k] = IF k = d.id THEN h ELSE hs[k]
  <2> HIDE DEF hs
  <2> QED BY <1>1, <1>2, ReplaceOne
<1>5. st \in E!State /\ st.handlers = ns /\ st.live = states[s].live /\ st.cntr = states[s].cntr
  <2> HIDE DEF ns, s
  <2> QED BY <1>1, <1>4 DEF E!State, Entries
<1> HIDE DEF ns, st
<1>6. /\ states' \in [Events -> E!State] /\ states'[s].handlers = ns
      /\ \A r \in Events : /\ states'[r].live = states[r].live /\ states'[r].cntr = states[r].cntr
                           /\ r # s => states'[r].handlers = states[r].handlers
  BY <1>1, <1>3, <1>5 DEF EventInv, E!TypeOK
<1> HIDE DEF s
<1>7. ASSUME NEW r \in Events
      PROVE  /\ states'[r].handlers \in Seq(Entries) /\ Len(states'[r].handlers) = Len(states[r].handlers)
             /\ DOMAIN states'[r].handlers = DOMAIN states[r].handlers
             /\ \A k \in DOMAIN states[r].handlers :
                  /\ states'[r].handlers[k].handler = states[r].handlers[k].handler
                  /\ r # s \/ k # d.id => states'[r].handlers[k] = states[r].handlers[k]
                  /\ r = s /\ k = d.id => ~states'[r].handlers[k].on
  <2>1. CASE r = s
    BY <1>1, <1>2, <1>4, <1>6, <2>1
  <2>2. CASE r # s
    BY <1>6, <2>2, HandlersType DEF EventInv
  <2> QED BY <2>1, <2>2
<1>8. /\ E!TypeOK /\ removed \subseteq 1..added /\ added \in 0..MaxAdds /\ d.handler \in 1..added
  <2>1. hs[d.id].handler =< added
    BY <1>1 DEF EventInv, AddedOnce, s
  <2> QED BY <1>1, <2>1, EventsAssumption DEF EventInv, AddedOnce, E!TypeOK
<1>9. E!TypeOK'
  <2>1. \A e \in Events : state_ptr_'[e] # "null" => states'[state_ptr_'[e]].live
    BY <1>6, <1>8 DEF E!TypeOK, Removes
  <2>2. removed' \subseteq 1..MaxAdds
    BY <1>1, <1>8 DEF E!TypeOK, Removes
  <2> QED BY <1>6, <1>8, <2>1, <2>2 DEF E!TypeOK, Removes
<1>10. AddedOnce'
  <2>1. removed' \subseteq 1..added'
    BY <1>8 DEF Removes
  <2> QED BY <1>6, <1>7, <2>1 DEF EventInv, AddedOnce, Removes
<1>11. DeletersName'
  <2>1. \A c \in deleters : c.state \in Events
    BY <1>8 DEF E!TypeOK
  <2> QED BY <1>7, <2>1 DEF EventInv, DeletersName, Removes
<1>12. OnUntilRemoved'
  <2>1. ASSUME NEW r \in Events, NEW k \in DOMAIN states'[r].handlers
        PROVE  states'[r].handlers[k].on <=> states'[r].handlers[k].handler \notin removed \cup {d.handler}
    <3>1. k \in DOMAIN states[r].handlers /\ states'[r].handlers[k].handler = states[r].handlers[k].handler
      BY <1>7
    <3>2. CASE r = s /\ k = d.id
      <4>1. states[r].handlers[k].handler = d.handler
        BY <1>1, <3>2
      <4> QED BY <1>7, <3>1, <3>2, <4>1
    <3>3. CASE r # s \/ k # d.id
      <4>1. states[r].handlers[k].handler # d.handler
        BY <1>1, <3>1, <3>3 DEF EventInv, AddedOnce, s
      <4>2. states'[r].handlers[k].on <=> states[r].handlers[k].on
        BY <1>7, <3>1, <3>3
      <4> QED BY <3>1, <4>1, <4>2 DEF EventInv, OnUntilRemoved
    <3> QED BY <3>2, <3>3
  <2> QED BY <2>1 DEF OnUntilRemoved, Removes
<1>13. ASSUME NEW k \in DOMAIN fires PROVE FirePasses(fires[k], states'[fires[k].state].handlers)
  <2>1. fires[k] \in Fires /\ FirePasses(fires[k], states[fires[k].state].handlers) /\ fires[k].state \in Events
    BY FiresType DEF EventInv
  <2> DEFINE r == fires[k].state
  <2>2. states[r].handlers \in Seq(Entries) /\ r \in Events
    BY <2>1, HandlersType DEF EventInv
  <2> HIDE DEF r
  <2>3. Len(states[r].handlers) =< Len(states'[r].handlers)
    BY <1>7, <2>2
  <2>4. ASSUME NEW n \in DOMAIN states[r].handlers, states'[r].handlers[n].on PROVE states[r].handlers[n].on
    BY <1>7, <2>2, <2>4
  <2>5. \A n \in DOMAIN states[r].handlers : states'[r].handlers[n].handler = states[r].handlers[n].handler
    BY <1>7, <2>2
  <2>6. FirePasses(fires[k], states[r].handlers)
    BY <2>1 DEF r
  <2>7. \A n \in DOMAIN states[r].handlers :
          states'[r].handlers[n].handler = states[r].handlers[n].handler /\ (states'[r].handlers[n].on => states[r].handlers[n].on)
    BY <2>4, <2>5
  <2>8. states'[r].handlers \in Seq(Entries)
    BY <1>7, <2>2
  <2>9. FirePasses(fires[k], states'[r].handlers)
    BY <2>1, <2>2, <2>3, <2>6, <2>7, <2>8, FirePassesKept
  <2> QED BY <2>9 DEF r
<1> QED
  BY <1>9, <1>10, <1>11, <1>12, <1>13 DEF EventInv, OneOwner, Removes

LEMMA EventRemove == ASSUME EventInv, NEW d \in deleters, E!remove(d) PROVE EventInv'
<1>1. CASE E!Stop
  <2>1. added' \in added..MaxAdds
    BY EventsAssumption DEF EventInv, E!TypeOK, E!remove
  <2> QED BY <1>1, <2>1, EventStopped DEF E!Stop
<1>2. CASE Removes(d)
  BY <1>2, EventRemoved
<1> QED
  BY <1>1, <1>2 DEF E!remove, Removes

LEMMA EventNext == EventInv /\ [E!Next]_eventVars => EventInv'
<1> SUFFICES ASSUME EventInv, [E!Next]_eventVars PROVE EventInv'
  OBVIOUS
<1>1. CASE UNCHANGED eventVars
  BY <1>1 DEF eventVars, EventInv, E!TypeOK, OneOwner, AddedOnce, DeletersName, OnUntilRemoved
<1> QED
  BY <1>1, EventAdd, EventFire, EventRemove, EventCallNext, EventHandlerReturns, EventFireReturns, EventMove DEF E!Next

LEMMA EventInvariant == Spec => []EventInv
<1>1. Init => EventInv
  BY EventInit DEF Init
<1>2. EventInv /\ [Next]_vars => EventInv'
  BY StepOfEach, EventNext
<1> QED
  BY <1>1, <1>2, PTL DEF Spec

(***************************************************************************)
(* A handler is on until its own deleter is called and off from then on,   *)
(* and fire() has called every one it has passed that is on, for any       *)
(* number of events and handlers.                                          *)
(***************************************************************************)
THEOREM HandlersRemovedOrCalled == Spec => []E!RemovedOrCalled
BY EventInvariant, EventsRemovedOrCalled, PTL

(***************************************************************************)
(* Both registries call what was registered with them: fire() of the       *)
(* events until the deleter removes the handler, call() of the dispatcher  *)
(* for the last function of the two types.                                 *)
(***************************************************************************)
THEOREM RegistriesCall == Spec => []RegisteredAreCalled
<1>1. E!RemovedOrCalled /\ DD!DispatchesByType => RegisteredAreCalled
  BY DEF RegisteredAreCalled
<1> QED
  BY <1>1, HandlersRemovedOrCalled, FunctionsFoundByType, PTL

-----------------------------------------------------------------------------
(***************************************************************************)
(* The injector.  get() never leaves an instance without its dependencies, *)
(* and it tells a cycle and a missing id from a dependency that is reached *)
(* twice.                                                                  *)
(***************************************************************************)

\* What a declared dependency is.
Deps == [id : Ids, type : Types]

Roots(s) == {k \in DOMAIN s : s[k].root}

-----------------------------------------------------------------------------
(***************************************************************************)
(* Lemmas about the frames: how many roots there are as frames are pushed, *)
(* popped and cut off, and which one is the innermost.                     *)
(***************************************************************************)
LEMMA RootsFinite == ASSUME NEW T, NEW s \in Seq(T) PROVE IsFiniteSet(Roots(s)) /\ Cardinality(Roots(s)) \in Nat
<1>1. DOMAIN s = 1..Len(s) /\ Len(s) \in Nat
  OBVIOUS
<1>2. IsFiniteSet(1..Len(s))
  BY <1>1, FS_Interval
<1>3. Roots(s) \subseteq 1..Len(s)
  BY <1>1 DEF Roots
<1> QED
  BY <1>2, <1>3, FS_Subset, FS_CardinalityType

LEMMA RootsPushed ==
  ASSUME NEW T, NEW s \in Seq(T), NEW f \in T, f.root \in BOOLEAN
  PROVE  Cardinality(Roots(Append(s, f))) = IF f.root THEN Cardinality(Roots(s)) + 1 ELSE Cardinality(Roots(s))
<1>1. Roots(Append(s, f)) = IF f.root THEN Roots(s) \cup {Len(s) + 1} ELSE Roots(s)
  BY DEF Roots
<1>2. Len(s) + 1 \notin Roots(s)
  BY DEF Roots
<1> QED
  BY <1>1, <1>2, RootsFinite, FS_AddElement

\* The frames below index k, of which k is a root and none above is.
LEMMA RootsCut ==
  ASSUME NEW T, NEW s \in Seq(T), NEW k \in DOMAIN s, s[k].root, \A n \in DOMAIN s : n > k => ~s[n].root
  PROVE  Cardinality(Roots(SubSeq(s, 1, k - 1))) = Cardinality(Roots(s)) - 1
<1>1. Roots(SubSeq(s, 1, k - 1)) = Roots(s) \ {k}
  <2>1. DOMAIN SubSeq(s, 1, k - 1) = 1..(k - 1) /\ DOMAIN s = 1..Len(s) /\ k \in 1..Len(s)
    OBVIOUS
  <2>2. \A n \in 1..(k - 1) : SubSeq(s, 1, k - 1)[n] = s[n]
    OBVIOUS
  <2> QED BY <2>1, <2>2 DEF Roots
<1>2. k \in Roots(s)
  BY DEF Roots
<1> QED
  BY <1>1, <1>2, RootsFinite, FS_RemoveElement

\* Popping a frame that is not a root.
LEMMA RootsPopped ==
  ASSUME NEW T, NEW s \in Seq(T), s # <<>>, ~s[Len(s)].root
  PROVE  Roots(SubSeq(s, 1, Len(s) - 1)) = Roots(s)
<1>1. DOMAIN SubSeq(s, 1, Len(s) - 1) = 1..(Len(s) - 1) /\ DOMAIN s = 1..Len(s) /\ Len(s) \in 1..Len(s)
  OBVIOUS
<1>2. \A n \in 1..(Len(s) - 1) : SubSeq(s, 1, Len(s) - 1)[n] = s[n]
  OBVIOUS
<1> QED
  BY <1>1, <1>2 DEF Roots

-----------------------------------------------------------------------------
(***************************************************************************)
(* What is registered and stored.  An instance has a serial number and the *)
(* type its factory makes.                                                 *)
(***************************************************************************)
DataInv ==
  /\ factories \in [Ids -> Declarations \cup {J!NoFactory}] /\ insts \in [Ids -> J!Insts]
  /\ built \in 0..MaxBuilt /\ given \subseteq [id : Ids, serial : 1..MaxBuilt, early : BOOLEAN]
  /\ \A i \in Ids : insts[i] # J!NoInst =>
       /\ insts[i].type \in Types /\ insts[i].serial \in 1..MaxBuilt
       /\ factories[i] # J!NoFactory => insts[i].type = factories[i].type

(***************************************************************************)
(* The frames.  A frame above another is a dependency it is resolving, or  *)
(* the root of a get() its factory called; the first is a root, and so     *)
(* every frame has a root at or below it.                                  *)
(***************************************************************************)
DepsIn(fs, f) == fs[f.id].deps

MadeFor(fs, f, g) ==
  IF g.root THEN f.step = "factory"
  ELSE f.step = "deps" /\ f.next \in DOMAIN DepsIn(fs, f) /\ DepsIn(fs, f)[f.next] = [id |-> g.id, type |-> g.type]

Progress(fs, f) ==
  /\ f.step = "enter" => f.next = 1
  /\ f.step # "enter" => fs[f.id] # J!NoFactory
  /\ f.step = "factory" => f.next = Len(DepsIn(fs, f)) + 1
  /\ f.step = "deps" => f.next =< Len(DepsIn(fs, f)) + 1

LastRoot(s, k) == s[k].root /\ \A n \in DOMAIN s : n > k => ~s[n].root
RootBelow(s, n) == \E k \in 1..n : s[k].root /\ \A m \in (k + 1)..n : ~s[m].root

FrameInv ==
  /\ calls \in Seq(J!Frames) /\ visited \in Seq(SUBSET Ids) /\ Len(visited) = Cardinality(Roots(calls))
  /\ \A k \in DOMAIN calls : Progress(factories, calls[k])
  /\ \A k \in DOMAIN calls : k > 1 => MadeFor(factories, calls[k - 1], calls[k])
  /\ \A n \in DOMAIN calls : RootBelow(calls, n)

LEMMA InjectorTypes == DataInv /\ FrameInv => J!TypeOK
<1>1. \A S : J!Cardinality(S) = Cardinality(S)
  BY DEF J!Cardinality, Cardinality
<1> QED
  BY <1>1 DEF DataInv, FrameInv, J!TypeOK, Roots

LEMMA FrameInit == J!Init => DataInv /\ FrameInv
<1> SUFFICES ASSUME J!Init PROVE DataInv /\ FrameInv
  OBVIOUS
<1> USE InjectorAssumption
<1>1. calls = <<>> /\ visited = <<>> /\ calls \in Seq(J!Frames) /\ visited \in Seq(SUBSET Ids)
  BY DEF J!Init
<1>2. Roots(calls) = {}
  BY <1>1 DEF Roots
<1>3. Len(visited) = Cardinality(Roots(calls))
  <2>1. IsFiniteSet(Roots(calls))
    BY <1>1, RootsFinite
  <2>2. Cardinality(Roots(calls)) = 0
    BY <1>2, <2>1, FS_EmptySet
  <2> QED BY <1>1, <2>2
<1>4. J!NoInst \in J!Insts
  BY DEF J!NoInst, J!Insts
<1>5. FrameInv
  BY <1>1, <1>3 DEF FrameInv
<1> QED
  BY <1>4, <1>5 DEF J!Init, DataInv

\* The declared dependencies of a registered id, and of one that is not.
LEMMA DepsType ==
  ASSUME DataInv, NEW i \in Ids
  PROVE  /\ factories[i].deps \in Seq(Deps)
         /\ factories[i] # J!NoFactory => factories[i] \in Declarations /\ factories[i].type \in Types
<1>1. CASE factories[i] = J!NoFactory
  <2>1. factories[i].deps = <<>>
    BY <1>1 DEF J!NoFactory
  <2> QED BY <1>1, <2>1
<1>2. CASE factories[i] # J!NoFactory
  <2>1. factories[i] \in Declarations
    BY <1>2 DEF DataInv
  <2>2. factories[i] \in [type : Types, deps : Seq(Deps)]
    BY <2>1, InjectorAssumption DEF Deps
  <2> QED BY <2>1, <2>2
<1> QED
  BY <1>1, <1>2

LEMMA FrameType ==
  ASSUME DataInv, FrameInv, NEW k \in DOMAIN calls
  PROVE  /\ calls[k] \in J!Frames /\ calls[k].id \in Ids /\ calls[k].type \in Types /\ calls[k].root \in BOOLEAN
         /\ calls[k].step \in {"enter", "deps", "factory"} /\ calls[k].next \in Nat \ {0}
         /\ DepsIn(factories, calls[k]) \in Seq(Deps)
<1>1. calls[k] \in J!Frames
  BY DEF FrameInv
<1>2. calls[k].id \in Ids
  BY <1>1 DEF J!Frames
<1> QED
  BY <1>1, <1>2, DepsType DEF J!Frames, DepsIn

\* The innermost frame, and the set of visited ids it uses.
LEMMA TopFrame ==
  ASSUME DataInv, FrameInv, calls # <<>>
  PROVE  /\ Len(calls) \in DOMAIN calls /\ J!Top(calls) = calls[Len(calls)]
         /\ visited # <<>> /\ Len(visited) \in DOMAIN visited /\ J!Top(visited) = visited[Len(visited)]
         /\ J!Top(visited) \subseteq Ids
         /\ J!Root \in DOMAIN calls /\ LastRoot(calls, J!Root)
<1>1. calls \in Seq(J!Frames) /\ Len(calls) \in DOMAIN calls /\ DOMAIN calls = 1..Len(calls) /\ Len(calls) \in Nat
  BY DEF FrameInv
<1>2. PICK k \in 1..Len(calls) : calls[k].root /\ \A m \in (k + 1)..Len(calls) : ~calls[m].root
  BY <1>1 DEF FrameInv, RootBelow
<1>3. k \in DOMAIN calls /\ LastRoot(calls, k)
  BY <1>1, <1>2 DEF LastRoot
<1>4. J!Root \in DOMAIN calls /\ LastRoot(calls, J!Root)
  BY <1>3 DEF J!Root, LastRoot
<1>5. k \in Roots(calls)
  BY <1>3 DEF Roots, LastRoot
<1>6. Cardinality(Roots(calls)) # 0
  BY <1>1, <1>5, RootsFinite, FS_EmptySet
<1>7. visited \in Seq(SUBSET Ids) /\ Len(visited) # 0
  BY <1>6 DEF FrameInv
<1>8. visited # <<>> /\ Len(visited) \in DOMAIN visited /\ visited[Len(visited)] \in SUBSET Ids
  BY <1>7
<1> QED
  BY <1>1, <1>4, <1>8 DEF J!Top

-----------------------------------------------------------------------------
(***************************************************************************)
(* How the frames change: one is pushed, the innermost goes on, the frames *)
(* from the innermost root on are cut off, or the innermost, which is not  *)
(* a root, returns to the one below.                                       *)
(***************************************************************************)
Pushes(f) ==
  /\ f \in J!Frames /\ f.step = "enter" /\ f.next = 1 /\ calls' = Append(calls, f)
  /\ IF f.root THEN visited' = Append(visited, {}) ELSE visited' = visited /\ calls # <<>>
  /\ calls # <<>> => MadeFor(factories, calls[Len(calls)], f)

GoesOn(g) ==
  LET f == calls[Len(calls)] IN
  /\ calls # <<>> /\ calls' = [calls EXCEPT ![Len(calls)] = g] /\ g \in J!Frames
  /\ g.id = f.id /\ g.type = f.type /\ g.root = f.root /\ g.next = f.next
  /\ g.step # "enter" /\ Progress(factories, g)
  /\ visited' \in Seq(SUBSET Ids) /\ Len(visited') = Len(visited)

Cuts(k) ==
  /\ k \in DOMAIN calls /\ LastRoot(calls, k)
  /\ calls' = SubSeq(calls, 1, k - 1) /\ visited' = J!Pop(visited)

ReturnsToCaller ==
  LET f == calls[Len(calls)] c == calls[Len(calls) - 1] IN
  /\ calls # <<>> /\ ~f.root
  /\ calls' = [SubSeq(calls, 1, Len(calls) - 1) EXCEPT ![Len(calls) - 1] = [c EXCEPT !.next = @ + 1]]
  /\ visited' = [visited EXCEPT ![Len(visited)] = @ \ {f.id}]

LEMMA FramesPushed ==
  ASSUME DataInv, FrameInv, NEW f, Pushes(f), UNCHANGED factories
  PROVE  /\ FrameInv'
         /\ DOMAIN calls = 1..Len(calls) /\ DOMAIN calls' = 1..(Len(calls) + 1) /\ Len(calls) \in Nat
         /\ \A k \in DOMAIN calls' : calls'[k] = IF k = Len(calls) + 1 THEN f ELSE calls[k]
<1>1. /\ calls \in Seq(J!Frames) /\ f \in J!Frames /\ f.root \in BOOLEAN /\ visited \in Seq(SUBSET Ids)
      /\ calls' = Append(calls, f)
  BY DEF FrameInv, Pushes, J!Frames
<1>2. /\ DOMAIN calls = 1..Len(calls) /\ DOMAIN calls' = 1..(Len(calls) + 1) /\ Len(calls) \in Nat
      /\ calls' \in Seq(J!Frames) /\ Len(calls') = Len(calls) + 1
      /\ \A k \in DOMAIN calls' : calls'[k] = IF k = Len(calls) + 1 THEN f ELSE calls[k]
  BY <1>1
<1>3. visited' \in Seq(SUBSET Ids) /\ Len(visited') = Cardinality(Roots(calls'))
  <2>1. Cardinality(Roots(calls')) = IF f.root THEN Cardinality(Roots(calls)) + 1 ELSE Cardinality(Roots(calls))
    BY <1>1, RootsPushed
  <2>2. Len(visited) = Cardinality(Roots(calls))
    BY DEF FrameInv
  <2>3. CASE f.root
    <3>1. visited' = Append(visited, {}) /\ {} \in SUBSET Ids
      BY <2>3 DEF Pushes
    <3>2. visited' \in Seq(SUBSET Ids) /\ Len(visited') = Len(visited) + 1
      BY <1>1, <3>1, AppendProperties
    <3> QED BY <2>1, <2>2, <2>3, <3>2
  <2>4. CASE ~f.root
    BY <1>1, <2>1, <2>2, <2>4 DEF Pushes
  <2> QED BY <2>3, <2>4
<1>4. ASSUME NEW k \in DOMAIN calls' PROVE Progress(factories, calls'[k])
  BY <1>2 DEF FrameInv, Pushes, Progress
<1>5. ASSUME NEW k \in DOMAIN calls', k > 1 PROVE MadeFor(factories, calls'[k - 1], calls'[k])
  <2>1. CASE k = Len(calls) + 1
    <3>1. calls # <<>> /\ calls'[k - 1] = calls[Len(calls)] /\ calls'[k] = f
      BY <1>2, <1>5, <2>1
    <3> QED BY <3>1 DEF Pushes
  <2>2. CASE k # Len(calls) + 1
    <3>1. k \in DOMAIN calls /\ calls'[k - 1] = calls[k - 1] /\ calls'[k] = calls[k]
      BY <1>2, <1>5, <2>2
    <3> QED BY <1>5, <3>1 DEF FrameInv
  <2> QED BY <2>1, <2>2
<1>6. ASSUME NEW n \in DOMAIN calls' PROVE RootBelow(calls', n)
  <2>1. CASE n = Len(calls) + 1 /\ f.root
    BY <1>2, <2>1 DEF RootBelow
  <2>2. CASE n = Len(calls) + 1 /\ ~f.root
    <3>1. Len(calls) \in DOMAIN calls
      BY <1>2, <2>2 DEF Pushes
    <3>2. PICK k \in 1..Len(calls) : calls[k].root /\ \A m \in (k + 1)..Len(calls) : ~calls[m].root
      BY <3>1 DEF FrameInv, RootBelow
    <3>3. k \in 1..n /\ calls'[k].root /\ \A m \in (k + 1)..n : ~calls'[m].root
      BY <1>2, <2>2, <3>2
    <3> QED BY <3>3 DEF RootBelow
  <2>3. CASE n # Len(calls) + 1
    <3>1. n \in DOMAIN calls
      BY <1>2, <2>3
    <3>2. PICK k \in 1..n : calls[k].root /\ \A m \in (k + 1)..n : ~calls[m].root
      BY <3>1 DEF FrameInv, RootBelow
    <3>3. calls'[k].root /\ \A m \in (k + 1)..n : ~calls'[m].root
      BY <1>2, <3>1, <3>2
    <3> QED BY <3>3 DEF RootBelow
  <2> QED BY <2>1, <2>2, <2>3
<1> QED
  BY <1>2, <1>3, <1>4, <1>5, <1>6 DEF FrameInv

LEMMA FramesGoOn ==
  ASSUME DataInv, FrameInv, NEW g, GoesOn(g), UNCHANGED factories
  PROVE  /\ FrameInv'
         /\ DOMAIN calls' = DOMAIN calls /\ Len(calls) \in DOMAIN calls
         /\ \A k \in DOMAIN calls : calls'[k] = IF k = Len(calls) THEN g ELSE calls[k]
<1> DEFINE f == calls[Len(calls)]
<1>1. /\ calls \in Seq(J!Frames) /\ Len(calls) \in DOMAIN calls /\ g \in J!Frames /\ calls # <<>>
      /\ calls' = [calls EXCEPT ![Len(calls)] = g]
      /\ g.id = f.id /\ g.type = f.type /\ g.root = f.root
  BY DEF FrameInv, GoesOn
<1> HIDE DEF f
<1>2. /\ calls' \in Seq(J!Frames) /\ DOMAIN calls' = DOMAIN calls /\ Len(calls') = Len(calls)
      /\ \A k \in DOMAIN calls : calls'[k] = IF k = Len(calls) THEN g ELSE calls[k]
  BY <1>1, ReplaceOne
<1>3. \A k \in DOMAIN calls : calls'[k].id = calls[k].id /\ calls'[k].type = calls[k].type /\ calls'[k].root = calls[k].root
  BY <1>1, <1>2 DEF f
<1>4. DOMAIN calls = 1..Len(calls) /\ Len(calls) \in Nat
  BY <1>1
<1>5. Roots(calls') = Roots(calls)
  BY <1>2, <1>3 DEF Roots
<1>6. visited' \in Seq(SUBSET Ids) /\ Len(visited') = Cardinality(Roots(calls'))
  BY <1>5 DEF GoesOn, FrameInv
<1>7. ASSUME NEW k \in DOMAIN calls PROVE Progress(factories, calls'[k])
  BY <1>2 DEF FrameInv, GoesOn
<1>8. ASSUME NEW k \in DOMAIN calls, k > 1 PROVE MadeFor(factories, calls'[k - 1], calls'[k])
  <2>1. k - 1 \in DOMAIN calls /\ calls'[k - 1] = calls[k - 1] /\ MadeFor(factories, calls[k - 1], calls[k])
    BY <1>2, <1>4, <1>8 DEF FrameInv
  <2> QED BY <1>3, <2>1 DEF MadeFor
<1>9. ASSUME NEW n \in DOMAIN calls PROVE RootBelow(calls', n)
  <2>1. PICK k \in 1..n : calls[k].root /\ \A m \in (k + 1)..n : ~calls[m].root
    BY DEF FrameInv, RootBelow
  <2>2. calls'[k].root /\ \A m \in (k + 1)..n : ~calls'[m].root
    BY <1>3, <1>4, <2>1
  <2> QED BY <2>2 DEF RootBelow
<1> QED
  BY <1>1, <1>2, <1>6, <1>7, <1>8, <1>9 DEF FrameInv

\* A prefix of the frames.
LEMMA FramesPrefix ==
  ASSUME DataInv, FrameInv, NEW n \in 0..Len(calls)
  PROVE  /\ SubSeq(calls, 1, n) \in Seq(J!Frames) /\ DOMAIN SubSeq(calls, 1, n) = 1..n /\ Len(SubSeq(calls, 1, n)) = n
         /\ DOMAIN calls = 1..Len(calls) /\ Len(calls) \in Nat /\ 1..n \subseteq DOMAIN calls
         /\ \A k \in 1..n : SubSeq(calls, 1, n)[k] = calls[k]
<1>1. calls \in Seq(J!Frames)
  BY DEF FrameInv
<1> QED
  BY <1>1

LEMMA FramesCut ==
  ASSUME DataInv, FrameInv, NEW r, Cuts(r), UNCHANGED factories
  PROVE  /\ FrameInv'
         /\ DOMAIN calls' = 1..(r - 1) /\ DOMAIN calls = 1..Len(calls) /\ r \in 1..Len(calls) /\ Len(calls) \in Nat
         /\ \A k \in 1..(r - 1) : calls'[k] = calls[k]
<1>1. /\ calls \in Seq(J!Frames) /\ r \in 1..Len(calls) /\ Len(calls) \in Nat /\ LastRoot(calls, r)
      /\ calls' = SubSeq(calls, 1, r - 1) /\ r - 1 \in 0..Len(calls) /\ r \in DOMAIN calls
  BY DEF FrameInv, Cuts
<1>2. /\ calls' \in Seq(J!Frames) /\ DOMAIN calls' = 1..(r - 1) /\ Len(calls') = r - 1
      /\ DOMAIN calls = 1..Len(calls) /\ 1..(r - 1) \subseteq DOMAIN calls
      /\ \A k \in 1..(r - 1) : calls'[k] = calls[k]
  BY <1>1, FramesPrefix
<1>3. visited' \in Seq(SUBSET Ids) /\ Len(visited') = Cardinality(Roots(calls'))
  <2>1. Cardinality(Roots(calls')) = Cardinality(Roots(calls)) - 1
    BY <1>1, RootsCut DEF LastRoot
  <2>2. visited \in Seq(SUBSET Ids) /\ Len(visited) = Cardinality(Roots(calls)) /\ visited # <<>>
    BY <1>1, TopFrame DEF FrameInv
  <2>3. visited' = SubSeq(visited, 1, Len(visited) - 1)
    BY DEF Cuts, J!Pop
  <2>4. visited' \in Seq(SUBSET Ids) /\ Len(visited') = Len(visited) - 1
    BY <2>2, <2>3
  <2> QED BY <2>1, <2>2, <2>4
<1>4. ASSUME NEW k \in DOMAIN calls' PROVE Progress(factories, calls'[k])
  BY <1>2 DEF FrameInv
<1>5. ASSUME NEW k \in DOMAIN calls', k > 1 PROVE MadeFor(factories, calls'[k - 1], calls'[k])
  <2>1. k \in DOMAIN calls /\ calls'[k - 1] = calls[k - 1] /\ calls'[k] = calls[k]
    BY <1>1, <1>2, <1>5
  <2> QED BY <1>5, <2>1 DEF FrameInv
<1>6. ASSUME NEW n \in DOMAIN calls' PROVE RootBelow(calls', n)
  <2>1. n \in DOMAIN calls
    BY <1>2
  <2>2. PICK k \in 1..n : calls[k].root /\ \A m \in (k + 1)..n : ~calls[m].root
    BY <2>1 DEF FrameInv, RootBelow
  <2>3. calls'[k].root /\ \A m \in (k + 1)..n : ~calls'[m].root
    BY <1>1, <1>2, <2>2
  <2> QED BY <2>3 DEF RootBelow
<1> QED
  BY <1>1, <1>2, <1>3, <1>4, <1>5, <1>6 DEF FrameInv

LEMMA FramesReturn ==
  ASSUME DataInv, FrameInv, ReturnsToCaller, UNCHANGED factories
  PROVE  /\ FrameInv'
         /\ DOMAIN calls' = 1..(Len(calls) - 1) /\ DOMAIN calls = 1..Len(calls) /\ Len(calls) \in Nat /\ Len(calls) > 1
         /\ \A k \in DOMAIN calls' : /\ calls'[k].id = calls[k].id /\ calls'[k].type = calls[k].type
                                    /\ calls'[k].root = calls[k].root /\ calls'[k].step = calls[k].step
                                    /\ calls'[k].next = IF k = Len(calls) - 1 THEN calls[k].next + 1 ELSE calls[k].next
<1> DEFINE l == Len(calls)
           c == calls[l - 1]
           g == [c EXCEPT !.next = @ + 1]
           ss == SubSeq(calls, 1, l - 1)
<1>1. calls # <<>> /\ calls \in Seq(J!Frames) /\ l \in DOMAIN calls /\ ~calls[l].root /\ l \in Nat /\ DOMAIN calls = 1..l
  BY DEF FrameInv, ReturnsToCaller
<1>2. l > 1
  <2>1. PICK k \in 1..l : calls[k].root /\ \A m \in (k + 1)..l : ~calls[m].root
    BY <1>1 DEF FrameInv, RootBelow
  <2> QED BY <1>1, <2>1
<1>3. l - 1 \in DOMAIN calls /\ c \in J!Frames /\ c.step = "deps" /\ c.next \in DOMAIN DepsIn(factories, c)
  <2>1. MadeFor(factories, c, calls[l])
    BY <1>1, <1>2 DEF FrameInv
  <2> QED BY <1>1, <1>2, <2>1 DEF MadeFor
<1>4. c.next \in Nat \ {0} /\ c.next + 1 =< Len(DepsIn(factories, c)) + 1 /\ Progress(factories, c)
  <2>1. DepsIn(factories, c) \in Seq(Deps) /\ c.next \in Nat \ {0}
    BY <1>3, FrameType
  <2> QED BY <1>3, <2>1 DEF FrameInv
<1> HIDE DEF c, l
<1>5. /\ g \in J!Frames /\ g.id = c.id /\ g.type = c.type /\ g.root = c.root /\ g.step = c.step /\ g.next = c.next + 1
  BY <1>3, <1>4 DEF J!Frames
<1>6. Progress(factories, g)
  BY <1>3, <1>4, <1>5 DEF Progress, DepsIn
<1> HIDE DEF g
<1>7. /\ ss \in Seq(J!Frames) /\ DOMAIN ss = 1..(l - 1) /\ Len(ss) = l - 1 /\ 1..(l - 1) \subseteq DOMAIN calls
      /\ \A k \in 1..(l - 1) : ss[k] = calls[k]
  BY <1>1, <1>2, FramesPrefix DEF l
<1>8. l - 1 \in DOMAIN ss /\ calls' = [ss EXCEPT ![l - 1] = g]
  BY <1>1, <1>2, <1>7 DEF ReturnsToCaller, l, c, g
<1> HIDE DEF ss
<1>9. /\ calls' \in Seq(J!Frames) /\ DOMAIN calls' = 1..(l - 1) /\ Len(calls') = l - 1
      /\ \A k \in 1..(l - 1) : calls'[k] = IF k = l - 1 THEN g ELSE calls[k]
  BY <1>5, <1>7, <1>8, ReplaceOne
<1>10. \A k \in DOMAIN calls' : /\ calls'[k].id = calls[k].id /\ calls'[k].type = calls[k].type
                               /\ calls'[k].root = calls[k].root /\ calls'[k].step = calls[k].step
                               /\ calls'[k].next = IF k = l - 1 THEN calls[k].next + 1 ELSE calls[k].next
  BY <1>5, <1>9 DEF c
<1>11. visited' \in Seq(SUBSET Ids) /\ Len(visited') = Cardinality(Roots(calls'))
  <2>1. Roots(calls') = Roots(calls)
    <3>1. Roots(SubSeq(calls, 1, Len(calls) - 1)) = Roots(calls)
      BY <1>1, RootsPopped DEF l
    <3>2. Roots(calls') = Roots(ss)
      BY <1>7, <1>9, <1>10 DEF Roots
    <3> QED BY <3>1, <3>2 DEF ss, l
  <2>2. visited \in Seq(SUBSET Ids) /\ Len(visited) \in DOMAIN visited /\ Len(visited) = Cardinality(Roots(calls))
    BY <1>1, TopFrame DEF FrameInv
  <2>3. visited[Len(visited)] \ {calls[l].id} \in SUBSET Ids
    BY <2>2
  <2>4. visited' = [visited EXCEPT ![Len(visited)] = visited[Len(visited)] \ {calls[l].id}]
    BY DEF ReturnsToCaller, l
  <2>5. visited' \in Seq(SUBSET Ids) /\ Len(visited') = Len(visited)
    BY <2>2, <2>3, <2>4, ReplaceOne
  <2> QED BY <2>1, <2>2, <2>5
<1>12. ASSUME NEW k \in DOMAIN calls' PROVE Progress(factories, calls'[k])
  BY <1>6, <1>7, <1>9 DEF FrameInv
<1>13. ASSUME NEW k \in DOMAIN calls', k > 1 PROVE MadeFor(factories, calls'[k - 1], calls'[k])
  <2>1. k \in DOMAIN calls /\ k - 1 \in 1..(l - 1) /\ calls'[k - 1] = calls[k - 1] /\ MadeFor(factories, calls[k - 1], calls[k])
    BY <1>1, <1>2, <1>7, <1>9, <1>13 DEF FrameInv
  <2> QED BY <1>10, <2>1 DEF MadeFor
<1>14. ASSUME NEW n \in DOMAIN calls' PROVE RootBelow(calls', n)
  <2>1. n \in DOMAIN calls /\ n \in 1..(l - 1)
    BY <1>7, <1>9
  <2>2. PICK k \in 1..n : calls[k].root /\ \A m \in (k + 1)..n : ~calls[m].root
    BY <2>1 DEF FrameInv, RootBelow
  <2>3. calls'[k].root /\ \A m \in (k + 1)..n : ~calls'[m].root
    BY <1>1, <1>9, <1>10, <2>1, <2>2
  <2> QED BY <2>3 DEF RootBelow
<1> QED
  BY <1>1, <1>2, <1>9, <1>10, <1>11, <1>12, <1>13, <1>14, Zenon DEF FrameInv, l

-----------------------------------------------------------------------------
(***************************************************************************)
(* Which of these the steps of the injector are.                           *)
(***************************************************************************)
LEMMA GetPushes ==
  ASSUME DataInv, FrameInv, NEW i \in Ids, NEW t \in Types, J!get(i, t)
  PROVE  Pushes(J!Frame(i, t, TRUE)) /\ UNCHANGED <<factories, insts, built, given>>
<1>1. J!Frame(i, t, TRUE) \in J!Frames /\ J!Frame(i, t, TRUE).root
  BY DEF J!Frame, J!Frames
<1>2. calls # <<>> => calls[Len(calls)].step = "factory"
  BY DEF J!get, J!UserCode, J!At, J!Top
<1> QED
  BY <1>1, <1>2 DEF J!get, J!Frame, Pushes, MadeFor

LEMMA NextDepSteps ==
  ASSUME DataInv, FrameInv, J!NextDep
  PROVE  /\ UNCHANGED <<factories, insts, visited, built, given, outcome>> /\ calls # <<>>
         /\ \/ \E f : Pushes(f) /\ ~f.root
            \/ GoesOn([calls[Len(calls)] EXCEPT !.step = "factory"]) /\ calls[Len(calls)].step = "deps"
<1> DEFINE f == calls[Len(calls)]
           ds == DepsIn(factories, f)
<1>1. /\ calls # <<>> /\ f.step = "deps" /\ UNCHANGED <<factories, insts, visited, built, given, outcome>>
      /\ calls' = IF f.next =< Len(ds) THEN Append(calls, J!Frame(ds[f.next].id, ds[f.next].type, FALSE))
                  ELSE [calls EXCEPT ![Len(calls)] = [f EXCEPT !.step = "factory"]]
  BY DEF J!NextDep, J!At, J!Top, J!SetTop, J!Deps, DepsIn
<1>2. Len(calls) \in DOMAIN calls
  BY <1>1, TopFrame
<1>3. f \in J!Frames /\ f.next \in Nat \ {0} /\ ds \in Seq(Deps) /\ Progress(factories, f)
  BY <1>2, FrameType DEF FrameInv
<1> HIDE DEF f
<1>4. CASE f.next =< Len(ds)
  <2>1. f.next \in DOMAIN ds /\ ds[f.next] \in Deps
    <3> HIDE DEF ds
    <3> QED BY <1>3, <1>4
  <2> DEFINE d == ds[f.next]
  <2>2. d \in Deps
    BY <2>1
  <2> HIDE DEF d
  <2>3. d = [id |-> d.id, type |-> d.type] /\ d.id \in Ids /\ d.type \in Types
    BY <2>2 DEF Deps
  <2> DEFINE g == J!Frame(d.id, d.type, FALSE)
  <2>4. /\ g \in J!Frames /\ ~g.root /\ g.step = "enter" /\ g.next = 1 /\ g.id = d.id /\ g.type = d.type
    BY <2>3 DEF J!Frame, J!Frames
  <2> HIDE DEF g
  <2>5. MadeFor(factories, f, g)
    BY <1>1, <2>1, <2>3, <2>4 DEF MadeFor, d
  <2>6. calls' = Append(calls, g)
    BY <1>1, <1>4 DEF d, g
  <2> QED BY <1>1, <2>4, <2>5, <2>6 DEF Pushes, f
<1>5. CASE ~(f.next =< Len(ds))
  <2> DEFINE g == [f EXCEPT !.step = "factory"]
  <2>1. /\ g \in J!Frames /\ g.id = f.id /\ g.type = f.type /\ g.root = f.root /\ g.next = f.next /\ g.step = "factory"
    BY <1>3 DEF J!Frames
  <2>2. Len(ds) \in Nat
    <3> HIDE DEF ds
    <3> QED BY <1>3
  <2>3. f.next = Len(ds) + 1 /\ factories[f.id] # J!NoFactory
    BY <1>1, <1>3, <1>5, <2>2 DEF Progress
  <2> HIDE DEF g
  <2>4. Progress(factories, g)
    BY <2>1, <2>3 DEF Progress, DepsIn
  <2>5. calls' = [calls EXCEPT ![Len(calls)] = g]
    BY <1>1, <1>5 DEF g
  <2>6. visited' \in Seq(SUBSET Ids) /\ Len(visited') = Len(visited)
    BY <1>1 DEF FrameInv
  <2>7. GoesOn(g)
    BY <1>1, <2>1, <2>4, <2>5, <2>6 DEF GoesOn, f
  <2> QED BY <1>1, <2>7 DEF f, g
<1> QED
  BY <1>4, <1>5

LEMMA HasFactoryGoesOn ==
  ASSUME DataInv, FrameInv, J!HasFactory
  PROVE  /\ GoesOn([calls[Len(calls)] EXCEPT !.step = "deps"]) /\ calls[Len(calls)].step = "enter" /\ calls # <<>>
         /\ visited' = [visited EXCEPT ![Len(visited)] = @ \cup {calls[Len(calls)].id}]
         /\ insts[calls[Len(calls)].id] = J!NoInst /\ calls[Len(calls)].id \notin visited[Len(visited)]
         /\ UNCHANGED <<factories, insts, built, given, outcome>>
<1> DEFINE f == calls[Len(calls)]
           g == [f EXCEPT !.step = "deps"]
<1>1. calls # <<>> /\ f.step = "enter"
  BY DEF J!HasFactory, J!At, J!Top
<1>2. Len(calls) \in DOMAIN calls /\ J!Top(calls) = f /\ J!Top(visited) = visited[Len(visited)] /\ Len(visited) \in DOMAIN visited
  BY <1>1, TopFrame
<1>3. f \in J!Frames /\ f.id \in Ids /\ DepsIn(factories, f) \in Seq(Deps) /\ Progress(factories, f)
  BY <1>2, FrameType DEF FrameInv
<1> HIDE DEF f
<1>4. /\ insts[f.id] = J!NoInst /\ factories[f.id] # J!NoFactory /\ f.id \notin visited[Len(visited)]
      /\ visited' = [visited EXCEPT ![Len(visited)] = @ \cup {f.id}]
      /\ calls' = [calls EXCEPT ![Len(calls)] = g]
      /\ UNCHANGED <<factories, insts, built, given, outcome>>
  BY <1>2 DEF J!HasFactory, J!Stored, J!Defined, J!SetTop
<1>5. g \in J!Frames /\ g.id = f.id /\ g.type = f.type /\ g.root = f.root /\ g.next = f.next /\ g.step = "deps"
  BY <1>3 DEF J!Frames
<1> HIDE DEF g
<1>6. Progress(factories, g)
  <2>1. f.next = 1 /\ Len(DepsIn(factories, f)) \in Nat
    BY <1>1, <1>3 DEF Progress, f
  <2> QED BY <1>4, <1>5, <2>1 DEF Progress, DepsIn
<1>7. visited' \in Seq(SUBSET Ids) /\ Len(visited') = Len(visited)
  <2>1. visited \in Seq(SUBSET Ids) /\ visited[Len(visited)] \cup {f.id} \in SUBSET Ids
    BY <1>2, <1>3 DEF FrameInv
  <2>2. visited' = [visited EXCEPT ![Len(visited)] = visited[Len(visited)] \cup {f.id}]
    BY <1>4
  <2> QED BY <1>2, <2>1, <2>2, ReplaceOne
<1>8. GoesOn(g)
  BY <1>1, <1>4, <1>5, <1>6, <1>7 DEF GoesOn, f
<1> QED
  BY <1>1, <1>4, <1>8 DEF f, g

LEMMA ThrowCuts ==
  ASSUME DataInv, FrameInv, NEW e, J!Throw(e), calls # <<>>
  PROVE  Cuts(J!Root) /\ UNCHANGED <<factories, insts, given>>
BY TopFrame DEF J!Throw, Cuts

LEMMA ReturnSteps ==
  ASSUME DataInv, FrameInv, NEW inst, J!Return(inst), calls # <<>>
  PROVE  /\ given' = given \cup {[id |-> calls[Len(calls)].id, serial |-> inst.serial,
                                  early |-> J!BeingMade(calls[Len(calls)].id)]}
         /\ IF calls[Len(calls)].root THEN Cuts(Len(calls)) ELSE ReturnsToCaller
<1> DEFINE f == calls[Len(calls)]
           rest == SubSeq(calls, 1, Len(calls) - 1)
<1>1. /\ Len(calls) \in DOMAIN calls /\ J!Top(calls) = f /\ calls \in Seq(J!Frames) /\ DOMAIN calls = 1..Len(calls)
      /\ J!Top(visited) = visited[Len(visited)]
  BY TopFrame DEF FrameInv
<1>2. /\ given' = given \cup {[id |-> f.id, serial |-> inst.serial, early |-> J!BeingMade(f.id)]}
      /\ visited' = IF f.root THEN J!Pop(visited) ELSE J!Erased(f)
      /\ calls' = IF f.root THEN rest ELSE J!SetTop(rest, [J!Top(rest) EXCEPT !.next = @ + 1])
  BY <1>1 DEF J!Return, J!Pop
<1>3. ASSUME f.root PROVE Cuts(Len(calls))
  <2>1. LastRoot(calls, Len(calls))
    BY <1>1, <1>3 DEF LastRoot
  <2> QED BY <1>1, <1>2, <1>3, <2>1 DEF Cuts
<1>4. ASSUME ~f.root PROVE ReturnsToCaller
  <2>1. Len(rest) = Len(calls) - 1 /\ Len(calls) > 1
    <3>1. PICK k \in 1..Len(calls) : calls[k].root /\ \A m \in (k + 1)..Len(calls) : ~calls[m].root
      BY <1>1 DEF FrameInv, RootBelow
    <3>2. Len(calls) > 1
      BY <1>1, <1>4, <3>1
    <3> QED BY <1>1, <3>2
  <2>2. J!Top(rest) = calls[Len(calls) - 1]
    BY <1>1, <2>1 DEF J!Top
  <2>3. calls' = [rest EXCEPT ![Len(calls) - 1] = [calls[Len(calls) - 1] EXCEPT !.next = @ + 1]]
    <3> HIDE DEF rest, f
    <3> QED BY <1>2, <1>4, <2>1, <2>2 DEF J!SetTop
  <2>4. visited' = [visited EXCEPT ![Len(visited)] = @ \ {f.id}]
    BY <1>1, <1>2, <1>4 DEF J!Erased, J!SetTop
  <2> QED BY <1>4, <2>3, <2>4 DEF ReturnsToCaller
<1> QED
  BY <1>2, <1>3, <1>4

-----------------------------------------------------------------------------
(***************************************************************************)
(* The steps of the injector as the rest of the proofs see them.           *)
(***************************************************************************)
InnerId == calls[Len(calls)].id
InnerType == calls[Len(calls)].type
InnerStep == calls[Len(calls)].step

Leaves == IF calls[Len(calls)].root THEN Cuts(Len(calls)) ELSE ReturnsToCaller

Registers ==
  /\ UNCHANGED <<calls, visited, given>> /\ outcome' = J!NoOutcome
  /\ \E i \in Ids :
       /\ insts[i] = J!NoInst /\ factories[i] = J!NoFactory
       /\ \/ /\ UNCHANGED <<insts, built>>
             /\ \E d \in Declarations : factories' = [factories EXCEPT ![i] = d]
          \/ /\ UNCHANGED factories /\ built < MaxBuilt /\ built' = built + 1
             /\ \E t \in Types : insts' = [insts EXCEPT ![i] = [type |-> t, serial |-> built + 1]]

Asks(f) ==
  /\ Pushes(f) /\ UNCHANGED <<factories, insts, built, given>>
  /\ outcome' = IF f.root THEN J!NoOutcome ELSE outcome

StartsMaking ==
  /\ GoesOn([calls[Len(calls)] EXCEPT !.step = "deps"]) /\ InnerStep = "enter"
  /\ insts[InnerId] = J!NoInst /\ InnerId \notin visited[Len(visited)]
  /\ visited' = [visited EXCEPT ![Len(visited)] = @ \cup {InnerId}]
  /\ UNCHANGED <<factories, insts, built, given, outcome>>

CallsFactory ==
  /\ GoesOn([calls[Len(calls)] EXCEPT !.step = "factory"]) /\ InnerStep = "deps"
  /\ UNCHANGED <<factories, insts, visited, built, given, outcome>>

Fails(r, e) ==
  /\ Cuts(r) /\ UNCHANGED <<factories, insts, given>>
  /\ built' = built \/ (built < MaxBuilt /\ built' = built + 1)
  /\ outcome' = IF Len(visited) = 1 THEN [id |-> calls[r].id, type |-> calls[r].type, error |-> e] ELSE outcome
  /\ e # "none"
  /\ e = "circular" => InnerStep = "enter" /\ InnerId \in visited[Len(visited)]
  /\ e = "missing" => insts[InnerId] = J!NoInst /\ factories[InnerId] = J!NoFactory

Gives(inst) ==
  /\ Leaves /\ calls # <<>> /\ UNCHANGED factories
  /\ inst.type = InnerType
  /\ given' = given \cup {[id |-> InnerId, serial |-> inst.serial, early |-> J!BeingMade(InnerId)]}
  /\ outcome' = IF calls[Len(calls)].root /\ Len(visited) = 1
                THEN [id |-> InnerId, type |-> InnerType, error |-> "none"] ELSE outcome

GivesStored ==
  Gives(insts[InnerId]) /\ InnerStep = "enter" /\ insts[InnerId] # J!NoInst /\ UNCHANGED <<insts, built>>

GivesMade ==
  LET new == [type |-> factories[InnerId].type, serial |-> built + 1] IN
  /\ Gives(new) /\ InnerStep = "factory" /\ built < MaxBuilt /\ built' = built + 1
  /\ insts' = [insts EXCEPT ![InnerId] = new]

LEMMA ThrowFails ==
  ASSUME DataInv, FrameInv, NEW e, J!Throw(e), calls # <<>>, e # "none",
         built' = built \/ (built < MaxBuilt /\ built' = built + 1),
         e = "circular" => InnerStep = "enter" /\ InnerId \in visited[Len(visited)],
         e = "missing" => insts[InnerId] = J!NoInst /\ factories[InnerId] = J!NoFactory
  PROVE  Fails(J!Root, e)
<1>1. J!Root \in DOMAIN calls /\ LastRoot(calls, J!Root)
  BY TopFrame
<1>2. calls[J!Root].root
  BY <1>1 DEF LastRoot
<1>3. outcome' = IF Len(visited) = 1 THEN [id |-> calls[J!Root].id, type |-> calls[J!Root].type, error |-> e] ELSE outcome
  BY <1>2 DEF J!Throw, J!Ends
<1> QED
  BY <1>3, ThrowCuts DEF Fails

LEMMA ReturnGives ==
  ASSUME DataInv, FrameInv, NEW inst, J!Return(inst), calls # <<>>, inst.type = InnerType,
         UNCHANGED factories
  PROVE  Gives(inst)
<1>1. J!Top(calls) = calls[Len(calls)]
  BY TopFrame
<1>2. outcome' = IF calls[Len(calls)].root /\ Len(visited) = 1
                 THEN [id |-> InnerId, type |-> InnerType, error |-> "none"] ELSE outcome
  BY <1>1 DEF J!Return, J!Ends, InnerId, InnerType
<1> QED
  BY <1>2, ReturnSteps DEF Gives, Leaves, InnerId

LEMMA InjectorSteps ==
  ASSUME DataInv, FrameInv, J!Next
  PROVE  \/ Registers \/ \E f : Asks(f)
         \/ StartsMaking \/ CallsFactory
         \/ \E r, e : Fails(r, e)
         \/ GivesStored \/ GivesMade
<1>1. CASE \E i \in Ids, d \in Declarations : J!factory(i, d)
  <2>1. Registers
    BY <1>1 DEF J!factory, J!Defined, J!Stored, Registers
  <2> QED BY <2>1
<1>2. CASE \E i \in Ids, t \in Values : J!value(i, t)
  <2>1. PICK i \in Ids, t \in Values : J!value(i, t)
    BY <1>2
  <2>2. t \in Types
    BY InjectorAssumption
  <2>3. Registers
    BY <2>1, <2>2 DEF J!value, J!Defined, J!Stored, Registers
  <2> QED BY <2>3
<1>3. CASE \E i \in Ids, t \in Types : J!get(i, t)
  <2>1. PICK i \in Ids, t \in Types : J!get(i, t)
    BY <1>3
  <2>2. Pushes(J!Frame(i, t, TRUE)) /\ UNCHANGED <<factories, insts, built, given>> /\ J!Frame(i, t, TRUE).root
    BY <2>1, GetPushes DEF J!Frame
  <2>3. Asks(J!Frame(i, t, TRUE))
    BY <2>1, <2>2 DEF Asks, J!get
  <2> QED BY <2>3
<1>4. CASE J!Circular
  <2>1. calls # <<>> /\ J!Throw("circular") /\ UNCHANGED built /\ J!Top(calls).id \in J!Top(visited)
    BY <1>4 DEF J!Circular, J!At
  <2>2. InnerStep = "enter" /\ InnerId \in visited[Len(visited)]
    BY <1>4, <2>1, TopFrame DEF InnerId, InnerStep, J!Circular, J!At
  <2>3. Fails(J!Root, "circular")
    BY <2>1, <2>2, ThrowFails
  <2> QED BY <2>3
<1>5. CASE J!Found
  <2>1. calls # <<>> /\ J!Top(calls) = calls[Len(calls)] /\ UNCHANGED built
    BY <1>5, TopFrame DEF J!Found, J!At
  <2>2. InnerStep = "enter" /\ insts[InnerId] # J!NoInst
    BY <1>5, <2>1 DEF J!Found, J!At, J!Stored, InnerStep, InnerId
  <2>3. CASE insts[InnerId].type = InnerType
    <3>1. J!Return(insts[InnerId]) /\ UNCHANGED <<factories, insts>>
      BY <1>5, <2>1, <2>3 DEF J!Found, InnerId, InnerType
    <3>2. Gives(insts[InnerId])
      BY <2>1, <2>3, <3>1, ReturnGives
    <3> QED BY <2>1, <2>2, <3>1, <3>2 DEF GivesStored
  <2>4. CASE insts[InnerId].type # InnerType
    <3>1. J!Throw("type")
      BY <1>5, <2>1, <2>4 DEF J!Found, InnerId, InnerType
    <3>2. Fails(J!Root, "type")
      BY <2>1, <3>1, ThrowFails
    <3> QED BY <3>2
  <2> QED BY <2>3, <2>4
<1>6. CASE J!Missing
  <2>1. calls # <<>> /\ J!Top(calls) = calls[Len(calls)] /\ UNCHANGED built /\ J!Throw("missing")
    BY <1>6, TopFrame DEF J!Missing, J!At
  <2>2. insts[InnerId] = J!NoInst /\ factories[InnerId] = J!NoFactory
    BY <1>6, <2>1 DEF J!Missing, J!Defined, J!Stored, InnerId
  <2>3. Fails(J!Root, "missing")
    BY <2>1, <2>2, ThrowFails
  <2> QED BY <2>3
<1>7. CASE J!HasFactory
  <2>1. StartsMaking
    BY <1>7, HasFactoryGoesOn DEF StartsMaking, InnerStep, InnerId
  <2> QED BY <2>1
<1>8. CASE J!NextDep
  <2>1. UNCHANGED <<factories, insts, visited, built, given, outcome>>
    BY <1>8, NextDepSteps
  <2>2. CASE \E f : Pushes(f) /\ ~f.root
    BY <2>1, <2>2 DEF Asks
  <2>3. CASE GoesOn([calls[Len(calls)] EXCEPT !.step = "factory"]) /\ calls[Len(calls)].step = "deps"
    BY <2>1, <2>3 DEF CallsFactory, InnerStep
  <2> QED BY <1>8, <2>2, <2>3, NextDepSteps
<1>9. CASE J!FactoryReturns
  <2> DEFINE new == [type |-> factories[InnerId].type, serial |-> built + 1]
  <2>1. /\ calls # <<>> /\ J!Top(calls) = calls[Len(calls)]
        /\ built < MaxBuilt /\ built' = built + 1
    BY <1>9, TopFrame DEF J!FactoryReturns, J!At
  <2>2. InnerStep = "factory"
    BY <1>9, <2>1 DEF J!FactoryReturns, J!At, InnerStep
  <2>3. CASE new.type = InnerType
    <3>1. J!Return(new) /\ insts' = [insts EXCEPT ![InnerId] = new] /\ UNCHANGED factories
      BY <1>9, <2>1, <2>3 DEF J!FactoryReturns, InnerId, InnerType
    <3>2. Gives(new)
      BY <2>1, <2>3, <3>1, ReturnGives
    <3> QED BY <2>1, <2>2, <3>1, <3>2 DEF GivesMade
  <2>4. CASE new.type # InnerType
    <3>1. J!Throw("type")
      BY <1>9, <2>1, <2>4 DEF J!FactoryReturns, InnerId, InnerType
    <3>2. Fails(J!Root, "type")
      BY <2>1, <3>1, ThrowFails
    <3> QED BY <3>2
  <2> QED BY <2>3, <2>4
<1>10. CASE J!FactoryThrows
  <2>1. calls # <<>> /\ J!Throw("user") /\ UNCHANGED built
    BY <1>10 DEF J!FactoryThrows, J!At
  <2>2. Fails(J!Root, "user")
    BY <2>1, ThrowFails
  <2> QED BY <2>2
<1> QED
  BY <1>1, <1>2, <1>3, <1>4, <1>5, <1>6, <1>7, <1>8, <1>9, <1>10 DEF J!Next

-----------------------------------------------------------------------------
(***************************************************************************)
(* These steps keep the data and the frames in order.                      *)
(***************************************************************************)
\* A factory is registered only under an id that has none: no frame is at its dependencies or in it.
LEMMA FramesKept ==
  ASSUME DataInv, FrameInv, UNCHANGED <<calls, visited>>,
         \A i \in Ids : factories[i] # J!NoFactory => factories'[i] = factories[i]
  PROVE  FrameInv'
<1>1. ASSUME NEW k \in DOMAIN calls, calls[k].step # "enter"
      PROVE  /\ factories[calls[k].id] # J!NoFactory /\ factories'[calls[k].id] = factories[calls[k].id]
             /\ DepsIn(factories', calls[k]) = DepsIn(factories, calls[k])
  <2>1. calls[k].id \in Ids /\ Progress(factories, calls[k])
    BY FrameType DEF FrameInv
  <2> QED BY <1>1, <2>1 DEF Progress, DepsIn
<1>2. ASSUME NEW k \in DOMAIN calls PROVE Progress(factories', calls[k])
  <2>1. Progress(factories, calls[k])
    BY DEF FrameInv
  <2> QED BY <1>1, <2>1 DEF Progress
<1>3. ASSUME NEW k \in DOMAIN calls, k > 1 PROVE MadeFor(factories', calls[k - 1], calls[k])
  <2>1. MadeFor(factories, calls[k - 1], calls[k]) /\ k - 1 \in DOMAIN calls
    <3>1. DOMAIN calls = 1..Len(calls) /\ Len(calls) \in Nat
      BY DEF FrameInv
    <3> QED BY <1>3, <3>1 DEF FrameInv
  <2> QED BY <1>1, <2>1 DEF MadeFor
<1> QED
  BY <1>2, <1>3 DEF FrameInv

LEMMA FactoriesGrow ==
  ASSUME DataInv, FrameInv, J!Next, NEW i \in Ids, factories[i] # J!NoFactory
  PROVE  factories'[i] = factories[i]
BY InjectorSteps
   DEF Registers, Asks, StartsMaking, CallsFactory, Fails, GivesStored, GivesMade, Gives, DataInv

\* An instance is replaced only by one of the same type, and never dropped.
LEMMA InstancesStay ==
  ASSUME DataInv, FrameInv, J!Next, NEW i \in Ids, insts[i] # J!NoInst
  PROVE  insts'[i] # J!NoInst /\ insts'[i].type = insts[i].type
<1>1. CASE GivesMade
  <2>1. insts' = [insts EXCEPT ![InnerId] = [type |-> factories[InnerId].type, serial |-> built + 1]]
    BY <1>1 DEF GivesMade
  <2>2. CASE i = InnerId
    <3>1. insts'[i] = [type |-> factories[InnerId].type, serial |-> built + 1]
      BY <2>1, <2>2 DEF DataInv
    <3>2. calls # <<>> /\ InnerStep = "factory"
      BY <1>1 DEF GivesMade, Gives
    <3>3. factories[InnerId] # J!NoFactory
      BY <3>2, TopFrame DEF FrameInv, Progress, InnerId, InnerStep
    <3>4. insts[i].type = factories[i].type /\ insts[i].type \in Types
      BY <2>2, <3>3 DEF DataInv
    <3> QED BY <2>2, <3>1, <3>4, InjectorAssumption DEF J!NoInst
  <2>3. CASE i # InnerId
    BY <2>1, <2>3 DEF DataInv
  <2> QED BY <2>2, <2>3
<1>2. CASE Registers
  <2>1. insts'[i] = insts[i]
    BY <1>2 DEF Registers, DataInv
  <2> QED BY <2>1
<1>3. CASE UNCHANGED insts
  BY <1>3
<1> QED
  BY <1>1, <1>2, <1>3, InjectorSteps DEF Asks, StartsMaking, CallsFactory, Fails, GivesStored, Gives

LEMMA FrameNext == ASSUME DataInv, FrameInv, J!Next PROVE FrameInv'
<1>1. CASE Registers
  BY <1>1, FactoriesGrow, FramesKept DEF Registers
<1>2. CASE \E f : Asks(f)
  BY <1>2, FramesPushed DEF Asks
<1>3. CASE StartsMaking
  BY <1>3, FramesGoOn DEF StartsMaking
<1>4. CASE CallsFactory
  BY <1>4, FramesGoOn DEF CallsFactory
<1>5. CASE \E r, e : Fails(r, e)
  BY <1>5, FramesCut DEF Fails
<1>6. ASSUME NEW inst, Gives(inst) PROVE FrameInv'
  BY <1>6, FramesCut, FramesReturn DEF Gives, Leaves
<1> QED
  BY <1>1, <1>2, <1>3, <1>4, <1>5, <1>6, InjectorSteps DEF GivesStored, GivesMade

LEMMA NewInst ==
  ASSUME DataInv, NEW i \in Ids, NEW t \in Types, built < MaxBuilt,
         factories[i] = J!NoFactory \/ factories[i].type = t, UNCHANGED factories,
         insts' = [insts EXCEPT ![i] = [type |-> t, serial |-> built + 1]], built' = built + 1,
         NEW e \in BOOLEAN, given' = given \/ given' = given \cup {[id |-> i, serial |-> built + 1, early |-> e]}
  PROVE  DataInv'
<1> DEFINE new == [type |-> t, serial |-> built + 1]
<1>1. built + 1 \in 1..MaxBuilt
  BY InjectorAssumption DEF DataInv
<1>2. new \in J!Insts /\ new.type = t /\ new.serial = built + 1
  BY <1>1 DEF J!Insts
<1> HIDE DEF new
<1>3. insts' = [insts EXCEPT ![i] = new]
  BY DEF new
<1>4. insts' \in [Ids -> J!Insts] /\ \A j \in Ids : insts'[j] = IF j = i THEN new ELSE insts[j]
  BY <1>2, <1>3 DEF DataInv
<1>5. built' \in 0..MaxBuilt /\ given' \subseteq [id : Ids, serial : 1..MaxBuilt, early : BOOLEAN]
  BY <1>1 DEF DataInv
<1> QED
  BY <1>1, <1>2, <1>4, <1>5 DEF DataInv

LEMMA DataNext == ASSUME DataInv, FrameInv, J!Next PROVE DataInv'
<1>1. CASE Registers
  <2>1. PICK i \in Ids :
          /\ insts[i] = J!NoInst /\ factories[i] = J!NoFactory
          /\ \/ /\ UNCHANGED <<insts, built>>
                /\ \E d \in Declarations : factories' = [factories EXCEPT ![i] = d]
             \/ /\ UNCHANGED factories /\ built < MaxBuilt /\ built' = built + 1
                /\ \E t \in Types : insts' = [insts EXCEPT ![i] = [type |-> t, serial |-> built + 1]]
    BY <1>1 DEF Registers
  <2>2. CASE UNCHANGED <<insts, built>>
    <3>1. PICK d \in Declarations : factories' = [factories EXCEPT ![i] = d]
      BY <2>1, <2>2 DEF DataInv
    <3> QED BY <1>1, <2>1, <2>2, <3>1 DEF Registers, DataInv
  <2>3. CASE UNCHANGED factories /\ built < MaxBuilt /\ built' = built + 1
    <3>1. PICK t \in Types : insts' = [insts EXCEPT ![i] = [type |-> t, serial |-> built + 1]]
      BY <2>1, <2>3 DEF DataInv
    <3> QED BY <1>1, <2>1, <2>3, <3>1, NewInst DEF Registers
  <2> QED BY <2>1, <2>2, <2>3
<1>2. CASE \E f : Asks(f)
  <2>1. PICK f : Asks(f)
    BY <1>2
  <2> QED BY <2>1 DEF Asks, DataInv
<1>3. CASE StartsMaking \/ CallsFactory
  BY <1>3 DEF StartsMaking, CallsFactory, DataInv
<1>4. CASE \E r, e : Fails(r, e)
  <2>1. built' \in 0..MaxBuilt
    BY <1>4, InjectorAssumption DEF Fails, DataInv
  <2> QED BY <1>4, <2>1 DEF Fails, DataInv
<1>5. CASE GivesStored
  <2>1. InnerId \in Ids
    BY <1>5, TopFrame, FrameType DEF GivesStored, Gives, InnerId
  <2>2. [id |-> InnerId, serial |-> insts[InnerId].serial, early |-> J!BeingMade(InnerId)]
          \in [id : Ids, serial : 1..MaxBuilt, early : BOOLEAN]
    BY <1>5, <2>1 DEF GivesStored, DataInv, J!BeingMade
  <2> QED BY <1>5, <2>2 DEF GivesStored, Gives, DataInv
<1>6. CASE GivesMade
  <2>1. InnerId \in Ids /\ InnerType \in Types
    BY <1>6, TopFrame, FrameType DEF GivesMade, Gives, InnerId, InnerType
  <2>2. factories[InnerId].type = InnerType
    BY <1>6 DEF GivesMade, Gives
  <2>3. /\ given' = given \cup {[id |-> InnerId, serial |-> built + 1, early |-> J!BeingMade(InnerId)]}
        /\ J!BeingMade(InnerId) \in BOOLEAN
        /\ insts' = [insts EXCEPT ![InnerId] = [type |-> InnerType, serial |-> built + 1]]
        /\ UNCHANGED factories /\ built < MaxBuilt /\ built' = built + 1
    BY <1>6, <2>2 DEF GivesMade, Gives, J!BeingMade
  <2> QED BY <2>1, <2>2, <2>3, NewInst
<1> QED
  BY <1>1, <1>2, <1>3, <1>4, <1>5, <1>6, InjectorSteps

\* The injector's data and frames stay in order, in the libraries as a whole.
LEMMA RegisteredInvariant == Spec => [](DataInv /\ FrameInv)
<1>1. Init => DataInv /\ FrameInv
  BY FrameInit DEF Init
<1>2. ASSUME DataInv, FrameInv, UNCHANGED injectorVars PROVE DataInv' /\ FrameInv'
  BY <1>2 DEF injectorVars, DataInv, FrameInv
<1>3. DataInv /\ FrameInv /\ [Next]_vars => (DataInv /\ FrameInv)'
  BY <1>2, StepOfEach, DataNext, FrameNext
<1> QED
  BY <1>1, <1>3, PTL DEF Spec

(***************************************************************************)
(* The variables of the four libraries have their types, whatever is       *)
(* registered, thrown, locked, moved or called back: get() has a set of    *)
(* visited ids for each root frame, so that none is left behind when an    *)
(* exception ends several frames (injector.h:191-265).                     *)
(***************************************************************************)
THEOREM LibrariesTypeOK == Spec => []TypeOK
<1>1. DataInv /\ FrameInv /\ EventInv /\ MonitorInv /\ StackInv /\ DispatchInv /\ IteratorInv => TypeOK
  BY InjectorTypes DEF EventInv, MonitorInv, StackInv, DispatchInv, IteratorInv, TypeOK
<1> QED
  BY <1>1, RegisteredInvariant, EventInvariant, MonitorInvariant, StackInvariant, DispatchInvariant, IteratorInvariant, PTL

-----------------------------------------------------------------------------
(***************************************************************************)
(* What is stored has its dependencies.  A frame has resolved the          *)
(* dependencies before next, and an instance keeps its type when it is     *)
(* replaced, so they are still there when the factory has returned.        *)
(***************************************************************************)
Has(is, d) == is[d.id].type = d.type

HasBefore(fs, is, f) == \A n \in DOMAIN DepsIn(fs, f) : n < f.next => Has(is, DepsIn(fs, f)[n])

WiredInv ==
  /\ \A i \in Ids : insts[i] # J!NoInst => \A n \in DOMAIN factories[i].deps : Has(insts, factories[i].deps[n])
  /\ \A k \in DOMAIN calls : HasBefore(factories, insts, calls[k])

LEMMA WiredStored == WiredInv => J!StoredIsWired
BY DEF WiredInv, J!StoredIsWired, J!Stored, Has

LEMMA StillHas ==
  ASSUME DataInv, FrameInv, J!Next, NEW d \in Deps, Has(insts, d)
  PROVE  Has(insts', d)
<1>1. d.id \in Ids /\ d.type \in Types
  BY DEF Deps
<1>2. insts[d.id] # J!NoInst
  BY <1>1, InjectorAssumption DEF Has, J!NoInst
<1> QED
  BY <1>1, <1>2, InstancesStay DEF Has

LEMMA StillHasBefore ==
  ASSUME DataInv, FrameInv, J!Next, NEW f \in J!Frames, Progress(factories, f), HasBefore(factories, insts, f)
  PROVE  HasBefore(factories', insts', f)
<1>1. f.id \in Ids /\ DepsIn(factories, f) \in Seq(Deps)
  BY DepsType DEF J!Frames, DepsIn
<1>2. CASE f.step = "enter"
  <2>1. f.next = 1
    BY <1>2 DEF Progress
  <2>2. DataInv'
    BY DataNext
  <2>3. DepsIn(factories', f) \in Seq(Deps)
    <3>1. CASE factories'[f.id] = J!NoFactory
      <4>1. factories'[f.id].deps = <<>>
        BY <3>1 DEF J!NoFactory
      <4> QED BY <4>1 DEF DepsIn
    <3>2. CASE factories'[f.id] # J!NoFactory
      <4>1. factories'[f.id] \in [type : Types, deps : Seq(Deps)]
        BY <1>1, <2>2, <3>2, InjectorAssumption DEF DataInv, Deps
      <4> QED BY <4>1 DEF DepsIn
    <3> QED BY <3>1, <3>2
  <2> QED BY <2>1, <2>3 DEF HasBefore
<1>3. CASE f.step # "enter"
  <2>1. DepsIn(factories', f) = DepsIn(factories, f)
    BY <1>1, <1>3, FactoriesGrow DEF Progress, DepsIn
  <2>2. ASSUME NEW n \in DOMAIN DepsIn(factories, f), n < f.next PROVE Has(insts', DepsIn(factories, f)[n])
    <3>1. DepsIn(factories, f)[n] \in Deps
      BY <1>1
    <3> QED BY <2>2, <3>1, StillHas DEF HasBefore
  <2> QED BY <2>1, <2>2 DEF HasBefore
<1> QED
  BY <1>2, <1>3

\* An instance that was there before the step is still wired.
LEMMA StillWired ==
  ASSUME DataInv, FrameInv, WiredInv, J!Next, NEW i \in Ids, insts[i] # J!NoInst,
         NEW n \in DOMAIN factories'[i].deps, factories'[i].deps = factories[i].deps
  PROVE  Has(insts', factories'[i].deps[n])
<1>1. factories[i].deps \in Seq(Deps)
  BY DepsType
<1>2. factories[i].deps[n] \in Deps
  BY <1>1
<1>3. Has(insts, factories[i].deps[n])
  BY DEF WiredInv
<1> QED
  BY <1>2, <1>3, StillHas

\* The dependencies of an id that has an instance, or gets one now, are those it had.
LEMMA DepsStay ==
  ASSUME DataInv, FrameInv, J!Next, NEW i \in Ids, insts'[i] # J!NoInst
  PROVE  factories'[i].deps = factories[i].deps
<1>1. CASE Registers
  BY <1>1 DEF Registers, DataInv
<1>2. CASE UNCHANGED factories
  BY <1>2
<1> QED
  BY <1>1, <1>2, InjectorSteps DEF Asks, StartsMaking, CallsFactory, Fails, GivesStored, GivesMade, Gives

LEMMA InnerFrame ==
  ASSUME DataInv, FrameInv, calls # <<>>
  PROVE  /\ Len(calls) \in DOMAIN calls /\ DOMAIN calls = 1..Len(calls) /\ Len(calls) \in Nat
         /\ calls[Len(calls)] \in J!Frames /\ InnerId \in Ids /\ InnerType \in Types
         /\ factories[InnerId].deps \in Seq(Deps)
         /\ Progress(factories, calls[Len(calls)])
<1>1. Len(calls) \in DOMAIN calls /\ DOMAIN calls = 1..Len(calls) /\ Len(calls) \in Nat
  BY TopFrame DEF FrameInv
<1> QED
  BY <1>1, FrameType DEF FrameInv, InnerId, InnerType, DepsIn

LEMMA WiredStoredNext ==
  ASSUME DataInv, FrameInv, WiredInv, J!Next, NEW i \in Ids, insts'[i] # J!NoInst,
         NEW n \in DOMAIN factories'[i].deps
  PROVE  Has(insts', factories'[i].deps[n])
<1>1. factories'[i].deps = factories[i].deps /\ factories[i].deps \in Seq(Deps)
  BY DepsStay, DepsType
<1>2. CASE insts[i] # J!NoInst
  BY <1>1, <1>2, StillWired
<1>3. CASE insts[i] = J!NoInst /\ Registers
  <2>1. factories[i] = J!NoFactory
    BY <1>3 DEF Registers, DataInv
  <2> QED BY <1>1, <2>1 DEF J!NoFactory
<1>4. CASE insts[i] = J!NoInst /\ GivesMade
  <2>1. i = InnerId
    BY <1>4 DEF GivesMade, DataInv
  <2>2. calls # <<>> /\ InnerStep = "factory"
    BY <1>4 DEF GivesMade, Gives
  <2>3. Len(calls) \in DOMAIN calls /\ Progress(factories, calls[Len(calls)])
    BY <2>2, InnerFrame
  <2>4. calls[Len(calls)].next = Len(factories[i].deps) + 1 /\ HasBefore(factories, insts, calls[Len(calls)])
    BY <2>1, <2>2, <2>3 DEF Progress, DepsIn, InnerStep, InnerId, WiredInv
  <2>5. n \in DOMAIN factories[i].deps /\ n < calls[Len(calls)].next /\ factories[i].deps[n] \in Deps
    BY <1>1, <2>4
  <2>6. Has(insts, factories[i].deps[n])
    BY <2>1, <2>4, <2>5 DEF HasBefore, DepsIn, InnerId
  <2> QED BY <1>1, <2>5, <2>6, StillHas
<1>5. CASE UNCHANGED insts
  BY <1>2, <1>5
<1> QED
  BY <1>2, <1>3, <1>4, <1>5, InjectorSteps DEF Asks, StartsMaking, CallsFactory, Fails, GivesStored, Gives

LEMMA WiredFramesNext ==
  ASSUME DataInv, FrameInv, WiredInv, J!Next, NEW k \in DOMAIN calls'
  PROVE  HasBefore(factories', insts', calls'[k])
<1>1. ASSUME NEW j \in DOMAIN calls
      PROVE  calls[j] \in J!Frames /\ HasBefore(factories', insts', calls[j])
  BY StillHasBefore, FrameType DEF WiredInv, FrameInv
<1>2. CASE Registers
  BY <1>1, <1>2 DEF Registers
<1>3. ASSUME NEW f, Asks(f) PROVE HasBefore(factories', insts', calls'[k])
  <2>1. Pushes(f) /\ f.next = 1 /\ f.id \in Ids /\ factories' = factories
    BY <1>3 DEF Asks, Pushes, J!Frames
  <2>2. DepsIn(factories', f) \in Seq(Deps)
    BY <2>1, DepsType DEF DepsIn
  <2>3. HasBefore(factories', insts', f)
    BY <2>1, <2>2 DEF HasBefore
  <2>4. calls'[k] = f \/ (k \in DOMAIN calls /\ calls'[k] = calls[k])
    BY <1>3, <2>1, FramesPushed DEF Asks
  <2> QED BY <1>1, <2>3, <2>4
<1>4. ASSUME NEW g, GoesOn(g), UNCHANGED factories PROVE HasBefore(factories', insts', calls'[k])
  <2>1. k \in DOMAIN calls /\ calls'[k].id = calls[k].id /\ calls'[k].next = calls[k].next
    BY <1>4, FramesGoOn DEF GoesOn
  <2> QED BY <1>1, <2>1 DEF HasBefore, DepsIn
<1>5. ASSUME NEW r, Cuts(r), UNCHANGED factories PROVE HasBefore(factories', insts', calls'[k])
  <2>1. k \in DOMAIN calls /\ calls'[k] = calls[k]
    BY <1>5, FramesCut
  <2> QED BY <1>1, <2>1
<1>6. ASSUME ReturnsToCaller, calls # <<>>, UNCHANGED factories, insts'[InnerId].type = InnerType
      PROVE  HasBefore(factories', insts', calls'[k])
  <2>1. /\ k \in DOMAIN calls /\ k \in 1..(Len(calls) - 1) /\ Len(calls) \in DOMAIN calls /\ Len(calls) > 1
        /\ calls'[k].id = calls[k].id
        /\ calls'[k].next = IF k = Len(calls) - 1 THEN calls[k].next + 1 ELSE calls[k].next
    BY <1>6, InnerFrame, FramesReturn
  <2>2. CASE k = Len(calls) - 1
    <3>1. MadeFor(factories, calls[k], calls[Len(calls)]) /\ ~calls[Len(calls)].root
      BY <1>6, <2>1, <2>2 DEF FrameInv, ReturnsToCaller
    <3>2. calls[k].next \in DOMAIN DepsIn(factories, calls[k])
          /\ DepsIn(factories, calls[k])[calls[k].next] = [id |-> InnerId, type |-> InnerType]
      BY <3>1 DEF MadeFor, InnerId, InnerType
    <3>3. Has(insts', DepsIn(factories', calls[k])[calls[k].next])
      BY <1>6, <3>2 DEF Has
    <3>4. DepsIn(factories', calls'[k]) = DepsIn(factories', calls[k]) /\ DepsIn(factories', calls[k]) \in Seq(Deps)
      BY <1>6, <2>1, FrameType DEF DepsIn
    <3>5. ASSUME NEW n \in DOMAIN DepsIn(factories', calls[k]), n < calls[k].next + 1
          PROVE  Has(insts', DepsIn(factories', calls[k])[n])
      <4>1. n = calls[k].next \/ n < calls[k].next
        BY <2>1, <3>4, <3>5, FrameType
      <4> QED BY <1>1, <2>1, <3>3, <3>5, <4>1 DEF HasBefore
    <3> QED BY <2>1, <2>2, <3>4, <3>5 DEF HasBefore
  <2>3. CASE k # Len(calls) - 1
    BY <1>1, <2>1, <2>3 DEF HasBefore, DepsIn
  <2> QED BY <2>2, <2>3
<1>7. ASSUME NEW inst, Gives(inst), insts'[InnerId].type = InnerType PROVE HasBefore(factories', insts', calls'[k])
  BY <1>5, <1>6, <1>7 DEF Gives, Leaves
<1>8. CASE GivesStored
  <2>1. insts'[InnerId].type = InnerType
    BY <1>8 DEF GivesStored, Gives
  <2> QED BY <1>7, <1>8, <2>1 DEF GivesStored
<1>9. CASE GivesMade
  <2>1. insts'[InnerId].type = InnerType
    BY <1>9, InnerFrame DEF GivesMade, Gives, DataInv
  <2> QED BY <1>7, <1>9, <2>1 DEF GivesMade
<1> QED
  BY <1>2, <1>3, <1>4, <1>5, <1>8, <1>9, InjectorSteps DEF StartsMaking, CallsFactory, Fails

LEMMA WiredInvariant == Spec => []WiredInv
<1>1. Init => WiredInv
  BY DEF Init, J!Init, WiredInv
<1>2. ASSUME DataInv, FrameInv, WiredInv, UNCHANGED injectorVars PROVE WiredInv'
  BY <1>2 DEF injectorVars, WiredInv
<1>3. ASSUME DataInv, FrameInv, WiredInv, J!Next PROVE WiredInv'
  BY <1>3, WiredStoredNext, WiredFramesNext DEF WiredInv
<1>4. DataInv /\ FrameInv /\ WiredInv /\ [Next]_vars => WiredInv'
  BY <1>2, <1>3, StepOfEach
<1> QED
  BY <1>1, <1>4, RegisteredInvariant, PTL DEF Spec

-----------------------------------------------------------------------------
(***************************************************************************)
(* References stay.  An instance that was not given out early is that of   *)
(* its id for good: no frame is making that id, and none starts to,        *)
(* because the id is stored.  One that was given out early can only be     *)
(* replaced by a newer one.                                                *)
(***************************************************************************)
Making(f) == f.step # "enter"

Stays(r) == insts[r.id].serial = r.serial /\ \A k \in DOMAIN calls : Making(calls[k]) => calls[k].id # r.id

StayInv ==
  /\ \A r \in given : r.serial =< insts[r.id].serial /\ (~r.early => Stays(r))
  /\ \A i \in Ids : insts[i].serial =< built

LEMMA StayGiven ==
  ASSUME DataInv, NEW r \in given
  PROVE  r.id \in Ids /\ r.serial \in 1..MaxBuilt /\ r.early \in BOOLEAN /\ insts[r.id].serial \in Nat
<1>1. r.id \in Ids /\ r.serial \in 1..MaxBuilt /\ r.early \in BOOLEAN
  BY DEF DataInv
<1>2. insts[r.id] \in J!Insts
  BY <1>1 DEF DataInv
<1> QED
  BY <1>1, <1>2 DEF J!Insts

LEMMA StayReferences == DataInv /\ StayInv => J!ReferencesStay
<1> SUFFICES ASSUME DataInv, StayInv, NEW r \in given
             PROVE  insts[r.id].serial = r.serial \/ (r.early /\ insts[r.id].serial > r.serial)
  BY DEF J!ReferencesStay
<1>1. r.serial =< insts[r.id].serial /\ (~r.early => insts[r.id].serial = r.serial)
  BY DEF StayInv, Stays
<1> QED
  BY <1>1, StayGiven

\* A step keeps the references that were given: it starts to make only an id that is not stored,
\* and stores something new only for an id that is being made or is not stored.
LEMMA StayKept ==
  ASSUME DataInv, StayInv, NEW r \in given,
         insts'[r.id] = insts[r.id] \/ insts'[r.id].serial = built + 1,
         r.early \/ insts'[r.id] = insts[r.id],
         r.early \/ \A k \in DOMAIN calls' : Making(calls'[k]) => calls'[k].id # r.id
  PROVE  r.serial =< insts'[r.id].serial /\ (~r.early => Stays(r)')
<1>1. r.id \in Ids /\ r.serial \in 1..MaxBuilt /\ insts[r.id].serial \in Nat
  BY StayGiven
<1>2. r.serial =< insts[r.id].serial /\ insts[r.id].serial =< built /\ built \in Nat
  BY <1>1, InjectorAssumption DEF StayInv, DataInv
<1>3. r.serial =< insts'[r.id].serial
  BY <1>1, <1>2
<1>4. ASSUME ~r.early PROVE Stays(r)'
  BY <1>4 DEF StayInv, Stays
<1> QED
  BY <1>3, <1>4

LEMMA StayRegisters == ASSUME DataInv, FrameInv, StayInv, Registers PROVE StayInv'
<1>1. PICK i \in Ids : /\ insts[i] = J!NoInst
                       /\ \A j \in Ids : j # i => insts'[j] = insts[j]
                       /\ \/ insts'[i] = insts[i] /\ built' = built
                          \/ insts'[i].serial = built + 1 /\ built' = built + 1
  <2>1. PICK i \in Ids :
          /\ insts[i] = J!NoInst
          /\ \/ UNCHANGED <<insts, built>>
             \/ /\ built' = built + 1
                /\ \E t \in Types : insts' = [insts EXCEPT ![i] = [type |-> t, serial |-> built + 1]]
    BY DEF Registers
  <2>2. CASE UNCHANGED <<insts, built>>
    BY <2>1, <2>2
  <2>3. ASSUME built' = built + 1, NEW t \in Types, insts' = [insts EXCEPT ![i] = [type |-> t, serial |-> built + 1]]
        PROVE  /\ \A j \in Ids : j # i => insts'[j] = insts[j]
               /\ insts'[i].serial = built + 1
    BY <2>3 DEF DataInv
  <2> QED BY <2>1, <2>2, <2>3
<1>2. ASSUME NEW r \in given PROVE r.serial =< insts'[r.id].serial /\ (~r.early => Stays(r)')
  <2>1. r.id \in Ids /\ r.serial \in 1..MaxBuilt /\ r.serial =< insts[r.id].serial
    BY StayGiven DEF StayInv
  <2>2. r.id # i
    BY <1>1, <2>1 DEF J!NoInst
  <2>3. ~r.early => \A k \in DOMAIN calls' : Making(calls'[k]) => calls'[k].id # r.id
    BY DEF Registers, StayInv, Stays
  <2> QED BY <1>1, <2>1, <2>2, <2>3, StayKept
<1>3. \A j \in Ids : insts'[j].serial =< built'
  <2>1. \A j \in Ids : insts[j].serial \in Nat /\ insts[j].serial =< built /\ built \in Nat
    BY InjectorAssumption DEF StayInv, DataInv, J!Insts
  <2> QED BY <1>1, <2>1
<1> QED
  BY <1>2, <1>3 DEF StayInv, Registers

\* Steps that store nothing and give nothing.
LEMMA StayFrames ==
  ASSUME DataInv, StayInv, UNCHANGED <<insts, given>>, built' = built \/ (built < MaxBuilt /\ built' = built + 1),
         \A k \in DOMAIN calls' : Making(calls'[k]) =>
            \/ insts[calls'[k].id] = J!NoInst
            \/ \E j \in DOMAIN calls : Making(calls[j]) /\ calls[j].id = calls'[k].id
  PROVE  StayInv'
<1>1. ASSUME NEW r \in given, ~r.early, NEW k \in DOMAIN calls', Making(calls'[k]) PROVE calls'[k].id # r.id
  <2>1. r.serial \in 1..MaxBuilt /\ insts[r.id].serial = r.serial
    BY <1>1, StayGiven DEF StayInv, Stays
  <2>2. insts[r.id] # J!NoInst
    BY <2>1 DEF J!NoInst
  <2> QED BY <1>1, <2>2 DEF StayInv, Stays
<1>2. ASSUME NEW r \in given PROVE r.serial =< insts'[r.id].serial /\ (~r.early => Stays(r)')
  BY <1>1, StayKept
<1>3. \A i \in Ids : insts'[i].serial =< built'
  <2>1. \A i \in Ids : insts[i].serial \in Nat /\ insts[i].serial =< built /\ built \in Nat
    BY InjectorAssumption DEF StayInv, DataInv, J!Insts
  <2> QED BY <2>1
<1> QED
  BY <1>2, <1>3 DEF StayInv

LEMMA StayAsks == ASSUME DataInv, FrameInv, StayInv, NEW f, Asks(f) PROVE StayInv'
<1>1. /\ DOMAIN calls = 1..Len(calls) /\ DOMAIN calls' = 1..(Len(calls) + 1) /\ Len(calls) \in Nat
      /\ \A k \in DOMAIN calls' : calls'[k] = IF k = Len(calls) + 1 THEN f ELSE calls[k]
  BY FramesPushed DEF Asks
<1>2. ~Making(f) /\ UNCHANGED <<insts, given, built>>
  BY DEF Asks, Pushes, Making
<1>3. \A k \in DOMAIN calls' : Making(calls'[k]) => k \in DOMAIN calls /\ calls'[k] = calls[k]
  BY <1>1, <1>2
<1> QED
  BY <1>2, <1>3, StayFrames

LEMMA StayGoesOn ==
  ASSUME DataInv, FrameInv, StayInv, NEW g, GoesOn(g), UNCHANGED <<insts, given, built>>,
         Making(calls[Len(calls)]) \/ insts[InnerId] = J!NoInst
  PROVE  StayInv'
<1>1. /\ DOMAIN calls' = DOMAIN calls
      /\ \A k \in DOMAIN calls : calls'[k].id = calls[k].id /\ (k # Len(calls) => calls'[k] = calls[k])
  BY FramesGoOn DEF GoesOn
<1>2. ASSUME NEW k \in DOMAIN calls', Making(calls'[k])
      PROVE  \/ insts[calls'[k].id] = J!NoInst
             \/ \E j \in DOMAIN calls : Making(calls[j]) /\ calls[j].id = calls'[k].id
  <2>1. CASE k = Len(calls)
    BY <1>1, <2>1 DEF InnerId
  <2>2. CASE k # Len(calls)
    BY <1>1, <1>2, <2>2
  <2> QED BY <2>1, <2>2
<1> QED
  BY <1>2, StayFrames

LEMMA StayCuts ==
  ASSUME DataInv, FrameInv, StayInv, NEW r, Cuts(r), UNCHANGED <<factories, insts, given>>,
         built' = built \/ (built < MaxBuilt /\ built' = built + 1)
  PROVE  StayInv'
<1>1. /\ DOMAIN calls' = 1..(r - 1) /\ DOMAIN calls = 1..Len(calls) /\ r \in 1..Len(calls) /\ Len(calls) \in Nat
      /\ \A k \in 1..(r - 1) : calls'[k] = calls[k]
  BY FramesCut
<1>2. \A k \in DOMAIN calls' : k \in DOMAIN calls /\ calls'[k] = calls[k]
  BY <1>1
<1> QED
  BY <1>2, StayFrames

\* The frames below the one that returns are those that tell whether the instance is given early.
LEMMA StayLeaves ==
  ASSUME DataInv, FrameInv, calls # <<>>, Leaves, UNCHANGED factories
  PROVE  \A k \in DOMAIN calls' :
           /\ k \in 1..(Len(calls) - 1) /\ k \in DOMAIN calls
           /\ calls'[k].id = calls[k].id /\ (Making(calls'[k]) <=> Making(calls[k]))
<1>1. CASE calls[Len(calls)].root
  <2>1. /\ DOMAIN calls' = 1..(Len(calls) - 1) /\ DOMAIN calls = 1..Len(calls) /\ Len(calls) \in Nat
        /\ \A k \in 1..(Len(calls) - 1) : calls'[k] = calls[k]
    BY <1>1, FramesCut DEF Leaves
  <2> QED BY <2>1
<1>2. CASE ~calls[Len(calls)].root
  <2>1. /\ DOMAIN calls' = 1..(Len(calls) - 1) /\ DOMAIN calls = 1..Len(calls) /\ Len(calls) \in Nat
        /\ \A k \in DOMAIN calls' : calls'[k].id = calls[k].id /\ calls'[k].step = calls[k].step
    BY <1>2, FramesReturn DEF Leaves
  <2> QED BY <2>1 DEF Making
<1> QED
  BY <1>1, <1>2

LEMMA StayGives ==
  ASSUME DataInv, FrameInv, StayInv, DataInv', GivesStored \/ GivesMade
  PROVE  StayInv'
<1>1. calls # <<>> /\ Leaves /\ UNCHANGED factories /\ InnerId \in Ids /\ Len(calls) \in DOMAIN calls
  BY InnerFrame DEF GivesStored, GivesMade, Gives
<1>2. /\ given' = given \cup {[id |-> InnerId, serial |-> insts'[InnerId].serial, early |-> J!BeingMade(InnerId)]}
      /\ \A i \in Ids : insts'[i] = insts[i] \/ (insts'[i].serial = built + 1 /\ i = InnerId /\ Making(calls[Len(calls)]))
      /\ \/ built' = built /\ insts' = insts
         \/ built < MaxBuilt /\ built' = built + 1
  <2>1. CASE GivesStored
    BY <2>1 DEF GivesStored, Gives
  <2>2. CASE GivesMade
    <3> DEFINE new == [type |-> factories[InnerId].type, serial |-> built + 1]
    <3>1. \A i \in Ids : insts'[i] = IF i = InnerId THEN new ELSE insts[i]
      BY <1>1, <2>2 DEF GivesMade, DataInv
    <3>2. new.serial = built + 1 /\ insts'[InnerId] = new
      BY <1>1, <3>1
    <3> QED BY <2>2, <3>1, <3>2 DEF GivesMade, Gives, Making, InnerStep
  <2> QED BY <2>1, <2>2
<1>3. \A k \in DOMAIN calls' :
         /\ k \in 1..(Len(calls) - 1) /\ k \in DOMAIN calls
         /\ calls'[k].id = calls[k].id /\ (Making(calls'[k]) <=> Making(calls[k]))
  BY <1>1, StayLeaves
<1>4. ASSUME NEW r \in given PROVE r.serial =< insts'[r.id].serial /\ (~r.early => Stays(r)')
  <2>1. r.id \in Ids
    BY StayGiven
  <2>2. ~r.early => insts'[r.id] = insts[r.id]
    BY <1>1, <1>2, <2>1 DEF StayInv, Stays, InnerId
  <2>3. ~r.early => \A k \in DOMAIN calls' : Making(calls'[k]) => calls'[k].id # r.id
    BY <1>3 DEF StayInv, Stays
  <2> QED BY <1>2, <2>1, <2>2, <2>3, StayKept
<1>5. ASSUME NEW r, r = [id |-> InnerId, serial |-> insts'[InnerId].serial, early |-> J!BeingMade(InnerId)]
      PROVE  r.serial =< insts'[r.id].serial /\ (~r.early => Stays(r)')
  <2>1. r.id = InnerId /\ r.serial = insts'[InnerId].serial /\ r.early = J!BeingMade(InnerId)
    BY <1>5
  <2>2. insts'[InnerId].serial \in Nat
    <3>1. insts'[InnerId] \in J!Insts
      BY <1>1 DEF DataInv
    <3> QED BY <3>1 DEF J!Insts
  <2>3. ASSUME ~r.early, NEW k \in DOMAIN calls' PROVE calls'[k].id # r.id
    BY <1>3, <2>1, <2>3 DEF J!BeingMade
  <2> QED BY <2>1, <2>2, <2>3 DEF Stays
<1>6. \A i \in Ids : insts'[i].serial =< built'
  <2>1. \A i \in Ids : insts[i].serial \in Nat /\ insts[i].serial =< built /\ built \in Nat
    BY InjectorAssumption DEF StayInv, DataInv, J!Insts
  <2> QED BY <1>2, <2>1
<1> QED
  BY <1>2, <1>4, <1>5, <1>6 DEF StayInv

LEMMA StayNext == ASSUME DataInv, FrameInv, StayInv, J!Next PROVE StayInv'
<1>1. CASE StartsMaking
  <2>1. /\ GoesOn([calls[Len(calls)] EXCEPT !.step = "deps"])
        /\ insts[InnerId] = J!NoInst /\ UNCHANGED <<insts, given, built>>
    BY <1>1 DEF StartsMaking
  <2> QED BY <2>1, StayGoesOn
<1>2. CASE CallsFactory
  <2>1. /\ GoesOn([calls[Len(calls)] EXCEPT !.step = "factory"]) /\ Making(calls[Len(calls)])
        /\ UNCHANGED <<insts, given, built>>
    BY <1>2 DEF CallsFactory, Making, InnerStep
  <2> QED BY <2>1, StayGoesOn
<1>3. ASSUME NEW r, NEW e, Fails(r, e) PROVE StayInv'
  BY <1>3, StayCuts DEF Fails
<1> QED
  BY <1>1, <1>2, <1>3, DataNext, StayRegisters, StayAsks, StayGives, InjectorSteps

LEMMA StayInvariant == Spec => []StayInv
<1>1. Init => StayInv
  BY DEF Init, J!Init, StayInv, J!NoInst
<1>2. ASSUME DataInv, FrameInv, StayInv, UNCHANGED injectorVars PROVE StayInv'
  BY <1>2 DEF injectorVars, StayInv, Stays
<1>3. DataInv /\ FrameInv /\ StayInv /\ [Next]_vars => StayInv'
  BY <1>2, StayNext, StepOfEach
<1> QED
  BY <1>1, <1>3, RegisteredInvariant, PTL DEF Spec

(***************************************************************************)
(* For any declarations, and whatever the factories do: an instance that   *)
(* is stored has its dependencies, of the types its factory declares, and  *)
(* stays under the references get() returned, unless it was given out      *)
(* while a frame below was making its id; then only a newer instance       *)
(* replaces it (injector.h:249-265).                                       *)
(***************************************************************************)
THEOREM InjectorKeepsWhatItMade == Spec => []KeepsWhatItMade
<1>1. DataInv /\ WiredInv /\ StayInv => KeepsWhatItMade
  BY WiredStored, StayReferences DEF KeepsWhatItMade
<1> QED
  BY <1>1, RegisteredInvariant, WiredInvariant, StayInvariant, PTL

-----------------------------------------------------------------------------
(***************************************************************************)
(* What is reached: the smallest set of ids that has the first ones and is *)
(* closed under the dependencies that the factories fs declare.            *)
(***************************************************************************)
DepIds(fs, i) == {fs[i].deps[k].id : k \in DOMAIN fs[i].deps}

ClosedIn(fs, T) == \A i \in T : DepIds(fs, i) \subseteq T

ReachIn(fs, S) == {i \in Ids : \A T \in SUBSET Ids : S \subseteq T /\ ClosedIn(fs, T) => i \in T}

Below(fs, i) == ReachIn(fs, DepIds(fs, i))

LEMMA ReachSmallest ==
  ASSUME NEW fs, NEW S, NEW T \in SUBSET Ids, S \subseteq T, ClosedIn(fs, T)
  PROVE  ReachIn(fs, S) \subseteq T
BY DEF ReachIn

LEMMA ReachCloses ==
  ASSUME NEW fs, NEW S \in SUBSET Ids, \A i \in Ids : DepIds(fs, i) \subseteq Ids
  PROVE  ReachIn(fs, S) \in SUBSET Ids /\ S \subseteq ReachIn(fs, S) /\ ClosedIn(fs, ReachIn(fs, S))
<1>1. ReachIn(fs, S) \in SUBSET Ids /\ S \subseteq ReachIn(fs, S)
  BY DEF ReachIn
<1>2. ASSUME NEW i \in ReachIn(fs, S), NEW j \in DepIds(fs, i) PROVE j \in ReachIn(fs, S)
  <2>1. j \in Ids
    BY <1>1
  <2>2. ASSUME NEW T \in SUBSET Ids, S \subseteq T, ClosedIn(fs, T) PROVE j \in T
    <3>1. i \in T
      BY <2>2, ReachSmallest
    <3> QED BY <2>2, <3>1 DEF ClosedIn
  <2> QED BY <2>1, <2>2 DEF ReachIn
<1> QED
  BY <1>1, <1>2 DEF ClosedIn

LEMMA ReachGrows ==
  ASSUME NEW fs, NEW gs, \A i \in Ids : DepIds(fs, i) \subseteq DepIds(gs, i), NEW S, NEW R, S \subseteq R
  PROVE  ReachIn(fs, S) \subseteq ReachIn(gs, R)
<1>1. ASSUME NEW i \in ReachIn(fs, S), NEW T \in SUBSET Ids, R \subseteq T, ClosedIn(gs, T) PROVE i \in T
  <2>1. ClosedIn(fs, T)
    BY <1>1 DEF ClosedIn
  <2> QED BY <1>1, <2>1, ReachSmallest
<1> QED
  BY <1>1 DEF ReachIn

\* What is reached from dependencies of an id is reached from the id.
LEMMA BelowReached ==
  ASSUME NEW fs, NEW i \in Ids, \A j \in Ids : DepIds(fs, j) \subseteq Ids
  PROVE  /\ DepIds(fs, i) \subseteq Below(fs, i) /\ ClosedIn(fs, Below(fs, i)) /\ Below(fs, i) \in SUBSET Ids
         /\ Below(fs, i) \subseteq ReachIn(fs, {i}) /\ i \in ReachIn(fs, {i})
<1>1. DepIds(fs, i) \in SUBSET Ids /\ {i} \in SUBSET Ids
  OBVIOUS
<1>2. DepIds(fs, i) \subseteq Below(fs, i) /\ ClosedIn(fs, Below(fs, i)) /\ Below(fs, i) \in SUBSET Ids
  BY <1>1, ReachCloses DEF Below
<1>3. i \in ReachIn(fs, {i}) /\ ClosedIn(fs, ReachIn(fs, {i})) /\ ReachIn(fs, {i}) \in SUBSET Ids
  BY <1>1, ReachCloses
<1>4. DepIds(fs, i) \subseteq ReachIn(fs, {i})
  BY <1>3 DEF ClosedIn
<1> QED
  BY <1>2, <1>3, <1>4, ReachSmallest DEF Below

LEMMA DepIdsType ==
  ASSUME DataInv, NEW i \in Ids
  PROVE  DepIds(factories, i) \subseteq Ids /\ (factories[i] = J!NoFactory => DepIds(factories, i) = {})
<1>1. factories[i].deps \in Seq(Deps)
  BY DepsType
<1>2. \A k \in DOMAIN factories[i].deps : factories[i].deps[k].id \in Ids
  <2>1. ASSUME NEW k \in DOMAIN factories[i].deps PROVE factories[i].deps[k].id \in Ids
    <3>1. factories[i].deps[k] \in Deps
      BY <1>1
    <3> QED BY <3>1 DEF Deps
  <2> QED BY <2>1
<1> QED
  BY <1>2 DEF DepIds, J!NoFactory

LEMMA DepIdsGrow ==
  ASSUME DataInv, FrameInv, J!Next, NEW i \in Ids
  PROVE  DepIds(factories, i) \subseteq DepIds(factories', i)
<1>1. CASE factories[i] = J!NoFactory
  BY <1>1, DepIdsType
<1>2. CASE factories[i] # J!NoFactory
  BY <1>2, FactoriesGrow DEF DepIds
<1> QED
  BY <1>1, <1>2

LEMMA BelowGrows ==
  ASSUME DataInv, FrameInv, J!Next, NEW i \in Ids
  PROVE  Below(factories, i) \subseteq Below(factories', i)
BY DepIdsGrow, ReachGrows DEF Below

-----------------------------------------------------------------------------
(***************************************************************************)
(* Why get() ends as it does.  A frame above another, with no get() of a   *)
(* factory in between, is for an id the other depends on; what the         *)
(* outermost get() has visited, its own frames are making; and what is     *)
(* stored is on no cycle.                                                  *)
(***************************************************************************)
Chain(fs, s) ==
  \A k, j \in DOMAIN s :
    k < j /\ (\A m \in (k + 1)..j : ~s[m].root) => s[j].id \in Below(fs, s[k].id)

MadeFirst(s, i) == \E k \in DOMAIN s : s[k].id = i /\ Making(s[k]) /\ \A m \in 2..k : ~s[m].root

StoredIn(is) == {i \in Ids : is[i] # J!NoInst}

\* The outcome of the outermost get(), by its error.
CauseIn(fs, is, o) ==
  o # J!NoOutcome =>
    /\ o.error = "circular" => \E i \in ReachIn(fs, {o.id}) : i \in Below(fs, i)
    /\ o.error = "missing" => \E i \in ReachIn(fs, {o.id}) : is[i] = J!NoInst /\ fs[i] = J!NoFactory
    /\ o.error = "none" =>
         /\ is[o.id].type = o.type
         /\ \A i \in ReachIn(fs, {o.id}) : is[i] # J!NoInst /\ i \notin Below(fs, i)

CauseInv ==
  /\ outcome # J!NoOutcome => calls = <<>>
  /\ Chain(factories, calls)
  /\ visited # <<>> => \A i \in visited[1] : MadeFirst(calls, i)
  /\ \A i \in StoredIn(insts) : i \notin Below(factories, i)
  /\ CauseIn(factories, insts, outcome)

LEMMA OneRoot ==
  ASSUME DataInv, FrameInv, calls # <<>>
  PROVE  /\ 1 \in DOMAIN calls /\ calls[1].root
         /\ Len(visited) = 1 <=> \A m \in 2..Len(calls) : ~calls[m].root
<1>1. calls \in Seq(J!Frames) /\ 1 \in DOMAIN calls /\ DOMAIN calls = 1..Len(calls) /\ Len(calls) \in Nat
  BY DEF FrameInv
<1>2. calls[1].root
  BY <1>1 DEF FrameInv, RootBelow
<1>3. IsFiniteSet(Roots(calls)) /\ 1 \in Roots(calls) /\ Len(visited) = Cardinality(Roots(calls))
      /\ Cardinality(Roots(calls)) \in Nat
  BY <1>1, <1>2, RootsFinite DEF Roots, FrameInv
<1>4. IsFiniteSet(Roots(calls) \ {1}) /\ Cardinality(Roots(calls) \ {1}) = Len(visited) - 1
  BY <1>3, FS_RemoveElement
<1>5. Len(visited) = 1 <=> Roots(calls) \ {1} = {}
  BY <1>3, <1>4, FS_EmptySet
<1>6. Roots(calls) \ {1} = {} <=> \A m \in 2..Len(calls) : ~calls[m].root
  BY <1>1 DEF Roots
<1> QED
  BY <1>1, <1>2, <1>5, <1>6

\* The chain of frames that are kept.
LEMMA ChainKept ==
  ASSUME DataInv, FrameInv, J!Next, Chain(factories, calls), NEW s, NEW n \in Nat, DOMAIN s = 1..n, 1..n \subseteq DOMAIN calls,
         \A k \in 1..n : s[k].id = calls[k].id /\ s[k].root = calls[k].root
  PROVE  Chain(factories', s)
<1> SUFFICES ASSUME NEW k \in 1..n, NEW j \in 1..n, k < j, \A m \in (k + 1)..j : ~s[m].root
             PROVE  s[j].id \in Below(factories', s[k].id)
  BY DEF Chain
<1>1. \A m \in (k + 1)..j : m \in 1..n /\ ~calls[m].root
  OBVIOUS
<1>2. calls[j].id \in Below(factories, calls[k].id)
  BY <1>1 DEF Chain
<1>3. calls[k].id \in Ids
  BY FrameType
<1> QED
  BY <1>2, <1>3, BelowGrows

LEMMA ChainAsks ==
  ASSUME DataInv, FrameInv, J!Next, Chain(factories, calls), NEW f, Asks(f)
  PROVE  Chain(factories', calls')
<1>1. /\ DOMAIN calls = 1..Len(calls) /\ DOMAIN calls' = 1..(Len(calls) + 1) /\ Len(calls) \in Nat
      /\ \A k \in DOMAIN calls' : calls'[k] = IF k = Len(calls) + 1 THEN f ELSE calls[k]
  BY FramesPushed DEF Asks
<1>2. factories' = factories /\ \A i \in Ids : DepIds(factories, i) \subseteq Ids
  BY DepIdsType DEF Asks
<1> SUFFICES ASSUME NEW k \in DOMAIN calls', NEW j \in DOMAIN calls', k < j, \A m \in (k + 1)..j : ~calls'[m].root
             PROVE  calls'[j].id \in Below(factories, calls'[k].id)
  BY <1>2 DEF Chain
<1>3. k \in DOMAIN calls /\ calls'[k] = calls[k] /\ calls[k].id \in Ids
  BY <1>1, FrameType
<1>4. CASE j \in DOMAIN calls
  <2>1. calls'[j] = calls[j] /\ \A m \in (k + 1)..j : ~calls[m].root
    BY <1>1, <1>4
  <2> QED BY <1>3, <1>4, <2>1 DEF Chain
<1>5. CASE j \notin DOMAIN calls
  <2>1. j = Len(calls) + 1 /\ calls'[j] = f /\ ~f.root /\ calls # <<>> /\ Len(calls) \in DOMAIN calls
    BY <1>1, <1>3, <1>5
  <2>2. MadeFor(factories, calls[Len(calls)], f) /\ f \in J!Frames
    BY <2>1 DEF Asks, Pushes
  <2> DEFINE c == calls[Len(calls)]
  <2>3. c.next \in DOMAIN DepsIn(factories, c) /\ DepsIn(factories, c)[c.next] = [id |-> f.id, type |-> f.type]
    BY <2>1, <2>2 DEF MadeFor
  <2>4. f.id \in DepIds(factories, InnerId)
    BY <2>3 DEF DepIds, DepsIn, InnerId
  <2> HIDE DEF c
  <2>5. CASE k = Len(calls)
    BY <1>2, <1>3, <2>1, <2>4, <2>5, BelowReached DEF InnerId
  <2>6. CASE k # Len(calls)
    <3>1. k < Len(calls) /\ \A m \in (k + 1)..Len(calls) : ~calls[m].root
      BY <1>1, <1>3, <2>1, <2>6
    <3>2. InnerId \in Below(factories, calls[k].id)
      BY <1>3, <2>1, <3>1 DEF Chain, InnerId
    <3>3. ClosedIn(factories, Below(factories, calls[k].id))
      BY <1>2, <1>3, BelowReached
    <3> QED BY <1>3, <2>1, <2>4, <3>2, <3>3 DEF ClosedIn
  <2> QED BY <2>5, <2>6
<1> QED
  BY <1>4, <1>5

LEMMA ChainNext == ASSUME DataInv, FrameInv, J!Next, Chain(factories, calls) PROVE Chain(factories', calls')
<1>1. ASSUME NEW n \in Nat, DOMAIN calls' = 1..n, 1..n \subseteq DOMAIN calls,
             \A k \in 1..n : calls'[k].id = calls[k].id /\ calls'[k].root = calls[k].root
      PROVE  Chain(factories', calls')
  BY <1>1, ChainKept
<1>2. DOMAIN calls = 1..Len(calls) /\ Len(calls) \in Nat
  BY DEF FrameInv
<1>3. CASE Registers
  BY <1>1, <1>2, <1>3, Zenon DEF Registers
<1>4. ASSUME NEW g, GoesOn(g), UNCHANGED factories PROVE Chain(factories', calls')
  <2>1. DOMAIN calls' = DOMAIN calls /\ \A k \in DOMAIN calls : calls'[k].id = calls[k].id /\ calls'[k].root = calls[k].root
    BY <1>4, FramesGoOn DEF GoesOn
  <2> QED BY <1>1, <1>2, <2>1, Zenon
<1>5. ASSUME NEW r, Cuts(r), UNCHANGED factories PROVE Chain(factories', calls')
  <2>1. /\ DOMAIN calls' = 1..(r - 1) /\ r - 1 \in Nat /\ 1..(r - 1) \subseteq DOMAIN calls
        /\ \A k \in 1..(r - 1) : calls'[k] = calls[k]
    BY <1>2, <1>5, FramesCut
  <2> QED BY <1>1, <2>1
<1>6. ASSUME ReturnsToCaller, UNCHANGED factories PROVE Chain(factories', calls')
  <2>1. /\ DOMAIN calls' = 1..(Len(calls) - 1) /\ Len(calls) - 1 \in Nat /\ 1..(Len(calls) - 1) \subseteq DOMAIN calls
        /\ \A k \in 1..(Len(calls) - 1) : calls'[k].id = calls[k].id /\ calls'[k].root = calls[k].root
    BY <1>2, <1>6, FramesReturn
  <2> QED BY <1>1, <2>1
<1> QED
  BY <1>3, <1>4, <1>5, <1>6, ChainAsks, InjectorSteps
     DEF StartsMaking, CallsFactory, Fails, GivesStored, GivesMade, Gives, Leaves

\* What the outermost get() has visited.
LEMMA FirstNext ==
  ASSUME DataInv, FrameInv, J!Next, visited # <<>> => \A i \in visited[1] : MadeFirst(calls, i),
         visited' # <<>>, NEW i \in visited'[1]
  PROVE  MadeFirst(calls', i)
<1>1. visited \in Seq(SUBSET Ids) /\ DOMAIN calls = 1..Len(calls) /\ Len(calls) \in Nat /\ Len(visited) \in Nat
  BY DEF FrameInv
\* A frame that stays as it is.
<1>2. ASSUME NEW k \in DOMAIN calls, k \in DOMAIN calls', calls[k].id = i, Making(calls[k]), \A m \in 2..k : ~calls[m].root,
             Making(calls'[k]), calls'[k].id = calls[k].id, \A m \in 2..k : calls'[m].root = calls[m].root
      PROVE  MadeFirst(calls', i)
  BY <1>2 DEF MadeFirst
<1>3. CASE Registers
  BY <1>3 DEF Registers
<1>4. ASSUME NEW f, Asks(f) PROVE MadeFirst(calls', i)
  <2>1. visited' = visited \/ visited' = Append(visited, {})
    BY <1>4 DEF Asks, Pushes
  <2>2. visited # <<>> /\ i \in visited[1]
    BY <1>1, <2>1
  <2>3. PICK k \in DOMAIN calls : calls[k].id = i /\ Making(calls[k]) /\ \A m \in 2..k : ~calls[m].root
    BY <2>2 DEF MadeFirst
  <2>4. k \in DOMAIN calls' /\ \A m \in DOMAIN calls : calls'[m] = calls[m]
    BY <1>1, <1>4, FramesPushed DEF Asks
  <2>5. \A m \in 2..k : m \in DOMAIN calls
    BY <1>1
  <2> QED BY <1>2, <2>3, <2>4, <2>5
<1>5. ASSUME NEW g, GoesOn(g), UNCHANGED factories, i \in visited[1] PROVE MadeFirst(calls', i)
  <2>1. visited # <<>>
    BY <1>1, <1>5, TopFrame DEF GoesOn
  <2>2. PICK k \in DOMAIN calls : calls[k].id = i /\ Making(calls[k]) /\ \A m \in 2..k : ~calls[m].root
    BY <1>5, <2>1 DEF MadeFirst
  <2>3. /\ DOMAIN calls' = DOMAIN calls
        /\ \A m \in DOMAIN calls : /\ calls'[m].id = calls[m].id /\ calls'[m].root = calls[m].root
                                   /\ (Making(calls[m]) => Making(calls'[m]))
    BY <1>5, FramesGoOn DEF GoesOn, Making
  <2>4. \A m \in 2..k : m \in DOMAIN calls
    BY <1>1
  <2> QED BY <1>2, <2>2, <2>3, <2>4
<1>6. CASE StartsMaking /\ i \notin visited[1]
  <2>1. /\ GoesOn([calls[Len(calls)] EXCEPT !.step = "deps"]) /\ calls # <<>> /\ UNCHANGED factories
        /\ visited' = [visited EXCEPT ![Len(visited)] = @ \cup {InnerId}]
    BY <1>6 DEF StartsMaking, GoesOn
  <2>2. Len(visited) \in DOMAIN visited
    BY <2>1, TopFrame
  <2>3. Len(visited) = 1 /\ i = InnerId
    BY <1>1, <1>6, <2>1, <2>2
  <2>4. \A m \in 2..Len(calls) : ~calls[m].root
    BY <2>1, <2>3, OneRoot
  <2>5. PICK g : g = [calls[Len(calls)] EXCEPT !.step = "deps"]
    OBVIOUS
  <2>6. GoesOn(g) /\ UNCHANGED factories
    BY <2>1, <2>5
  <2>7. /\ DOMAIN calls' = DOMAIN calls /\ Len(calls) \in DOMAIN calls
        /\ \A m \in DOMAIN calls : calls'[m].id = calls[m].id /\ calls'[m].root = calls[m].root
        /\ Making(calls'[Len(calls)])
    BY <2>6, FramesGoOn DEF GoesOn, Making
  <2>8. \A m \in 2..Len(calls) : m \in DOMAIN calls
    BY <1>1
  <2> QED BY <2>3, <2>4, <2>7, <2>8 DEF MadeFirst, InnerId
<1>7. ASSUME NEW r, Cuts(r), UNCHANGED factories PROVE MadeFirst(calls', i)
  <2>1. /\ DOMAIN calls' = 1..(r - 1) /\ r \in DOMAIN calls /\ LastRoot(calls, r) /\ calls # <<>>
        /\ \A k \in 1..(r - 1) : calls'[k] = calls[k]
    BY <1>1, <1>7, FramesCut DEF Cuts
  <2>2. Len(visited) # 1 /\ visited # <<>> /\ i \in visited[1]
    <3>1. visited' = SubSeq(visited, 1, Len(visited) - 1)
      BY <1>7 DEF Cuts, J!Pop
    <3> QED BY <1>1, <3>1
  <2>3. PICK k \in DOMAIN calls : calls[k].id = i /\ Making(calls[k]) /\ \A m \in 2..k : ~calls[m].root
    BY <2>2 DEF MadeFirst
  <2>4. PICK m \in 2..Len(calls) : calls[m].root
    BY <2>1, <2>2, OneRoot, Zenon
  <2>5. k < r
    BY <1>1, <2>1, <2>3, <2>4 DEF LastRoot
  <2>6. k \in DOMAIN calls' /\ \A n \in 1..k : calls'[n] = calls[n]
    BY <1>1, <2>1, <2>5
  <2>7. \A n \in 2..k : n \in 1..k
    OBVIOUS
  <2> QED BY <1>1, <1>2, <2>3, <2>6, <2>7
<1>8. ASSUME ReturnsToCaller, UNCHANGED factories PROVE MadeFirst(calls', i)
  <2>1. /\ DOMAIN calls' = 1..(Len(calls) - 1) /\ Len(calls) > 1 /\ calls # <<>>
        /\ \A k \in DOMAIN calls' : /\ calls'[k].id = calls[k].id /\ calls'[k].root = calls[k].root
                                    /\ calls'[k].step = calls[k].step
    BY <1>8, FramesReturn DEF ReturnsToCaller
  <2>2. Len(visited) \in DOMAIN visited /\ visited' = [visited EXCEPT ![Len(visited)] = @ \ {InnerId}]
    BY <1>8, <2>1, TopFrame DEF ReturnsToCaller, InnerId
  <2>3. visited # <<>> /\ i \in visited[1] /\ (Len(visited) = 1 => i # InnerId)
    BY <1>1, <2>2
  <2>4. PICK k \in DOMAIN calls : calls[k].id = i /\ Making(calls[k]) /\ \A m \in 2..k : ~calls[m].root
    BY <2>3 DEF MadeFirst
  <2>5. k # Len(calls)
    BY <2>1, <2>3, <2>4, OneRoot DEF InnerId
  <2>6. k \in DOMAIN calls' /\ \A m \in 2..k : m \in DOMAIN calls'
    BY <1>1, <2>1, <2>5
  <2> QED BY <1>2, <2>1, <2>4, <2>6 DEF Making
<1> QED
  BY <1>3, <1>4, <1>5, <1>6, <1>7, <1>8, InjectorSteps
     DEF StartsMaking, CallsFactory, Fails, GivesStored, GivesMade, Gives, Leaves

\* What is stored has its dependencies stored, so nothing else is reached from it.
LEMMA StoredCloses ==
  ASSUME NEW fs, NEW is,
         \A i \in Ids : is[i] # J!NoInst => \A n \in DOMAIN fs[i].deps : Has(is, fs[i].deps[n]) /\ fs[i].deps[n] \in Deps
  PROVE  ClosedIn(fs, StoredIn(is))
<1> SUFFICES ASSUME NEW i \in StoredIn(is), NEW n \in DOMAIN fs[i].deps
             PROVE  fs[i].deps[n].id \in StoredIn(is)
  BY Zenon DEF ClosedIn, DepIds
<1>1. Has(is, fs[i].deps[n]) /\ fs[i].deps[n] \in Deps
  BY DEF StoredIn
<1>2. fs[i].deps[n].id \in Ids /\ fs[i].deps[n].type \in Types
  BY <1>1 DEF Deps
<1> QED
  BY <1>1, <1>2, InjectorAssumption DEF Has, StoredIn, J!NoInst

LEMMA StoredClosed ==
  ASSUME DataInv, FrameInv, WiredInv
  PROVE  /\ ClosedIn(factories, StoredIn(insts)) /\ StoredIn(insts) \in SUBSET Ids
         /\ J!Next => ClosedIn(factories', StoredIn(insts'))
<1>1. ASSUME NEW i \in Ids, insts[i] # J!NoInst, NEW n \in DOMAIN factories[i].deps
      PROVE  Has(insts, factories[i].deps[n]) /\ factories[i].deps[n] \in Deps
  <2>1. factories[i].deps \in Seq(Deps)
    BY DepsType
  <2> QED BY <1>1, <2>1 DEF WiredInv
<1>2. ASSUME J!Next, NEW i \in Ids, insts'[i] # J!NoInst, NEW n \in DOMAIN factories'[i].deps
      PROVE  Has(insts', factories'[i].deps[n]) /\ factories'[i].deps[n] \in Deps
  <2>1. factories[i].deps \in Seq(Deps) /\ factories'[i].deps = factories[i].deps
    BY <1>2, DepsType, DepsStay
  <2> QED BY <1>2, <2>1, WiredStoredNext
<1> QED
  BY <1>1, <1>2, StoredCloses DEF StoredIn

\* Nothing that is stored is on a cycle: its dependencies were stored before it.
LEMMA AcyclicNext ==
  ASSUME DataInv, FrameInv, WiredInv, J!Next, \A i \in StoredIn(insts) : i \notin Below(factories, i),
         NEW x \in StoredIn(insts')
  PROVE  x \notin Below(factories', x)
<1>1. x \in Ids /\ insts'[x] # J!NoInst /\ DepIds(factories', x) = DepIds(factories, x)
  BY DepsStay DEF StoredIn, DepIds
<1>2. ClosedIn(factories, StoredIn(insts)) /\ StoredIn(insts) \in SUBSET Ids
  BY StoredClosed
<1>3. CASE x \in StoredIn(insts)
  <2> DEFINE T == Below(factories, x)
  <2>1. DepIds(factories, x) \subseteq StoredIn(insts)
    BY <1>2, <1>3 DEF ClosedIn
  <2>2. T \subseteq StoredIn(insts)
    BY <1>2, <2>1, ReachSmallest DEF Below
  <2>3. DepIds(factories, x) \subseteq T /\ ClosedIn(factories, T) /\ T \in SUBSET Ids
    BY <1>1, DepIdsType, BelowReached
  <2> HIDE DEF T
  <2>4. \A j \in T : j \in Ids /\ insts[j] # J!NoInst
    BY <2>2 DEF StoredIn
  <2>5. \A j \in T : DepIds(factories', j) = DepIds(factories, j)
    BY <2>4, InstancesStay, DepsStay DEF DepIds
  <2>6. ClosedIn(factories', T)
    BY <2>3, <2>5 DEF ClosedIn
  <2>7. Below(factories', x) \subseteq T
    BY <1>1, <2>3, <2>6, ReachSmallest DEF Below
  <2> QED BY <1>3, <2>7 DEF T
<1>4. CASE x \notin StoredIn(insts) /\ Registers
  <2>1. factories[x] = J!NoFactory
    BY <1>1, <1>4 DEF Registers, StoredIn, DataInv
  <2>2. DepIds(factories', x) \subseteq {}
    BY <1>1, <2>1, DepIdsType
  <2>3. ClosedIn(factories', {}) /\ {} \in SUBSET Ids
    BY DEF ClosedIn
  <2>4. Below(factories', x) \subseteq {}
    BY <2>2, <2>3, ReachSmallest DEF Below
  <2> QED BY <2>4
<1>5. CASE x \notin StoredIn(insts) /\ GivesMade
  <2>1. x = InnerId
    BY <1>1, <1>5 DEF GivesMade, StoredIn, DataInv
  <2>2. calls # <<>> /\ InnerStep = "factory" /\ factories' = factories
    BY <1>5 DEF GivesMade, Gives
  <2>3. Len(calls) \in DOMAIN calls /\ Progress(factories, calls[Len(calls)]) /\ factories[x].deps \in Seq(Deps)
    BY <2>1, <2>2, InnerFrame
  <2>4. calls[Len(calls)].next = Len(factories[x].deps) + 1 /\ HasBefore(factories, insts, calls[Len(calls)])
    BY <2>1, <2>2, <2>3 DEF Progress, DepsIn, InnerStep, InnerId, WiredInv
  <2>5. ASSUME NEW n \in DOMAIN factories[x].deps PROVE factories[x].deps[n].id \in StoredIn(insts)
    <3>1. n < calls[Len(calls)].next /\ factories[x].deps[n] \in Deps
      BY <2>3, <2>4
    <3>2. Has(insts, factories[x].deps[n])
      BY <2>1, <2>4, <3>1 DEF HasBefore, DepsIn, InnerId
    <3> QED BY <3>1, <3>2, InjectorAssumption DEF Has, Deps, StoredIn, J!NoInst
  <2>6. DepIds(factories, x) \subseteq StoredIn(insts)
    BY <2>5 DEF DepIds
  <2>7. Below(factories, x) \subseteq StoredIn(insts)
    BY <1>2, <2>6, ReachSmallest DEF Below
  <2> QED BY <1>5, <2>2, <2>7
<1>6. CASE UNCHANGED insts
  BY <1>3, <1>6
<1> QED
  BY <1>3, <1>4, <1>5, <1>6, InjectorSteps DEF Asks, StartsMaking, CallsFactory, Fails, GivesStored, Gives

LEMMA CauseIs == J!OutcomeHasACause <=> CauseIn(factories, insts, outcome)
<1>1. \A i : J!DependsOn(i) = DepIds(factories, i)
  BY DEF J!DependsOn, DepIds
<1>2. \A S : J!Reach(S) = ReachIn(factories, S)
  BY <1>1 DEF J!Reach, ReachIn, ClosedIn
<1>3. \A i : J!OnCycle(i) <=> i \in Below(factories, i)
  BY <1>1, <1>2 DEF J!OnCycle, Below
<1> QED
  BY <1>2, <1>3 DEF J!OutcomeHasACause, CauseIn, J!Stored, J!Defined

LEMMA CauseFails ==
  ASSUME DataInv, FrameInv, CauseInv, NEW r, NEW e, Fails(r, e), Len(visited) = 1
  PROVE  calls' = <<>> /\ CauseIn(factories, insts, outcome')
<1>1. /\ calls # <<>> /\ r \in DOMAIN calls /\ LastRoot(calls, r) /\ calls' = SubSeq(calls, 1, r - 1)
      /\ DOMAIN calls = 1..Len(calls) /\ Len(calls) \in Nat
  BY DEF Fails, Cuts, FrameInv
<1>2. 1 \in DOMAIN calls /\ \A m \in 2..Len(calls) : ~calls[m].root
  BY <1>1, OneRoot
<1>3. r = 1
  BY <1>1, <1>2 DEF LastRoot
<1>4. calls' = <<>>
  BY <1>1, <1>3
<1> DEFINE first == calls[1].id
<1>5. first \in Ids /\ InnerId \in Ids /\ \A i \in Ids : DepIds(factories, i) \subseteq Ids
  BY <1>1, <1>2, FrameType, InnerFrame, DepIdsType
<1>6. outcome' = [id |-> first, type |-> calls[1].type, error |-> e] /\ e # "none"
  BY <1>3 DEF Fails
<1>7. InnerId \in ReachIn(factories, {first})
  <2>1. CASE Len(calls) = 1
    BY <1>5, <2>1, BelowReached DEF InnerId
  <2>2. CASE Len(calls) # 1
    <3>1. 1 < Len(calls) /\ Len(calls) \in DOMAIN calls /\ \A m \in (1 + 1)..Len(calls) : ~calls[m].root
      BY <1>1, <1>2, <2>2
    <3>2. InnerId \in Below(factories, first)
      BY <1>2, <3>1 DEF CauseInv, Chain, InnerId
    <3> QED BY <1>5, <3>2, BelowReached
  <2> QED BY <2>1, <2>2
<1>8. e = "circular" => InnerId \in Below(factories, InnerId)
  <2> SUFFICES ASSUME e = "circular" PROVE InnerId \in Below(factories, InnerId)
    OBVIOUS
  <2>1. InnerStep = "enter" /\ InnerId \in visited[1] /\ visited # <<>>
    BY <1>1, TopFrame DEF Fails
  <2>2. PICK k \in DOMAIN calls : calls[k].id = InnerId /\ Making(calls[k]) /\ \A m \in 2..k : ~calls[m].root
    BY <2>1 DEF CauseInv, MadeFirst
  <2>3. k # Len(calls)
    BY <2>1, <2>2 DEF Making, InnerStep
  <2>4. k < Len(calls) /\ Len(calls) \in DOMAIN calls /\ \A m \in (k + 1)..Len(calls) : ~calls[m].root
    BY <1>1, <1>2, <2>3
  <2>5. InnerId \in Below(factories, calls[k].id)
    BY <2>4 DEF CauseInv, Chain, InnerId
  <2> QED BY <2>2, <2>5
<1>9. e = "missing" => insts[InnerId] = J!NoInst /\ factories[InnerId] = J!NoFactory
  BY DEF Fails
<1> HIDE DEF first
<1> QED
  BY <1>4, <1>6, <1>7, <1>8, <1>9 DEF CauseIn

LEMMA CauseGives ==
  ASSUME DataInv, FrameInv, WiredInv, CauseInv, J!Next, GivesStored \/ GivesMade,
         calls[Len(calls)].root, Len(visited) = 1
  PROVE  calls' = <<>> /\ CauseIn(factories', insts', outcome')
<1>1. /\ calls # <<>> /\ Cuts(Len(calls)) /\ factories' = factories
      /\ outcome' = [id |-> InnerId, type |-> InnerType, error |-> "none"]
  BY DEF GivesStored, GivesMade, Gives, Leaves
<1>2. /\ DOMAIN calls = 1..Len(calls) /\ Len(calls) \in Nat /\ Len(calls) \in DOMAIN calls
      /\ InnerId \in Ids /\ InnerType \in Types
  BY <1>1, InnerFrame
<1>3. calls' = <<>>
  <2>1. \A m \in 2..Len(calls) : ~calls[m].root
    BY <1>1, OneRoot
  <2>2. Len(calls) = 1
    BY <1>2, <2>1
  <2> QED BY <1>1, <2>2 DEF Cuts
<1>4. insts'[InnerId].type = InnerType
  BY <1>2 DEF GivesStored, GivesMade, Gives, DataInv
<1>5. InnerId \in StoredIn(insts')
  BY <1>2, <1>4, InjectorAssumption DEF StoredIn, J!NoInst
<1>6. ReachIn(factories', {InnerId}) \subseteq StoredIn(insts')
  <2>1. ClosedIn(factories', StoredIn(insts')) /\ StoredIn(insts') \in SUBSET Ids
    BY StoredClosed DEF StoredIn
  <2> QED BY <1>5, <2>1, ReachSmallest
<1>7. \A i \in StoredIn(insts') : insts'[i] # J!NoInst /\ i \notin Below(factories', i)
  BY AcyclicNext DEF CauseInv, StoredIn
<1> QED
  BY <1>1, <1>3, <1>4, <1>6, <1>7 DEF CauseIn

LEMMA CauseOutcome ==
  ASSUME DataInv, FrameInv, WiredInv, CauseInv, J!Next
  PROVE  (outcome' # J!NoOutcome => calls' = <<>>) /\ CauseIn(factories', insts', outcome')
<1>1. ASSUME outcome' = J!NoOutcome
      PROVE  (outcome' # J!NoOutcome => calls' = <<>>) /\ CauseIn(factories', insts', outcome')
  BY <1>1 DEF CauseIn
<1>2. ASSUME calls # <<>>, outcome' = outcome PROVE outcome' = J!NoOutcome
  BY <1>2 DEF CauseInv
<1>3. CASE Registers
  BY <1>1, <1>3 DEF Registers
<1>4. ASSUME NEW f, Asks(f) PROVE outcome' = J!NoOutcome
  BY <1>2, <1>4 DEF Asks, Pushes
<1>5. CASE StartsMaking \/ CallsFactory
  BY <1>1, <1>2, <1>5 DEF StartsMaking, CallsFactory, GoesOn
<1>6. ASSUME NEW r, NEW e, Fails(r, e)
      PROVE  (outcome' # J!NoOutcome => calls' = <<>>) /\ CauseIn(factories', insts', outcome')
  <2>1. UNCHANGED <<factories, insts>> /\ calls # <<>>
    BY <1>6 DEF Fails, Cuts, FrameInv
  <2>2. CASE Len(visited) = 1
    BY <1>6, <2>1, <2>2, CauseFails
  <2>3. CASE Len(visited) # 1
    BY <1>1, <1>2, <1>6, <2>1, <2>3 DEF Fails
  <2> QED BY <2>2, <2>3
<1>7. CASE GivesStored \/ GivesMade
  <2>1. CASE calls[Len(calls)].root /\ Len(visited) = 1
    BY <1>7, <2>1, CauseGives
  <2>2. CASE ~(calls[Len(calls)].root /\ Len(visited) = 1)
    BY <1>1, <1>2, <1>7, <2>2 DEF GivesStored, GivesMade, Gives
  <2> QED BY <2>1, <2>2
<1> QED
  BY <1>1, <1>3, <1>4, <1>5, <1>6, <1>7, InjectorSteps

LEMMA CauseNext == ASSUME DataInv, FrameInv, WiredInv, CauseInv, J!Next PROVE CauseInv'
<1>1. Chain(factories', calls')
  BY ChainNext DEF CauseInv
<1>2. visited' # <<>> => \A i \in visited'[1] : MadeFirst(calls', i)
  BY FirstNext DEF CauseInv
<1>3. \A i \in StoredIn(insts') : i \notin Below(factories', i)
  BY AcyclicNext DEF CauseInv
<1> QED
  BY <1>1, <1>2, <1>3, CauseOutcome DEF CauseInv

LEMMA CauseInvariant == Spec => []CauseInv
<1>1. Init => CauseInv
  BY DEF Init, J!Init, CauseInv, Chain, StoredIn, CauseIn
<1>2. ASSUME DataInv, FrameInv, CauseInv, UNCHANGED injectorVars PROVE CauseInv'
  BY <1>2 DEF injectorVars, CauseInv
<1>3. DataInv /\ FrameInv /\ WiredInv /\ CauseInv /\ [Next]_vars => CauseInv'
  BY <1>2, CauseNext, StepOfEach
<1> QED
  BY <1>1, <1>3, RegisteredInvariant, WiredInvariant, PTL DEF Spec

(***************************************************************************)
(* For any declarations, and whatever the factories do: get() throws       *)
(* circular_dependency only if what the id depends on has a cycle, and     *)
(* no_such_dependency only if something there is not registered, and it    *)
(* returns only if there is neither.  A dependency reached along two paths *)
(* is no cycle (injector.h:191-265).                                       *)
(***************************************************************************)
THEOREM InjectorOutcomeHasACause == Spec => []OutcomeHasACause
<1>1. CauseInv => OutcomeHasACause
  BY CauseIs DEF CauseInv, OutcomeHasACause
<1> QED
  BY <1>1, CauseInvariant, PTL
=============================================================================
