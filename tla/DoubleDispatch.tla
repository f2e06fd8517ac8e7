--------------------------- MODULE DoubleDispatch ---------------------------
(***************************************************************************)
(* double_dispatch/src/ddispatch/double_dispatcher.h: functions of two     *)
(* objects, found by the types of both.  The nth function registered is n, *)
(* for the pair regs[n] of types.                                          *)
(***************************************************************************)
EXTENDS Naturals, Sequences

CONSTANTS
  Types,          \* of the objects
  MaxRegs         \* bound: registrations

VARIABLES
  dd_map,         \* the function of each pair of types, and which of the two objects it gets first
  regs            \* history: the pairs of types that were registered

vars == <<dd_map, regs>>

bad_cast == 0     \* what call() throws when there is no function
Pairs == Types \X Types
Stored(func, first, second) == [func |-> func, args |-> <<first, second>>]

TypeOK ==
  /\ dd_map \in [Pairs -> [func : 0..MaxRegs, args : {<<1, 2>>, <<2, 1>>}]]
  /\ regs \in Seq(Pairs) /\ Len(regs) <= MaxRegs

Init == dd_map = [tp \in Pairs |-> Stored(bad_cast, 1, 2)] /\ regs = <<>>

(* A mutant of Registered: the other order is not registered. *)
RegisteredOneWay(tp, func) == [dd_map EXCEPT ![tp] = Stored(func, 1, 2)]

(* Two entries; for two equal types they are one, and the second replaces the first. *)
Registered(tp, func) ==
  [dd_map EXCEPT ![tp] = Stored(func, 1, 2), ![<<tp[2], tp[1]>>] = Stored(func, 2, 1)]

reg(tp) ==
  /\ Len(regs) < MaxRegs
  /\ regs' = Append(regs, tp) /\ dd_map' = Registered(tp, Len(regs) + 1)

Next == \E tp \in Pairs : reg(tp)

Spec == Init /\ [][Next]_vars

(* What call(arg1, arg2) does. *)
call(type1, type2) == dd_map[<<type1, type2>>]
-----------------------------------------------------------------------------
(***************************************************************************)
(* call() finds the function that was registered last for the two types,   *)
(* in whichever order they are given, and hands it each object as the      *)
(* argument it declares; but two objects of one type change places         *)
(* (double_dispatcher.h:14-43).                                            *)
(***************************************************************************)
DispatchesByType ==
  \A type1, type2 \in Types :
    LET for == {n \in DOMAIN regs : regs[n] \in {<<type1, type2>>, <<type2, type1>>}}
        called == call(type1, type2)
    IN  IF for = {} THEN called.func = bad_cast
        ELSE /\ called.func \in for /\ \A n \in for : n <= called.func
             /\ regs[called.func] = [k \in 1..2 |-> <<type1, type2>>[called.args[k]]]
             /\ type1 = type2 => called.args = <<2, 1>>
=============================================================================
