----------------------------- MODULE MCOwnership -----------------------------
(***************************************************************************)
(* The components that own something for TLC: the handles of a kind are    *)
(* interchangeable.                                                        *)
(***************************************************************************)
EXTENDS Ownership, TLC

Texts == {<<>>, <<"x">>}
Leaves == {<<>>, <<"x">>, <<"y">>}

Contents ==
  {<<>>, <<"1">>, <<"1", "n">>, <<"1", "n", "2">>, <<"1", "n", "2", "n">>, <<"1", "2", "n", "1">>,
   <<"n", "1">>, <<"1", "n", "n", "2">>, <<"1", "n", "2", "n", "1">>, <<"1", "n", "2", "n", "1", "n", "2">>}

Tests == {{1, 2}, {0, 2}}
Successor == {[v \in 0..2 |-> (v + 1) % 3]}

Symmetry == Permutations(Shared) \cup Permutations(Weak)
=============================================================================
