----------------------------- MODULE MCSequences -----------------------------
(***************************************************************************)
(* The exercises' functions and serializers for TLC: they are applied to   *)
(* every sequence up to a length.                                          *)
(***************************************************************************)
EXTENDS Integers, Sequences

CONSTANTS MaxInput, Elements

Lengths == [c \in 1..3 |-> IF c = 1 THEN 1 ELSE 2 * c - 1]

VARIABLE input

A == INSTANCE Algorithms WITH WORD <- 2
S == INSTANCE Serialization WITH Indeterminate <- 9, SIZE <- 2

Init == input = <<>>

(* The next argument is longer. *)
Next ==
  Len(input) < MaxInput /\ \E x \in Elements : input' = Append(input, x)

Spec == Init /\ [][Next]_input
-----------------------------------------------------------------------------
(* The exercises' functions give what their names say, for every input,   *)
(* and what the serializers write to a stream is read back.               *)
FunctionsAgree == A!AlgorithmsAgree(input) /\ S!RoundTrips(input)
=============================================================================
