------------------------------ MODULE Iterators ------------------------------
(***************************************************************************)
(* The iterators the exercises define, in a loop from begin to end: over a *)
(* container of containers (alg_func_exercises), over the letters of a     *)
(* string (stl_containters), over a stream (iterators).  walk says which   *)
(* one a behaviour is about.  Positions are from 1; behind the last        *)
(* element is the end.                                                     *)
(***************************************************************************)
EXTENDS Integers, Sequences

CONSTANTS
  Chars, Alpha,      \* of a string; what isalpha is true of
  Words, Numbers,    \* in a stream; those that are an int
  MaxItems           \* bound: items of what a loop goes over, elements of a container

VARIABLES
  walk, begun,                   \* which iterator; whether it has been made
  items,                         \* the sizes of the containers, the characters or the words
  current,                       \* linearized_container_iterator: current_cont_it_ and current_it_
  it_, endit_,                   \* alpha_iterator
  in_stream_, current_value_,    \* istream_iterator
  taken,                         \* the words that were extracted from the stream
  seen,                          \* history: the positions the loop was at
  written                        \* what inf_sum writes

alphaVars == <<it_, endit_>>
streamVars == <<in_stream_, current_value_, taken, written>>
vars == <<walk, begun, items, current, alphaVars, streamVars, seen>>

Nowhere == [cont |-> 0, it |-> 0]   \* moved past the end of a container

Init ==
  /\ walk = "none" /\ begun = FALSE
  /\ items = <<>> /\ seen = {} /\ current = Nowhere /\ it_ = 1 /\ endit_ = 1
  /\ in_stream_ = FALSE /\ current_value_ = 0 /\ taken = 0 /\ written = <<>>

(* The sizes, characters or words to choose from. *)
Walks == {"linearized", "alpha", "istream"}
Items(which) ==
  CASE which = "linearized" -> 0..MaxItems [] which = "alpha" -> Chars [] which = "istream" -> Words
    [] which = "none" -> {}

Unbegun(which) == ~begun /\ walk \in {"none", which} /\ walk' = which

(* What is there before the loop. *)
Fill(which, x) ==
  /\ Unbegun(which) /\ Len(items) < MaxItems
  /\ items' = Append(items, x) /\ UNCHANGED <<begun, current, alphaVars, streamVars, seen>>

Begins(which) == Unbegun(which) /\ begun' = TRUE /\ UNCHANGED <<items, seen>>
Runs(which) == walk = which /\ begun /\ UNCHANGED <<walk, begun, items>>
-----------------------------------------------------------------------------
(* A mutant of linearized_next: the next container is entered unseen. *)
linearized_next_unseen(p) ==
  IF p.cont > Len(items) THEN p
  ELSE IF p.it < items[p.cont] THEN [p EXCEPT !.it = @ + 1]
  ELSE [cont |-> p.cont + 1, it |-> 1]

(***************************************************************************)
(* linearized_container_iterator: it moves before it looks, so a container *)
(* without elements is entered at its end and left behind it.              *)
(***************************************************************************)
linearized_next(p) ==
  IF p.cont > Len(items) THEN p
  ELSE IF p.it > items[p.cont] THEN Nowhere
  ELSE IF p.it < items[p.cont] THEN [p EXCEPT !.it = @ + 1]
  ELSE IF p.cont = Len(items) THEN [cont |-> p.cont + 1, it |-> 1]
  ELSE IF items[p.cont + 1] > 0 THEN [cont |-> p.cont + 1, it |-> 1]
  ELSE Nowhere

linearized_begin ==
  IF items = <<>> THEN Nowhere
  ELSE IF items[1] = 0 THEN linearized_next([cont |-> 1, it |-> 1]) ELSE [cont |-> 1, it |-> 1]

linearized_equal == current.cont > Len(items)

LinearizedBegin == Begins("linearized") /\ current' = linearized_begin /\ UNCHANGED <<alphaVars, streamVars>>

(* The body of the loop and ++; what is read from nowhere is undefined. *)
Linearized ==
  /\ Runs("linearized") /\ current # Nowhere /\ ~linearized_equal
  /\ seen' = seen \cup {<<current.cont, current.it>>} /\ current' = linearized_next(current)
  /\ UNCHANGED <<alphaVars, streamVars>>
-----------------------------------------------------------------------------
(* alpha_iterator: what stands behind the last character is no letter. *)
isalpha(p) == p <= Len(items) /\ items[p] \in Alpha

goToNextAlpha(p, end) ==
  IF p = end THEN p
  ELSE CHOOSE q \in (p + 1)..end : (isalpha(q) \/ q = end) /\ \A r \in (p + 1)..(q - 1) : ~isalpha(r)

AlphaBegin ==
  /\ Begins("alpha") /\ endit_' = Len(items) + 1
  /\ it_' = IF isalpha(1) THEN 1 ELSE goToNextAlpha(1, endit_')
  /\ UNCHANGED <<current, streamVars>>

(* The body of the loop. *)
AtLetter == Runs("alpha") /\ it_ <= Len(items) /\ seen' = seen \cup {it_} /\ UNCHANGED <<current, streamVars>>

Letters == AtLetter /\ it_' = goToNextAlpha(it_, endit_) /\ UNCHANGED endit_

(* it = ++it and it = it++: both return an iterator that ends where it stands. *)
LettersAssigned == AtLetter /\ it_' \in {it_, goToNextAlpha(it_, endit_)} /\ endit_' = it_'
-----------------------------------------------------------------------------
(* istream_iterator: the next value is read when the iterator is made or moved. *)
Extracted ==
  \/ /\ taken = Len(items) /\ in_stream_' = FALSE /\ UNCHANGED <<current_value_, taken>>
  \/ /\ taken < Len(items) /\ taken' = taken + 1
     /\ \/ items[taken'] \in Numbers /\ in_stream_' = TRUE /\ current_value_' = items[taken']
        \/ items[taken'] \notin Numbers /\ in_stream_' = FALSE /\ current_value_' = 0

StreamBegin == Begins("istream") /\ Extracted /\ UNCHANGED <<current, alphaVars, written>>

Summed == current_value_ + (IF written = <<>> THEN 0 ELSE written[Len(written)])

(* std::transform of inf_sum, each sum written through the ostream_iterator. *)
inf_sum ==
  /\ Runs("istream") /\ in_stream_ /\ Extracted
  /\ written' = Append(written, Summed) /\ UNCHANGED <<current, alphaVars, seen>>

Next ==
  \/ \E which \in Walks : \E x \in Items(which) : Fill(which, x)
  \/ LinearizedBegin \/ Linearized \/ AlphaBegin \/ Letters \/ LettersAssigned \/ StreamBegin \/ inf_sum

Spec == Init /\ [][Next]_vars
-----------------------------------------------------------------------------
TypeOK ==
  /\ begun \in BOOLEAN /\ walk \in Walks \cup {"none"} /\ (begun => walk # "none")
  /\ items \in Seq(Items(walk)) /\ Len(items) <= MaxItems
  /\ current \in [cont : Nat, it : Nat] /\ it_ \in Nat /\ endit_ \in Nat
  /\ in_stream_ \in BOOLEAN /\ current_value_ \in Int /\ taken \in Nat /\ written \in Seq(Int)

(* The elements of the containers that come before p, and the letters before p. *)
ElementsBefore(p) ==
  {e \in (DOMAIN items) \X (1..MaxItems) :
     e[2] <= items[e[1]] /\ (e[1] < p.cont \/ (e[1] = p.cont /\ e[2] < p.it))}

LettersBefore(p) == {k \in DOMAIN items : items[k] \in Alpha /\ k < p}

ElementsOnce ==
  IF current # Nowhere THEN seen = ElementsBefore(current)
  ELSE items = <<>> \/ \E c \in DOMAIN items :
         items[c] = 0 /\ (\A b \in 1..(c - 1) : items[b] > 0) /\ seen = ElementsBefore([cont |-> c, it |-> 1])

LettersOnce ==
  IF endit_ = Len(items) + 1 THEN seen = LettersBefore(it_) ELSE
  endit_ = it_ /\ isalpha(it_) /\ seen \in {LettersBefore(it_), LettersBefore(it_ + 1)}

NumbersSummed ==
  /\ Len(written) <= Len(items)
  /\ \A k \in DOMAIN written :
       items[k] \in Numbers /\ written[k] = items[k] + (IF k = 1 THEN 0 ELSE written[k - 1])
  /\ \/ in_stream_
     \/ Len(written) = Len(items) \/ items[Len(written) + 1] \notin Numbers

(***************************************************************************)
(* A loop over containers is at the elements once and in order, and goes   *)
(* nowhere only from the first empty container, or if there is none at all *)
(* (alg_func_exercises/src/main.cpp:97-150).  A loop over a string is at   *)
(* the letters once and in order, but an iterator that was assigned what   *)
(* ++ returns stays at its letter (stl_containters/src/main.cpp:72-130).   *)
(* inf_sum writes the sums of the words up to the first that is no int     *)
(* (istream_iterator.h:37-82).                                             *)
(***************************************************************************)
IteratorsVisitAll ==
  begun => CASE walk = "linearized" -> ElementsOnce
             [] walk = "alpha" -> LettersOnce
             [] walk = "istream" -> NumbersSummed
=============================================================================
