------------------------------- MODULE KeyMap -------------------------------
(***************************************************************************)
(* What bin_search_tree promises its clients: a map that insertions, of    *)
(* one key or of a range of keys, extend as a whole or leave as it was.    *)
(***************************************************************************)
CONSTANTS Keys, Values

VARIABLES
  contents,  \* the map, a function on the keys present
  outcome    \* how the last insertion ended

vars == <<contents, outcome>>

Init ==
  /\ contents = [k \in {} |-> {}]
  /\ outcome = "returned"

\* An insertion that returns: the keys are new, and all present afterwards.
Insert(keys, val) ==
  /\ keys \cap DOMAIN contents = {}
  /\ contents' = [k \in keys \cup DOMAIN contents |->
                    IF k \in keys THEN val ELSE contents[k]]
  /\ outcome' = "returned"

\* An insertion that throws.
Throw ==
  /\ outcome' = "thrown"
  /\ UNCHANGED contents

Next == Throw \/ \E keys \in SUBSET Keys, val \in Values : Insert(keys, val)

Spec == Init /\ [][Next]_vars
=============================================================================
