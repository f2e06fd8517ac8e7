SPECIFICATION Spec
CONSTANTS
  Keys = {1, 2, 3}
  Values = {11, 12}
  MaxRange = 3
INVARIANTS
  FindsTheKeys
  ParentsMatch
PROPERTIES
  AllOrNothing
\* Nothing happens after undefined behaviour.
CHECK_DEADLOCK FALSE
