SPECIFICATION Spec
CONSTANTS
  Keys = {1, 2, 3}
  Values = {11, 12}
  MaxRange = 3
PROPERTIES
  DuplicateThrows
\* Nothing happens after undefined behaviour.
CHECK_DEADLOCK FALSE
