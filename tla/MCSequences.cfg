SPECIFICATION Spec
CONSTANTS
  MaxInput = 5
  Elements = {0, 1, 2, 3}
INVARIANT FunctionsAgree
\* the bounds end every behaviour
CHECK_DEADLOCK FALSE
