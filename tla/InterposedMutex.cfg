SPECIFICATION Spec
CONSTANTS
  Threads = {t1, t2, t3}
  Mutexes = {m1, m2}
  Nobody = Nobody
  MaxDepth = 2
  MaxCalls = 6
  MaxFailures = 1
INVARIANTS
  TypeOK
  HoldersExclude
  NoSelfDeadlock
  SkipsOnlyWhatItHolds
PROPERTIES
  SkipsAndUnlocksReturn
\* Clients may deadlock on their own mutexes, and stop after MaxCalls.
CHECK_DEADLOCK FALSE
