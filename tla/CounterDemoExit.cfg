SPECIFICATION Spec
CONSTANTS
  Readers = {r1, r2}
  Writer = writer
  Main = main
  NoThread = NoThread
  Target = 2
  Steps = 5
  SizeMax = 3
  MaxSpurious = 1
INVARIANTS
  ExitWakesAllThreads
CHECK_DEADLOCK FALSE
