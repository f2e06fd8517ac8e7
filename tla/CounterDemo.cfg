SPECIFICATION Spec
CONSTANTS
  Readers = {r1, r2, r3}
  Writer = writer
  Main = main
  NoThread = NoThread
  Target = 2
  Steps = 9
  SizeMax = 3
  MaxSpurious = 2
INVARIANTS
  CounterInRange
PROPERTIES
  WriterFinishes
  ReadersLeaveUnlessRaced
\* The program may stop before main's join returns: see CounterDemoExit.cfg.
CHECK_DEADLOCK FALSE
