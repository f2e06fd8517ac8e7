SPECIFICATION Spec
CONSTANTS
  Readers = {r1, r2}
  Writer = writer
  Main = main
  NoThread = NoThread
  LastRegion = 2
  SizeMax = 2
  MaxSpurious = 1
INVARIANTS
  HoldsTheWriteItWasTold
PROPERTIES
  MainReachesLastJoin
  LastWriteReleases
\* The program may stop before main's last join returns: see
\* BufferDemoWake.cfg.
CHECK_DEADLOCK FALSE
