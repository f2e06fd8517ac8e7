SPECIFICATION Spec
CONSTANTS
  Readers = {r1, r2}
  Writer = writer
  Main = main
  NoThread = NoThread
  LastRegion = 1
  SizeMax = 2
  MaxSpurious = 1
INVARIANTS
  LastWriteWakesReaders
CHECK_DEADLOCK FALSE
