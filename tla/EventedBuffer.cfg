SPECIFICATION Spec
CONSTANTS
  Readers = {r1, r2}
  Writers = {w1, w2}
  NoThread = NoThread
  Regions = {0, 2}
  MaxWrites = 2
  SizeMax = 3
  MaxSpurious = 1
INVARIANTS
  TypeOK
  DrainedAtReset
  ReadsWhatItWasTold
PROPERTIES
  WritesEnd
  Broadcasts
\* The clients may stop calling.
CHECK_DEADLOCK FALSE
