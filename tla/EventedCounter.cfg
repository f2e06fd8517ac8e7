SPECIFICATION Spec
CONSTANTS
  Threads = {t1, t2, t3}
  NoThread = NoThread
  SizeMax = 2
  MaxSpurious = 1
INVARIANTS
  TypeOK
  NoLostNotification
  WaitReturnsOnTarget
  ExitMissesOnlyRacers
PROPERTIES
  TargetWakes
CHECK_DEADLOCK FALSE
