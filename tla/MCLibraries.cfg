SPECIFICATION Spec
CONSTANTS
  Ids = {"a", "b", "c"}
  Types = {"T", "U"}
  Declarations <- MCDeclarations
  Values = {"T"}
  MaxBuilt = 4
  MaxReentry = 1
  Events = {"e1", "e2"}
  MaxAdds = 4
  MaxFires = 2
  Owners = {"t1", "t2"}
  NoThread = "none"
  Objects = {"o1", "o2"}
  Null = "null"
  MaxMonitors = 3
  Poppers = {"t1", "t2", "t3"}
  MaxPushes = 3
  Shapes = {"circle", "square", "triangle"}
  MaxRegs = 4
  Chars = {"a", "1"}
  Alpha = {"a"}
  Words = {0, 1, 2, 3}
  Numbers = {0, 1, 2}
  MaxItems = 4
INVARIANTS TypeOK OutcomeHasACause KeepsWhatItMade RegisteredAreCalled LocksFollowMonitors MissesOnlyWhenRaced IteratorsVisitAll
\* the bounds end every behaviour, and monitors can be taken in opposite orders
CHECK_DEADLOCK FALSE
