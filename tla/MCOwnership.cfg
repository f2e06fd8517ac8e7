SPECIFICATION OwnershipSpec
CONSTANTS
  s1 = s1
  s2 = s2
  w1 = w1
  w2 = w2
  Shared = {s1, s2}
  Weak = {w1, w2}
  MaxBlocks = 3
  MaxObjects = 2
  MaxCopies = 2
  SizeMax = 4
  Ptrs = {"p1", "p2", "p3"}
  Clients = {"c1", "c2"}
  MaxMade = 4
  Strings = {"s1", "s2"}
  Chars = {"x", "y"}
  NUL = "0"
  Literals <- Texts
  MaxLen = 2
  MaxBufs = 3
  Immutables = {"i1", "i2", "i3"}
  Pieces <- Leaves
  MaxText = 2
  MaxTrees = 3
  Streams = {"s1", "s2"}
  Bytes = {"1", "2", "n"}
  NL = "n"
  Files <- Contents
  PREFETCH_SIZE = 2
  MaxRead = 4
  Enumerables = {"e1", "e2"}
  Values = {0, 1, 2}
  Predicates <- Tests
  Transforms <- Successor
  MaxSize = 2
  MaxStages = 2
  MaxNodes = 3
SYMMETRY Symmetry
INVARIANTS CountsHandles OwnedObjectsLive UndefinedForAReason OwnedOnce TextIsPrivate ReadsItsText  LazyIsEager
\* the bounds end every behaviour
CHECK_DEADLOCK FALSE
