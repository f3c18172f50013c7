SPECIFICATION Spec
CONSTANTS
  t1 = t1
  t2 = t2
  Null = Null
  Threads <- TwoThreads
  Monitor = t1
  UUID = {u1, u2, u3}
  Address = {a1}
  NodeSlots = 2
  PeerSlots = 1
  Ordinals = {256}
  Ops = {"insert", "discover", "partner", "remove", "forget", "save", "clear"}
  MayCrash = TRUE
SYMMETRY Symmetry
VIEW View
INVARIANTS
  TypeOK
  UniqueEntries
  NothingInherited
  CacheHoldsPartner
  SaveFindsPartner
CHECK_DEADLOCK FALSE
