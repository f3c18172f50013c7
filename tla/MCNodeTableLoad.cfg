SPECIFICATION Spec
CONSTANTS
  t1 = t1
  t2 = t2
  Null = Null
  Threads <- OneThread
  Monitor = t1
  UUID = {u1, u2}
  Address = {a1}
  NodeSlots = 2
  PeerSlots = 1
  Ordinals = {256}
  Ops = {"save", "clear"}
  MayCrash = TRUE
INVARIANTS
  LoadsSavedPartner
CHECK_DEADLOCK FALSE
