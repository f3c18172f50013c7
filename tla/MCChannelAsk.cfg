SPECIFICATION FairSpec
CONSTANTS
  s1 = s1
  s2 = s2
  k1 = k1
  k2 = k2
  Null = Null
  Shells = {p1, p2}
  Children = {c1}
  Services <- TwoServices
  Keys = {k1, k2}
  Name <- TwoNames
  Ops = {"ask", "tell"}
  Calls <- Chain
  MayKill = FALSE
  MayCrash = FALSE
  Capacity = 3
  TimeLimit = 2
  MaxRequests = 4
INVARIANTS
  ReplyNeverBlocks
PROPERTIES
  AskReturns
CHECK_DEADLOCK FALSE
