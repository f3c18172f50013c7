SPECIFICATION FairSpec
CONSTANTS
  s1 = s1
  s2 = s2
  k1 = k1
  k2 = k2
  Null = Null
  Shells = {p1}
  Children = {c1}
  Services <- OneService
  Keys = {k1}
  Name <- OneName
  Ops = {"send", "receive", "ask", "tell", "wait"}
  Calls <- NoCalls
  MayKill = TRUE
  MayCrash = TRUE
  Capacity = 2
  TimeLimit = 2
  MaxRequests = 4
INVARIANTS
  TypeOK
  InOrder
  AnswerMatches
PROPERTY
  TellEnds
CHECK_DEADLOCK FALSE
