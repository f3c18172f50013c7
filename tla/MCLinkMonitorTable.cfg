SPECIFICATION FairSpec
CONSTANTS
  Index = {1}
  Room = 2
  Interval = 1
  Attempts = 2
  Reattempt = 2
  Factories = {}
PROPERTY
  LinksPopulated
CHECK_DEADLOCK FALSE
