SPECIFICATION FairSpec
CONSTANTS
  Threads = {t1, t2}
  Sizes = {1, 3}
  Count = 2
  Word = 5
  MaxPools = 3
  NoThread = NoThread
INVARIANTS
  TypeOK
  NoAliasing
  MapExact
  ObjectFits
  CrashOnlyOversized
  InjectOncePerSlab
PROPERTY
  ImplementsHeap
  MutexReleased
CHECK_DEADLOCK FALSE
