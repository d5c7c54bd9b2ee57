SPECIFICATION FairSpec
CONSTANTS
  t1 = t1
  t2 = t2
  t3 = t3
  NoThread = NoThread
  Recursive = TRUE
  MaxCount = 2
  Threads <- ThreeThreads
INVARIANTS TypeOK WaitersExact
PROPERTIES ImplementsAbstractCond NobodyKeptIn
