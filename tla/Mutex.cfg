SPECIFICATION FairSpec
CONSTANTS
  t1 = t1
  t2 = t2
  t3 = t3
  NoThread = NoThread
  Threads <- ThreeThreads
  TimedCallers <- OneTimed
  Recursive = TRUE
  MaxCount = 2
INVARIANTS TypeOK OwnerAgrees
PROPERTIES ImplementsAbstractMutex NoWaiterLeftBehind
