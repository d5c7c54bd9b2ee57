SPECIFICATION FairSpec
CONSTANTS
  t1 = t1
  t2 = t2
  t3 = t3
  Threads <- ThreeThreads
  Priority <- MixedPriority
  InitCount = 1
  MaxCount = 2
  IntMax = 3
  SignalCounts <- SignalSome
  CancelCounts <- CancelSome
  TimedCallers <- OneThread
  Deleter <- ThreeThreads
INVARIANTS TypeOK NoGrantableWaiter TokensConserved
PROPERTIES NoOvertaking ImplementsAbstractSema EveryoneLeaves
CHECK_DEADLOCK FALSE
