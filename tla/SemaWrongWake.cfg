SPECIFICATION Spec
CONSTANTS
  t1 = t1
  t2 = t2
  t3 = t3
  Threads <- ThreeThreads
  Priority <- MixedPriority
  InitCount = 1
  MaxCount = 2
  IntMax = 3
  SignalCounts = {1, 2}
  CancelCounts = {0}
  TimedCallers <- OneThread
  Deleter = {}
INVARIANT GrantedIsAwake
