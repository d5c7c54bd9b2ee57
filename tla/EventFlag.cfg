SPECIFICATION FairSpec
CONSTANTS
  t1 = t1
  t2 = t2
  t3 = t3
  a = a
  b = b
  Threads <- ThreeThreads
  Bits <- TwoBits
  WaitCalls <- SomeWaits
  Masks <- SomeMasks
INVARIANTS TypeOK NoStrandedSleeper NobodyInFreed
PROPERTIES StruckReturn AllGetThrough
CHECK_DEADLOCK FALSE
