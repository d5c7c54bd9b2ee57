SPECIFICATION FairSpec
CONSTANTS
  t1 = t1
  t2 = t2
  t3 = t3
  NoThread = NoThread
  Threads <- ThreeThreads
  InlineSlots = 2
  MaxReads = 2
  TimedReaders <- ThreeThreads
  TimedWriters <- ThreeThreads
INVARIANTS TypeOK Exclusive BookkeepingExact
PROPERTIES NoWaiterLeftBehind WritersGetIn
