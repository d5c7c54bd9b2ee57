SPECIFICATION FairSpec
CONSTANTS
  w1 = w1
  w2 = w2
  c1 = c1
  Waiters <- TwoWaiters
  Callers <- OneCaller
  Keys = {"level", "edge", "queued", "timer"}
  Kind <- AllKinds
  Nums = {2}
  MaxQueued = 2
  MaxPresent = 2
INVARIANTS TypeOK TriggersAccounted CallbackOnce NoStrandedSleeper
PROPERTY DeleteEmpties
CHECK_DEADLOCK FALSE
