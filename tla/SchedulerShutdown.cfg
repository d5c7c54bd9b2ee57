SPECIFICATION FairSpec
CONSTANTS
  GrowStep = 1
  MaxTick = 1
  MaxOps = 1

PROPERTY ShutdownFinishes
CHECK_DEADLOCK FALSE
