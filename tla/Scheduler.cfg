SPECIFICATION FairSpec
CONSTANTS
  GrowStep = 1
  MaxTick = 2
  MaxOps = 3
INVARIANTS TypeOK BufferNotInFlight
PROPERTIES RunsInTurn NothingLeftBehind CallsReturn
CHECK_DEADLOCK FALSE
