SPECIFICATION FlipFairSpec
CONSTANTS
  g1 = g1
  g2 = g2
  p1 = p1
  p2 = p2
  p3 = p3
  Guests = {g1, g2}
  Ports = {p1, p2, p3}
  Indices = {1}
  Rate <- MCRate
  Capacity = 2
  FrameCount = 2
  Instances <- MCInstances
INVARIANTS FlipTypeOK FlipsExact
PROPERTY FlipCallsReturn
CHECK_DEADLOCK FALSE
