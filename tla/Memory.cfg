SPECIFICATION Spec
CONSTANTS
  g1 = g1
  g2 = g2
  Guests = {g1, g2}
  Gpu = Gpu
  None = None
  NPages = 3
  RegionPages = 2
  Instances <- MCInstances
INVARIANTS TypeOK NoWriteLost NoStaleImage
