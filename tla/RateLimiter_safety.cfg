\* A burst of two, one token a tick, eviction after more than two idle ticks.
CONSTANTS
  i1 = i1  i2 = i2  h1 = h1  h2 = h2  b1 = b1  b2 = b2  b3 = b3 
  IPs = {i1, i2}
  Handlers = {h1, h2}
  Buckets = {b1, b2, b3}
  Rate = 1
  Burst = 2
  EvictAfter = 2
  MaxStall = 1
  MaxTime = 4
  None = None
SPECIFICATION Spec
SYMMETRY MCSymmetry
INVARIANTS
  WindowBound
  OneBucketPerAddress
PROPERTIES
  RefusalJustified
