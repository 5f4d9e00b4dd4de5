\* Three URLs of different videos for two slots.
CONSTANTS
  t1 = t1  t2 = t2  t3 = t3  t4 = t4  u1 = u1  u2 = u2  u3 = u3
  va = va  vb = vb  vc = vc  zip = zip
  Tokens = {t1, t2, t3, t4}
  Paths = {va, vb, vc, zip}
  Handlers = {}
  TTLs = {2}
  MaxTime = 5
  Faults = {"share"}
  None = None
  URLs = {u1, u2, u3}
  fileOf <- Different
  Zip = zip
  BulkCap = 2
  TTL = 2
  MaxRun = 1
SPECIFICATION BFairSpec
INVARIANTS
  EveryLinkWorks
PROPERTIES
  BulkEnds
