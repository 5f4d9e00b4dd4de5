\* Two tokens, two files, two handlers beside the worker; removals may fail,
\* error paths may leak and the process may restart.
CONSTANTS
  t1 = t1  t2 = t2  p1 = p1  p2 = p2  h1 = h1  h2 = h2
  Tokens = {t1, t2}
  Paths = {p1, p2}
  Handlers = {h1, h2}
  TTLs = {1, 2}
  MaxTime = 4
  Faults = {"restart", "unlinkFails", "abandon"}
  None = None
SPECIFICATION Spec
SYMMETRY MCSymmetry
INVARIANTS
  LiveTokenServable
  FailureOnlyAfterExpiry
PROPERTIES
  NoPrematureLoss
  ImplementsLease
