\* All four producers, two requests at a time, with restarts.
CONSTANTS
  t1 = t1  t2 = t2  p1 = p1  p2 = p2  h1 = h1
  Tokens = {t1, t2}
  Paths = {p1, p2}
  Handlers = {h1}
  TTLs = {1, 2}
  MaxTime = 4
  Faults = {"restart", "abandon", "phantom"}
  None = None
  Tools = {"thumbnail", "transcript", "csv", "json"}
  TTLOf <- MCTTLOf
SPECIFICATION PSpec
SYMMETRY MCSymmetry
INVARIANTS
  ErrorPathsCleanButJson
  NoPartialFile
  LinksWorkButTranscripts
PROPERTIES
  ImplementsStore
