\* No fault of the environment, but producers that register a path twice or
\* without a file: every GET is answered, every entry is collected and every
\* file is tracked.  No symmetry: liveness is checked.
CONSTANTS
  t1 = t1  t2 = t2  p1 = p1  p2 = p2  h1 = h1  h2 = h2
  Tokens = {t1, t2}
  Paths = {p1, p2}
  Handlers = {h1}
  TTLs = {1}
  MaxTime = 3
  Faults = {"share", "phantom"}
  None = None
SPECIFICATION FairSpec
INVARIANTS
  FilesTracked
PROPERTIES
  EveryRequestAnswered
  EveryEntryCollected
