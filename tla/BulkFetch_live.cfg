\* Three goroutines with two local slots and a single call of another request, on a
\* pool of two and a yt-dlp that may hang until it is killed.  No symmetry:
\* liveness is checked.
CONSTANTS
  c1 = c1  c2 = c2  c3 = c3  s1 = s1  r1 = r1  r2 = r2
  Calls = {c1, c2, c3, s1}
  Requests = {r1, r2}
  Bulk = {r1}
  startedBy <- MCStartedBy
  bulkConcurrency = 2
  MaxConcurrent = 2
  PipesOutlive = FALSE
  None = None
SPECIFICATION FetchFairSpec
INVARIANTS
  SlotConservation
PROPERTIES
  ImplementsPool
  EveryCallReturns
  EveryBulkAnswered
