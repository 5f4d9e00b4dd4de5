\* Two calls at a time and a limiter that admits one; no symmetry, as it checks
\* liveness.
CONSTANTS
  r1 = r1  r2 = r2
  Requests = {r1, r2}
  Burst = 1
  Calls <- MCCalls
SPECIFICATION PipeLive
INVARIANTS
  HeardUnlessLost
  OnlyCheckedRuns
PROPERTIES
  SigtermStops
  StopsOnlyBySigterm
  EveryCallHeard
