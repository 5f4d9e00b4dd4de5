\* README line 234 on the graceful shutdown, against the code.
CONSTANTS
  r1 = r1  r2 = r2  r3 = r3
  Requests = {r1, r2, r3}
SPECIFICATION Spec
PROPERTIES
  DrainRespected
