SPECIFICATION Spec
CONSTANTS
  Requests = {r1}
  MaxChunks = 2
INVARIANT GoodMeansWhole
CHECK_DEADLOCK FALSE
