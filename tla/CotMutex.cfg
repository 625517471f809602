SPECIFICATION FairSpec
CONSTANTS
  Request = {r1, r2, r3, r4}
  NoRequest = NoRequest
CHECK_DEADLOCK FALSE
INVARIANTS Exclusion
PROPERTIES Orderly WaitersServed
