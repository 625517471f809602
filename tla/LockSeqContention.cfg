SPECIFICATION Spec
CONSTANTS
  Client = {c1, c2}
  MaxLength = 1
  MaxSequences = 2
  MaxLosses = 0
  MaxEarly = 0
  Empty = Empty
CHECK_DEADLOCK FALSE
INVARIANTS KeepsTrying
