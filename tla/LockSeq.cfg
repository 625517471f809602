SPECIFICATION FairSpec
CONSTANTS
  Client = {c1, c2}
  MaxLength = 3
  MaxSequences = 2
  MaxLosses = 2
  MaxEarly = 1
  Empty = Empty
CHECK_DEADLOCK FALSE
INVARIANTS AcceptedByCheck
PROPERTIES LockRespected SequenceEnds
