SPECIFICATION MCSpec
CONSTANTS
  Request = {r1, r2}
  MaxSends = 4
  MaxLosses = 2
  MaxEarly = 1
  t1 = t1
  t2 = t2
  e1 = e1
  e2 = e2
  q1 = q1
  q2 = q2
CHECK_DEADLOCK FALSE
INVARIANTS ExactlyOnce Durable Copies DeletedLast QuorumExact
PROPERTIES WaitEnds CallsReturn
