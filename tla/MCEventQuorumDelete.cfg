SPECIFICATION Spec
CONSTANTS
  t1 = t1
  t2 = t2
  e1 = e1
  e2 = e2
  q1 = q1
  q2 = q2
  Thread = {t1, t2}
  Plain = {e1, e2}
  Quorum = {q1, q2}
  Member = {1, 2, 3, 4}
  Child <- MCChild
  Parent <- MCParent
  Handles <- MCHandles
  MaxShares = 1
CHECK_DEADLOCK FALSE
INVARIANT NoUseAfterDelete
