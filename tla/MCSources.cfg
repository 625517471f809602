SPECIFICATION MCSpec
CONSTANTS
  Thread = {t1, t2}
  MaxBodies = 2
  MaxCopies = 1
  MaxWatches = 2
  Socket = {1, 2}
  Easy = {e1}
  MaxFiles = 3
  MaxTimers = 3
  MaxAddresses = 3
  Port = {p1, p2}
  Receiver = {r1, r2}
  Nowhere = Nowhere
  MaxSends = 3
  MaxChanges = 2
CHECK_DEADLOCK FALSE
INVARIANTS FdServed CurlServed Transferred Dialed
PROPERTIES ImplementsQueue Delivers
