SPECIFICATION Spec
CONSTANTS
  Thread = {t1, t2}
  MaxBodies = 1
  MaxCopies = 1
  MaxWatches = 1
CHECK_DEADLOCK FALSE
INVARIANT LastRefCloses
