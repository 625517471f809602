SPECIFICATION Spec
CONSTANTS
  Thread = {t1}
  Local = Local
  NoThread = NoThread
  AsapQuota = 2
  Posted = 3
  MaxPosts = 0
  MaxClears = 0
  MaxLoops = 1
CHECK_DEADLOCK FALSE
INVARIANTS NothingLeft
