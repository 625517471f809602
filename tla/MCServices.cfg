SPECIFICATION MCSpec
CONSTANTS
  Thread = {t1, t2}
  Local = Local
  NoThread = NoThread
  AsapQuota = 2
  Posted = 1
  MaxPosts = 2
  MaxClears = 1
  MaxLoops = 2
  Rpc = {1, 2}
  HttpAsk <- MCHttpAsk
  MaxCalls = 2
  Capacity = 3
  Text = {"x"}
  Absent = "-"
  NotText = "?"
  Peer = {"p1", "p2"}
  Socket = {"s1", "s2"}
  Home <- MCHome
  UdpAsk <- MCUdpAsk
  UdpMaxCalls = 2
  MaxLosses = 1
  Client = {c1, c2, c3}
  N = 2
CHECK_DEADLOCK FALSE
INVARIANTS HandedOver Paired Agreed Parsed
PROPERTIES GuardedRuns LoopReturns CallsEnd
