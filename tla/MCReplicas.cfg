SPECIFICATION MCSpec
CONSTANTS
  c0 = c0
  c1 = c1
  Client <- TwoClients
  Replica = {0, 1}
  MaxSerial = 2
  MaxSends = 3
  MaxLosses = 1
  MaxEarly = 1
  Key = {k1, k2}
  Value = {x, y}
  Empty = Empty
  MaxRemoves = 1
  MaxVersion = 6
  Requests <- MCRequests
  N = 3
  Color = {red, blue}
  NoColor = NoColor
  FirstColor = red
  MaxSuspicions = 1
  MaxRound = 2
SYMMETRY Alike
INVARIANTS Replicated DiffExact StubbornSafe
CHECK_DEADLOCK FALSE
