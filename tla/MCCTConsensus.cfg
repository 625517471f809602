SPECIFICATION MCSpec
CONSTANTS
  N = 3
  Color = {red, blue}
  FirstColor = red
  NoColor = NoColor
  MaxSuspicions = 1
INVARIANTS Agreement CountedOnce NancyNeverErrs
PROPERTIES Locking ImplementsConsensus EventuallyApproved
