SPECIFICATION MCSpec
CONSTANTS
  Source = {"with_id1", "with_id2", "with_id3"}
  Wrap = {"receive1", "receive2", "receive3"}
  Race = {"attempt", "first"}
  Root = "user"
  Kids <- MCKids
  Forwarding = {"receive1", "receive2", "receive3"}
  Cancellable = {"attempt"}
  Port = {"replica", "client"}
  PortOf <- MCPortOf
  MaxItems = 3
  MaxTimeouts = 2
  Types = {"prepare", "propose"}
  NoType = NoType
  Messages <- MCMessages
  MaxRound = 3
INVARIANTS NothingLost SoundResume
PROPERTIES ReceiveEnds ImplementsMailbox WaitEnds
CHECK_DEADLOCK FALSE
