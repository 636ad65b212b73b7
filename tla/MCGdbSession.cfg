CONSTANTS
  MaxRequests = 3
  MaxBreaks   = 1
  MaxFaults   = 2
  MaxLine     = 3
  MaxRest     = 3

SPECIFICATION SessionFairSpec

INVARIANTS
  SessionTypeOK
  DoneTwiceOnlyIfAckLost
  HaltedOnlyByLoss
  UnaskedStopExplained

PROPERTIES
  ImplementsRequestReply
  Answered
  BreakStops
