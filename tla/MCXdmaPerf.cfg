\* Behaviours end where a transfer or the results of a test are freed that are in use (Defined).
SPECIFICATION MCFairSpec
CONSTANTS
  Caller = {c1}
  Xfer = {1, 2, 3}
  NoXfer = NoXfer
  PollMode = FALSE
  CounterSize = 64
  MaxDesc = 2
  MaxChunks = 1
  Faults = {}
  MsixOverlap = FALSE
CHECK_DEADLOCK FALSE
INVARIANTS
  QueueSurvivesTests
  HalfDoneFails
PROPERTIES
  CarefulRequestReturns
