\* Behaviours end where a BUG_ON() is hit or a transfer is freed that is in use (Alive).
SPECIFICATION MCFairSpec
CONSTANTS
  Caller = {c1, c2}
  Xfer = {x1, x2}
  NoXfer = NoXfer
  PollMode = TRUE
  CounterSize = 64
  MaxDesc = 2
  MaxChunks = 1
  MaxFailures = 1
  Faults = {"error"}
CHECK_DEADLOCK FALSE
INVARIANTS
  StoppedIsEmpty
  OwnReport
PROPERTIES
  PolledRequestReturns
  ServesOneCaller
