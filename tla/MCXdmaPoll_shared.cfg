SPECIFICATION Spec
CONSTANTS
  Caller = {c1, c2}
  Xfer = {x1, x2}
  NoXfer = NoXfer
  PollMode = TRUE
  CounterSize = 64
  MaxDesc = 2
  MaxChunks = 1
  MaxFailures = 0
  Faults = {}
CHECK_DEADLOCK FALSE
INVARIANTS
  CompletedWasMoved
