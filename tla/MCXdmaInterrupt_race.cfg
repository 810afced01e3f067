SPECIFICATION Spec
CONSTANTS
  Caller = {c1, c2}
  Xfer = {x1, x2}
  NoXfer = NoXfer
  PollMode = FALSE
  CounterSize = 64
  MaxDesc = 1
  MaxChunks = 1
  Faults = {}
CHECK_DEADLOCK FALSE
INVARIANTS
  NoUseAfterFree
