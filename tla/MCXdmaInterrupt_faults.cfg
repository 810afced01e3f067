\* Behaviours end where a transfer is freed that is in use (Alive).
SPECIFICATION Spec
CONSTANTS
  Caller = {c1, c2}
  Xfer = {x1, x2, x3}
  NoXfer = NoXfer
  PollMode = FALSE
  CounterSize = 64
  MaxDesc = 2
  MaxChunks = 1
  Faults = {"error", "busy", "signal"}
SYMMETRY Symmetry
CHECK_DEADLOCK FALSE
INVARIANTS
  TypeOK
  NoBug
  CompletedWasMoved
  OneTransferPerRun
  InterruptNotLost
