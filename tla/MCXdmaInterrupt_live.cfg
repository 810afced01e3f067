\* Behaviours end where a transfer is freed that is in use (Alive).
SPECIFICATION FairSpec
CONSTANTS
  Caller = {c1, c2}
  Xfer = {x1, x2}
  NoXfer = NoXfer
  PollMode = FALSE
  CounterSize = 64
  MaxDesc = 2
  MaxChunks = 2
  Faults = {"signal"}
CHECK_DEADLOCK FALSE
INVARIANTS
  ChannelRunsHead
  QueueIsServed
  SleeperWillBeWoken
  FreedInServiceOnly
PROPERTIES
  RequestReturns
  ServesInOrder
