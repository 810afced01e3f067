\* The stream ends after MaxBlocks blocks and the device is not opened again after MaxOpens.
SPECIFICATION FairSpec
CONSTANTS
  r1 = r1
  r2 = r2
  Reader = {r1, r2}
  RingSize = 3
  MaxPacket = 2
  MaxBlocks = 4
  MaxOpens = 2
  PollModes = {TRUE, FALSE}
  Environments = {{"error"}, {"bad"}, {"lap"}, {"signal", "close signal"}, {"reopen", "nomem"}, {"share"}}
CHECK_DEADLOCK FALSE
INVARIANTS
  RingIsOrdered
  FreedAfterStop
  LockHasHolder
  PolledReadIsWhole
PROPERTIES
  PacketIsTaken
  CloseReturns
