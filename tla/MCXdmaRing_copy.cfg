\* The stream ends after MaxBlocks blocks and the device is not opened again after MaxOpens.
SPECIFICATION Spec
CONSTANTS
  r1 = r1
  r2 = r2
  Reader = {r1}
  RingSize = 3
  MaxPacket = 2
  MaxBlocks = 4
  MaxOpens = 1
  PollModes = {TRUE}
  Environments = {{}}
CHECK_DEADLOCK FALSE
INVARIANTS
  CopyIsPacket
