SPECIFICATION Spec
CONSTANTS
  d1 = d1
  d2 = d2
  Device = {d1, d2}
  Capability <- MCCapability
  MaxDevices = 2
  OpenAtUnplug = FALSE
INVARIANTS
  NothingReleasedTwice
  AbsentHoldsNothing
  FileFindsDevice
  HandlerFindsMemory
  InstancesDistinct
