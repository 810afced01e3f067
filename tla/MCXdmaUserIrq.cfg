SPECIFICATION FairSpec
CONSTANTS
  l1 = l1
  l2 = l2
  r1 = r1
  r2 = r2
  r3 = r3
  Line = {l1, l2}
  Reader = {r1, r2, r3}
  LineOf <- OneAndTwo
  Faults = {"signal"}
INVARIANTS
  SleeperHasNoEvent
  ReaderSeesEvents
PROPERTIES
  EventEndsRead
