\* A request ends: then nothing is left to do.
SPECIFICATION Spec
CONSTANTS
  PageSize = 4
  MaxTransferBytes = 16
  MaxDescBytes = 11
  MaxExtraAdj = 1
  DescsPerPage = 4
  AddrAlign = 2
  LenGranularity = 2
  Merging = TRUE
  BusPages = 6
  BufPages = 5
  MaxCount = 20
CHECK_DEADLOCK FALSE
INVARIANTS
  DescriptorsCoverRequest
  DescriptorsAccepted
  FetchStaysInPage
