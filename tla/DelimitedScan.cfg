SPECIFICATION Spec
CHECK_DEADLOCK FALSE
CONSTANTS
  MaxLength = 5
  Contents <- MCContents
  OptionSets <- MCOptionSets
  Requests <- MCRequests
  ChunkSizes = {1, 2, 3, 4}
INVARIANTS
  ScanInv
  IndexExact
  RangeExact
