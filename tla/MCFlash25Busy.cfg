SPECIFICATION Spec
CONSTANTS
  MemSize = 8
  ChipPage = 4
  Limit3B = 4
  Jobs <- MCPairJobs
  Contents <- MCBlank
  ReadChunk = 5
  BackEnds = {TRUE}
  MaxJobs = 2
  MaxFaults = 0
INVARIANTS
  NoDoneOverBusyChip
CHECK_DEADLOCK FALSE
