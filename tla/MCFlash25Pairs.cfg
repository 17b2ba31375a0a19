SPECIFICATION FairSpec
CONSTANTS
  MemSize = 8
  ChipPage = 4
  Limit3B = 4
  Jobs <- MCPairJobs
  Contents <- MCBlank
  ReadChunk = 5
  BackEnds = {TRUE}
  MaxJobs = 2
  MaxFaults = 1
INVARIANTS
  ModeRestored
PROPERTIES
  Terminates
  CancelStops
CHECK_DEADLOCK FALSE
