SPECIFICATION Spec
CONSTANTS
  MemSize = 8
  ChipPage = 4
  Limit3B = 4
  Jobs <- MCPairJobs
  Contents <- MCBlank
  ReadChunk = 5
  BackEnds = {TRUE}
  MaxJobs = 1
  MaxFaults = 0
INVARIANTS
  NeverLeftLatched
CHECK_DEADLOCK FALSE
