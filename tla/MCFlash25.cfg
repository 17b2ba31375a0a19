SPECIFICATION Spec
CONSTANTS
  MemSize = 12
  ChipPage = 4
  Limit3B = 8
  Jobs <- MCJobs
  Contents <- MCContents
  ReadChunk = 5
  BackEnds = {TRUE, FALSE}
  MaxJobs = 1
  MaxFaults = 1
INVARIANTS
  TypeOK
  RangeSafe
  DoneMeansProgrammed
  CheckedDoneMeansEqual
  VerifyDoneMeansEqual
  ReadFaithful
PROPERTIES
  NoWriteAfterCancel
CHECK_DEADLOCK FALSE
