SPECIFICATION FairSpec
CONSTANTS
  HardwareSpeeds = 2
  TargetMin = 1
  SegWords = 2
  PacketSize = 3
  BlockMax = 4
  Modes <- MCModes
  JobsOf <- MCJobsOf
  MaxJobs = 2
  MaxFaults = 2
INVARIANTS
  TypeOK
  OnlyOwnBytes
  TargetReleased
PROPERTIES
  ImplementsPort
  CallsFinish
CHECK_DEADLOCK FALSE
