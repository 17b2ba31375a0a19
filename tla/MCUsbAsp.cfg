SPECIFICATION FairSpec
CONSTANTS
  SckAuto = 0
  Sck2 = 3
  Sck8 = 5
  Sck93 = 8
  Sck187 = 9
  Sck375 = 10
  Jumper = FALSE
  TargetMax = 9
  SegBytes = 4
  PacketSize = 2
  CounterMod = 4
  Modes <- MCModes
  JobsOf <- MCJobsOf
  MaxJobs = 2
  MaxFaults = 2
INVARIANTS
  TypeOK
  InStep
  NoFrameLeaks
PROPERTIES
  ImplementsPort
  CallsFinish
CHECK_DEADLOCK FALSE
