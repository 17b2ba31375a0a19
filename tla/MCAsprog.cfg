SPECIFICATION FairSpec
CONSTANTS
  rchunk = 2
  wchunk = 3
  Buses = {"spi", "i2c", "mw"}
  JobsOf <- MCJobsOf
  StrayCodes = {"NONE", "SPI_WRITE", "SPI_DEINIT", "I2C_STOP"}
  MaxJobs = 2
  MaxFaults = 2
INVARIANTS
  TypeOK
  LineClean
  DoomedCallsFail
PROPERTIES
  ImplementsPort
  CallsFinish
  BackInLoop
CHECK_DEADLOCK FALSE
