SPECIFICATION FairSpec
CONSTANTS
  Calls <- StrayCalls
  Menus <- StrayMenus
  MaxWrite = 2
  MaxRead = 2
  QueueLimit = 2
  MaxSkipped = 1
  MaxTxns = 1
  MaxFaults = 1
  Strays = {"async"}
  Partial = FALSE
PROPERTIES
  CallsReturn
CHECK_DEADLOCK FALSE
