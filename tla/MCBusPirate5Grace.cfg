SPECIFICATION Spec
CONSTANTS
  Calls <- MCCalls
  Menus <- MCMenus
  MaxWrite = 2
  MaxRead = 2
  QueueLimit = 2
  MaxSkipped = 2
  MaxTxns = 2
  MaxFaults = 2
  Strays = {"outer"}
  Partial = FALSE
INVARIANTS
  NeverFooled
CHECK_DEADLOCK FALSE
