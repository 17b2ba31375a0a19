SPECIFICATION Spec
CONSTANTS
  Calls <- MCCalls
  Menus <- MCMenus
  MaxWrite = 2
  MaxRead = 2
  QueueLimit = 2
  MaxSkipped = 3
  MaxTxns = 2
  MaxFaults = 3
  Strays = {"outer"}
  Partial = TRUE
INVARIANTS
  TypeOK
  NoLandmine
  Attributed
  Whole
  ChipSelectKnown
  ConfiguredAsWanted
  OffMeansOff
  RecoversFromLostAnswers
CHECK_DEADLOCK FALSE
