SPECIFICATION FairSpec
CONSTANTS
  Activities = {"go", "stop"}
  Folders <- TwoEditions
  Delivered = {"RELOAD", "ACTIVATE", "TICK_1S"}
  MaxQueue = 1
  MaxConfigs = 2
INVARIANTS
  TypeOK
  LuaUsedSafely
  ConfigDoneCounts
  ActivityAnnounced
PROPERTIES
  SignalReloads
  ConfigAnswered
CHECK_DEADLOCK FALSE
