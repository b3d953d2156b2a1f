SPECIFICATION FairSpec
CONSTANTS
  MaxError = 2
  MaxMessages = 4
INVARIANTS
  TypeOK
  LoggedOnce
  SentOnce
  FirstErrorsForwarded
PROPERTIES
  EveryLogPrinted
CHECK_DEADLOCK FALSE
