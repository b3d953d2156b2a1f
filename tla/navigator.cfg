SPECIFICATION FairSystemSpec
CONSTANTS
  RawDataTimeout = 1
  FixLostTimeout = 1
  MaxInterval = 1
  AppInterval = 0
  SamplesNeeded = 1
  Windows <- MCWindows
  Never = 2
  MAXLINELENGTH = 13
INVARIANTS
  TypeOK
  NoticesTellState
  PoseIsFresh
PROPERTIES
  SentencesBelieved
  LossIsNoticed
