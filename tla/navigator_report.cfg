SPECIFICATION FairSpec
CONSTANTS
  RawDataTimeout = 2
  FixLostTimeout = 2
  MaxInterval = 2
  AppInterval = 1
  SamplesNeeded = 2
  Windows <- MCWindows
  Never = 3
PROPERTIES
  PosesKeepComing
