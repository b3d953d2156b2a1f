SPECIFICATION FairSpec
CONSTANTS
  Messages <- MotionMessages
  MoveOKValues = {TRUE}
  Faults = {"errors"}
  QueueBound = 1
  LinkBound = 1
  Span = 100
  ArrivalHeading = 10
  ArrivalRange = 10
  Bearing <- MCBearing
INVARIANTS
  NeverStranded
PROPERTIES
  StraightMovesEnd
