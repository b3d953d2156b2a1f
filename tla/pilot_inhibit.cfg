SPECIFICATION Spec
CONSTANTS
  Messages <- InhibitMessages
  MoveOKValues = {TRUE, FALSE}
  Faults = {"errors", "inhibit"}
  QueueBound = 2
  LinkBound = 1
  Span = 100
  ArrivalHeading = 10
  ArrivalRange = 10
  Bearing <- MCBearing
PROPERTIES
  InhibitHonoured
