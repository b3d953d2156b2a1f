SPECIFICATION Spec
CONSTANTS
  Saved = {"battery", "zeroth"}
  TickType = "tick"
  Zeroth = "zeroth"
  Entries = {e1, e2, e3}
  Null = Null
  r1 = r1
  r2 = r2
  Readers = {r1, r2}
  Messenger = Messenger
  Collector = Collector
  Nobody = Nobody
  Lookbacks = {1}
  Fresh = 1
  Minute = 2
  Hour = 4
  Day = 8
  Instants = {8, 11, 12}
  MaxAccess = 1
INVARIANTS
  TypeOK
  ListsWhole
  HeldStays
  OneTickEntry
PROPERTIES
  FoundIsLatest
  SlotsStayCovered
SYMMETRY Symmetry
