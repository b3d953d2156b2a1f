SPECIFICATION FairSpec
CONSTANTS
  a = a
  b = b
  c = c
  d = d
  flat = flat
  nested = nested
  loose = loose
  shared = shared
  mixed = mixed
  inner = inner
  empty = empty
  single = single
  all = all
  some = some
  each = each
  twice = twice
  both = both
  one = one
  none = none
  not = not
  wins = wins
  loses = loses
  also = also
  astray = astray
  spare = spare
  first = first
  low = low
  luck = luck
  Nodes <- MCNodes
  class <- MCclass
  kids <- MCkids
  Roots = {flat, nested, loose, shared, mixed, empty, single, astray, spare}
  Globals = {flat, loose, astray, spare}
  MaxStarts = 2
  Nil = Nil
INVARIANTS
  TypeOK
  ChildrenAlternate
  NoNilCall
  ReportMatches
  ReadyAgain
PROPERTIES
  UpdateEnds
