SPECIFICATION Spec
CONSTANTS
  Repos = {r1, r2, r3}
  PageSize = 1
  MaxNow = 2
  MaxId = 3
  Budget = 1
SYMMETRY Symmetric
INVARIANT TypeOK
INVARIANT PagesExact
INVARIANT PagesMissNone
PROPERTY LatestAdvances
CHECK_DEADLOCK FALSE
