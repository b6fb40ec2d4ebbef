SPECIFICATION Spec
CONSTANTS
  Clients = {c1, c2}
  Names = {n}
  NoName = noName
  RefreshLife = 1
  YearLife = 2
  MaxNow = 2
  Budget = 3
SYMMETRY Symmetric
INVARIANT TypeOK
PROPERTY DeleteMeansGone
PROPERTY DeleteSparesNewer
