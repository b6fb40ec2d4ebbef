SPECIFICATION Spec
CONSTANTS
  Workers = {w1, w2}
  Uploads = {u1, u2}
  Tags = {t1}
  Payloads = {a, b}
  Latest = latest
  Hole = hole
  NoUpload = noUpload
  Nobody = nobody
  MaxChunks = 2
  Budgets <- MergeRaces
SYMMETRY Symmetric
INVARIANT TypeOK
INVARIANT RowDigestDeclared
INVARIANT RowHasFile
PROPERTY RowReplacedOnlyByForce
