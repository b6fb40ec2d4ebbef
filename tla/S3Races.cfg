SPECIFICATION Spec
CONSTANTS
  Workers = {w1, w2}
  Uploads = {u1, u2}
  NoUpload = noUpload
  Bodies = {a, b}
  Intended = a
  CopyLimit = 2
  MaxChunks = 2
  Budget <- TwoSessions
SYMMETRY Symmetric
INVARIANT TypeOK
INVARIANT WholeFiles
INVARIANT SessionStaysOpen
CHECK_DEADLOCK FALSE
