SPECIFICATION Spec
CONSTANTS
  Workers = {w1, w2}
  Uploads = {u1, u2}
  Tags = {t1}
  Payloads = {a, b}
  Latest = latest
  Hole = hole
  NoUpload = noUpload
  Nobody = nobody
  MaxChunks = 1
  Budgets <- UploadMix
SYMMETRY Symmetric
INVARIANT FileMatchesRow
