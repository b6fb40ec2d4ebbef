SPECIFICATION FairSpec
CONSTANTS
  Workers = {w1, w2}
  Uploads = {u1, u2}
  Tags = {t1}
  Payloads = {a}
  Latest = latest
  Hole = hole
  NoUpload = noUpload
  Nobody = nobody
  MaxChunks = 1
  Budgets <- ReadersDeletes
PROPERTY CacheBecomesFresh
