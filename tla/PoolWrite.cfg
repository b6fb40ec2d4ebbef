SPECIFICATION Spec
CONSTANTS
  N = 3
  Pool = 2
  Stores = {"local", "s3"}
  OldLens = {0, 2, 3}
INVARIANT TypeOK
INVARIANT SavedIsStored
INVARIANT TempOutlivesReaders
PROPERTY Returns
CHECK_DEADLOCK FALSE
