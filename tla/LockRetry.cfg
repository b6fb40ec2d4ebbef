SPECIFICATION Spec
CONSTANTS
  Callers = {c1, c2}
  NoOne = noOne
  Asked = 3
INVARIANT TypeOK
INVARIANT HoldersExclude
PROPERTY UnlockReturns
