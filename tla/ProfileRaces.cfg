SPECIFICATION Spec
CONSTANTS
  Workers = {w1, w2}
  Nobody = nobody
  Values = {a, b}
  Original = a
  Keep = keep
  DelFails = TRUE
  Budget <- TwoWrites
INVARIANT TypeOK
INVARIANT PasswordStays
INVARIANT LoginsCurrent
PROPERTY CopiesConverge
PROPERTY OthersKept
