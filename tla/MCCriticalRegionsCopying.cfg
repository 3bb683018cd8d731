CONSTANTS
  t1 = t1
  t2 = t2
  t3 = t3
  Threads <- Two
  Copying = TRUE
  Memory = 1
  MaxCuts = 1
SPECIFICATION Spec
INVARIANT CharsArrive
