CONSTANTS
  t1 = t1
  t2 = t2
  t3 = t3
  Threads <- Three
  Copying = FALSE
  Memory = 1
  MaxCuts = 1
SPECIFICATION Spec
INVARIANTS TypeOK KeptByCuts CharsArrive ErrorsAfterCut
PROPERTIES CollectionHappens CallsComeBack
