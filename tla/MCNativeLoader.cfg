CONSTANTS
  p1 = p1
  p2 = p2
  p3 = p3
  JVMs <- Three
  Size = 2
  Leftover = Leftover
  None = None
SPECIFICATION Spec
INVARIANTS TypeOK AloneLoads SomeoneLoads
PROPERTIES LoadedInTheEnd
CHECK_DEADLOCK FALSE
