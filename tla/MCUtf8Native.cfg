SPECIFICATION Spec
CONSTANTS
  Chunk = 4
  Sources <- MCSources
  Offsets = {0, 1}
  Rooms = {0, 3, 4, 6}
INVARIANTS TypeOK CursorsAgree SplitsNoChar
PROPERTIES CallReturns StoresStayInside ImplementsDecoder
CHECK_DEADLOCK FALSE
