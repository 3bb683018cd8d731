SPECIFICATION Spec
CONSTANTS
  Chunk = 4
  Sources <- MCSources
  Offsets = {0, 1}
  Rooms = {0, 3, 4, 6}
INVARIANT ReturnsBytesRead
CHECK_DEADLOCK FALSE
