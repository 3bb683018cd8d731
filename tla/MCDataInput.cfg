SPECIFICATION MCSpec
CONSTANTS
  MaxCalls = 4
  IntMax = 16
  HeapMax = 15
  BigEndian = TRUE
  CharBufferMax = 1
  Arrays <- MCArrays
  Widths <- MCWidths
  IndexArgs <- MCIndexes
INVARIANTS TypeOK MarkBehindCursor
PROPERTIES ReadsStayInside CallsEnd
CHECK_DEADLOCK FALSE
