SPECIFICATION MCSpec
CONSTANTS
  MaxCalls = 3
  IntMax = 9
  HeapMax = 8
  InitialSize = 1
  SecondSize = 2
  ThirdSize = 3
  BigEndian = TRUE
  ByteArgs <- MCBytes
  FixedArgs <- MCFixed
  ByteArrayArgs <- MCByteArrays
  FixedArrayArgs <- MCFixedArrays
  StringArgs <- MCStrings
  StringArrayArgs <- MCStringArrays
  IndexArgs <- MCIndexes
INVARIANTS TypeOK CursorInBuffer ReservedRoom
PROPERTY ImplementsLog
CHECK_DEADLOCK FALSE
