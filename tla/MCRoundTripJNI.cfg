SPECIFICATION MCSpec
CONSTANTS
  MaxRecords = 3
  MaxReaders = 2
  IntMax = 48
  HeapMax = 24
  InitialSize = 1
  BigEndian = FALSE
  CharBufferMax = 1
  StringReader = "utfJNI"
  Records <- MCStringRecords
INVARIANT ReadsBack
CHECK_DEADLOCK FALSE
