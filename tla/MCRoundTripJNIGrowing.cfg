SPECIFICATION MCSpec
CONSTANTS
  MaxRecords = 3
  MaxReaders = 2
  IntMax = 48
  HeapMax = 28
  InitialSize = 7
  BigEndian = FALSE
  CharBufferMax = 2
  StringReader = "utfJNI"
  Records <- MCMixedRecords
INVARIANT NativeReadsBack
CHECK_DEADLOCK FALSE
