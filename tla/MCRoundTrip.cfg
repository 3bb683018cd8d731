SPECIFICATION MCSpec
CONSTANTS
  MaxRecords = 3
  MaxReaders = 2
  IntMax = 48
  HeapMax = 24
  InitialSize = 1
  BigEndian = FALSE
  CharBufferMax = 1
  StringReader = "utf"
  Records <- MCRecords
INVARIANTS ReadsBack SameEnd
CHECK_DEADLOCK FALSE
