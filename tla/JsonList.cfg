\* The 50 records the array holds, too many for the buffer.
SPECIFICATION Spec
CONSTANTS
  BufferSize = 8192
  MaxCount = 50
  OpenLen = 12
  CloseLen = 2
  RecordSizes <- Sizes
  MaxRecord <- Longest
INVARIANTS TypeOK StaysInBuffer AnswerIsList
CHECK_DEADLOCK FALSE
