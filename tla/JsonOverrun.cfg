\* The 50 records the array holds, of ordinary length.
SPECIFICATION Spec
CONSTANTS
  BufferSize = 8192
  MaxCount = 50
  OpenLen = 12
  CloseLen = 2
  RecordSizes <- OrdinarySizes
  MaxRecord <- Longest
INVARIANTS SupportsMaxCount
