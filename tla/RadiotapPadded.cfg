\* A well-formed header with one byte of padding before its channel field.
SPECIFICATION Spec
CONSTANTS
  Versions = {0}
  Lengths = {14}
  MoreWords = {0}
  Bits = {2, 3}
  BUFSIZ = 48
  MemoryEnd = 56
  Builds <- MCBuilds
  Headers <- MCHeaders
  Layout <- MCLayout
INVARIANTS ReportedIsPresent
CHECK_DEADLOCK FALSE
