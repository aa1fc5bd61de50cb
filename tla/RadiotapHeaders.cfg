\* Every combination of the bits a driver sets for a received beacon (TSFT, FLAGS,
\* RATE, CHANNEL, DBM_ANTSIGNAL, ANTENNA, RX_FLAGS), of one more that needs alignment
\* (LOCK_QUALITY), of one that padding makes the walk take for a longer one
\* (DBM_ANTNOISE) and of EXT, at lengths short, exact and long; two versions.
SPECIFICATION Spec
CONSTANTS
  Versions = {0, 1}
  Lengths = {0, 8, 11, 14, 16, 18, 26, 40, 49}
  MoreWords = {0, 2}
  Bits = {0, 1, 2, 3, 5, 6, 7, 11, 14, 31}
  BUFSIZ = 48
  MemoryEnd = 56
  Builds <- MCBuilds
  Headers <- MCHeaders
  Layout <- MCLayout
INVARIANTS TypeOK ReportedInsideHeader FieldsRight PaddedAccepted
PROPERTIES WellFormedEnds
CHECK_DEADLOCK FALSE
