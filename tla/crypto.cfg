\* Two segments of up to 6 bytes in blocks of 3.
SPECIFICATION ProxySpec
CONSTANTS
  blockSize = 3
  Bytes <- LikePadding
  MaxBytes = 6
  MaxSegments = 2
INVARIANTS
  DecryptsToSource
  NoHoles
CHECK_DEADLOCK FALSE
