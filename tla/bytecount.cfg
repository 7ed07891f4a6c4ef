\* Inputs of 0 to 13 bytes in encrypted segments of 2 blocks of 2 bytes.
SPECIFICATION ByteCountFairSpec
CONSTANTS
  NoFile = NoFile
  NoUri = NoUri
  NoKey = NoKey
  Live = FALSE
  NumSegments = 0
  Crypto = 2
  Scale = 1
  Durations <- Results
  IntMax = 127
  ULong = 256
  Uris <- Numbers
  Filename <- Names
  KeyUris <- KeyNames
  KeyFilename <- NoKeyNames
  DiskMayFail = TRUE
  MaxSegments = 6
  MaxRuns = 1
  m_length = 2
  m_block = 2
  InputSizes <- Sizes
INVARIANTS
  InputIsSplitEvenly
  AtMostOneEmpty
  ListedAreBlocks
PROPERTIES
  ProgramEnds
  KeepsContract
CHECK_DEADLOCK FALSE
