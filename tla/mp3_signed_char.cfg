\* The same streams, where char is signed.
SPECIFICATION AudioSpec
CONSTANTS
  NoFile = NoFile
  NoUri = NoUri
  NoKey = NoKey
  Live = FALSE
  NumSegments = 0
  Crypto = 0
  Scale = 1
  Durations <- Results
  IntMax = 31
  ULong = 64
  Uris <- Numbers
  Filename <- Names
  KeyUris <- KeyNames
  KeyFilename <- NoKeyNames
  DiskMayFail = FALSE
  MaxSegments = 5
  MaxRuns = 1
  m_length = 1
  CharIsSigned = TRUE
  Streams <- TestStreams
  ULongLong = 64
INVARIANT
  FramesKept
CHECK_DEADLOCK FALSE
