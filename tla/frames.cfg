\* Frames of 0.128 and 0.093 s (ADTS), 0.072 and 0.036 s (MP3), segments of 1 s.
SPECIFICATION AudioFairSpec
CONSTANTS
  NoFile = NoFile
  NoUri = NoUri
  NoKey = NoKey
  Live = FALSE
  NumSegments = 0
  Crypto = 0
  Scale = 1
  Durations <- Results
  IntMax = 31
  ULong = 64
  Uris <- Numbers
  Filename <- Names
  KeyUris <- KeyNames
  KeyFilename <- NoKeyNames
  DiskMayFail = FALSE
  MaxSegments = 5
  MaxRuns = 1
  m_length = 1
  CharIsSigned = FALSE
  Streams <- TestStreams
  ULongLong = 64
INVARIANTS
  FramesKept
  NoAccumulation
PROPERTY
  ShortRestEnds
CHECK_DEADLOCK FALSE
