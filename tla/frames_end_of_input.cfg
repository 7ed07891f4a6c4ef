\* The same streams in segments of 2 s, against the contract of Segmenter.hpp.
SPECIFICATION CallsSpec
CONSTANTS
  NoFile = NoFile
  NoUri = NoUri
  NoKey = NoKey
  Live = FALSE
  NumSegments = 0
  Crypto = 0
  Scale = 1
  Durations <- Results
  IntMax = 31
  ULong = 64
  Uris <- Numbers
  Filename <- Names
  KeyUris <- KeyNames
  KeyFilename <- NoKeyNames
  DiskMayFail = FALSE
  MaxSegments = 1
  MaxRuns = 1
  m_length = 2
  CharIsSigned = FALSE
  Streams <- TestStreams
  ULongLong = 64
PROPERTY
  EndOfInputReported
CHECK_DEADLOCK FALSE
