\* The option -c 1.
SPECIFICATION Spec
CONSTANTS
  NoFile = NoFile
  NoUri = NoUri
  NoKey = NoKey
  KeyUris <- KeyNames
  KeyFilename <- KeyNameOf
  Live = FALSE
  NumSegments = 2
  Crypto = 1
  Scale = 1
  Durations <- WholeSeconds
  IntMax = 7
  ULong = 16
  Uris <- VodUris
  Filename <- VodFilename
  DiskMayFail = FALSE
  MaxSegments = 3
  MaxRuns = 1
INVARIANT
  EncryptedSegmentsHaveKey
CHECK_DEADLOCK FALSE
