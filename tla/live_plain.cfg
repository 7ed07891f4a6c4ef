\* A plain live stream whose files all have names of their own.
SPECIFICATION FairSpec
CONSTANTS
  NoFile = NoFile
  NoUri = NoUri
  NoKey = NoKey
  KeyUris <- KeyNames
  KeyFilename <- KeyNameOf
  Live = TRUE
  NumSegments = 2
  Crypto = 0
  Scale = 1
  Durations <- WholeSeconds
  IntMax = 7
  ULong = 16
  Uris <- VodUris
  Filename <- VodFilename
  DiskMayFail = TRUE
  MaxSegments = 5
  MaxRuns = 2
INVARIANTS
  BoundedDisk
  ListedSegmentsWhole
  IndexUpToDate
PROPERTIES
  CopiedGetsListed
  EndOfStreamEndsIndex
CHECK_DEADLOCK FALSE
