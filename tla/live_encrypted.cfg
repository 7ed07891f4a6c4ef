\* A live stream with changing keys, killed anywhere and started again.
SPECIFICATION Spec
CONSTANTS
  NoFile = NoFile
  NoUri = NoUri
  NoKey = NoKey
  KeyUris <- KeyNames
  KeyFilename <- KeyNameOf
  Live = TRUE
  NumSegments = 2
  Crypto = 2
  Scale = 1
  Durations <- WholeSeconds
  IntMax = 7
  ULong = 16
  Uris <- LiveUris
  Filename <- LiveFilename
  DiskMayFail = TRUE
  MaxSegments = 5
  MaxRuns = 2
INVARIANTS
  TypeOK
  KeyInForce
  ListedSegmentsPlayable
  OnlyOldestMissing
PROPERTY
  ReaderSeesWindow
CHECK_DEADLOCK FALSE
