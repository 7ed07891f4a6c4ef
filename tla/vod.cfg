\* A complete stream with changing keys and fractional durations.
SPECIFICATION Spec
CONSTANTS
  NoFile = NoFile
  NoUri = NoUri
  NoKey = NoKey
  KeyUris <- KeyNames
  KeyFilename <- KeyNameOf
  Live = FALSE
  NumSegments = 2
  Crypto = 3
  Scale = 2
  Durations <- HalfSeconds
  IntMax = 7
  ULong = 16
  Uris <- VodUris
  Filename <- VodFilename
  DiskMayFail = FALSE
  MaxSegments = 7
  MaxRuns = 2
INVARIANTS
  KeyInForce
  ListedSegmentsPlayable
  ListedTimeTracksTotal
  NoDurationWraps
PROPERTIES
  ReaderSeesWindow
CHECK_DEADLOCK FALSE
