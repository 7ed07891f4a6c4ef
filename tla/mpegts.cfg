\* Streams of up to 6 packets whose clock starts at 0.
SPECIFICATION MpegtsSpec
CONSTANTS
  NoFile = NoFile
  NoUri = NoUri
  NoKey = NoKey
  Live = FALSE
  NumSegments = 0
  Crypto = 0
  Scale = 1
  Durations <- Results
  IntMax = 31
  ULong = 64
  Uris <- Numbers
  Filename <- Names
  KeyUris <- KeyNames
  KeyFilename <- NoKeyNames
  DiskMayFail = FALSE
  MaxSegments = 4
  MaxRuns = 1
  m_length = 2
  TS_PCR_FREQ = 2
  PcrMod = 8
  Kinds <- Packets
  Advances <- Steps
  FirstPcrs <- AtZero
  Garbage <- Uninitialised
  MaxPackets = 6
INVARIANTS
  PacketsOnceInOrder
  GarbageIsFirst
  SegmentsSelfContained
  ReportedWithinClock
  AverageLength
  TablesDescribeContent
PROPERTIES
  ReportsTimeCopied
CHECK_DEADLOCK FALSE
