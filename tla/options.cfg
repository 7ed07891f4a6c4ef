\* Every command line of up to 4 options, and the first 5 segments made with it.
SPECIFICATION FilesSpec
CONSTANTS
  OutPatterns <- Outs
  KeyPatterns <- Keys
  DefaultOut <- OutDefault
  DefaultKey <- KeyDefault
  Names = {n1, n2}
  DefaultName = out
  Texts = {x1}
  NoText = ""
  Lengths = {0, 4}
  DefaultLength = 10
  Lives <- Windows
  NotLive = NotLive
  Malformed = Malformed
  ULong = 64
  UShort = 16
  Inputs = {f1, f2}
  Unreadable = {f2}
  Stdin = Stdin
  Extras = {x1}
  Cryptos = {1, 2}
  MaxOptions = 4
  Base = 2
  NameMax = 8
  MaxSequence = 5
INVARIANTS
  IndexAsAsked
  NamesAsAsked
  EntriesFindTheirFiles
CHECK_DEADLOCK FALSE
