\* Two programs that write their index twice and are started twice.
SPECIFICATION Spec
CONSTANTS
  p1 = p1
  p2 = p2
  Programs <- Two
  DefaultName = out
  NoInode = 0
  Hole = Hole
  END = END
  Sizes = {1, 2}
  Inodes <- Nine
  MaxVersions = 2
  MaxStarts = 2
SYMMETRY Symmetry
INVARIANTS
  TypeOK
  IndexIsOwn
CHECK_DEADLOCK FALSE
