\* One path that other programs write, truncate, replace and remove at will.
SPECIFICATION FairSpec
CONSTANTS
  Files = {f1}
  Blocks = {a, b}
  MaxBlocks = 2
  Inodes = {i1, i2}
  MaxChanges = 3
  None = None
INVARIANT ScanInv
PROPERTIES
  QuietFileExact
  ChangesRecorded
