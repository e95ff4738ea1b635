SPECIFICATION DiskSpec
CONSTANTS
  WORD = 2
  INTLIMIT = 8
  FASTBLOCK = 4
  Lengths = {0, 5, 8}
  BlockSizes = {1, 2, 5}
  BlockCounts = {1, 2}
  ThreadCounts = {1, 3}
  MAXRUNS = 2
INVARIANTS
  WriteSize
