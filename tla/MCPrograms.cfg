SPECIFICATION AnySpec
CONSTANTS
  KERNBASE = 8
  PGSIZE = 4
  INT = 2
  RTCDATE = 3
  MAXARGS = 3
  LINELEN = 6
  ALIGN = 3
  FILELEN = 5
  WORD = 2
  INTLIMIT = 8
  FASTBLOCK = 4
  Lengths = {5, 13}
  BlockSizes = {1, 2, 5}
  BlockCounts = {0, 3, 11}
  ThreadCounts = {1, 2, 3}
  MAXRUNS = 2
  Slots = {1, 2, 3, 4}
  Root = 1
  Null = 0
  Test = 2
INVARIANTS
  TypeOK
  SizeAccounted
  ParserCorrect
  ArgvFits
  RunsPrinted
  CountsAddUp
  DuplicatesFound
  XorComplete
  Position
  NoChildLeft
PROPERTIES
  AccessesMapped
  Ends
  TestEnds
