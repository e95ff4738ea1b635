SPECIFICATION UniqSpec
CONSTANTS
  ALIGN = 3
  FILELEN = 4
INVARIANTS
  DuplicatesOnce
