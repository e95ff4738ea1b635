SPECIFICATION FairSpec
CONSTANTS
  Lines <- Pipelines
  NLINES = 2
  NPROCS = 4
  CAPACITY = 1
  ITEMS = 2
  ForkFails = TRUE
  OpenFails = TRUE
INVARIANTS
  TypeOK
  EndsPrivate
  NoStrayChild
  Composition
PROPERTIES
  PromptReturns
  ProgramsEnd
