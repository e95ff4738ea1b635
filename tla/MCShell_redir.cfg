SPECIFICATION Spec
CONSTANTS
  Lines <- Redirections
  NLINES = 1
  NPROCS = 2
  CAPACITY = 1
  ITEMS = 2
  ForkFails = FALSE
  OpenFails = TRUE
INVARIANTS
  RedirectionHits
