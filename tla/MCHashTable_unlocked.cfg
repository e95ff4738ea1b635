SPECIFICATION FairSpec
CONSTANTS
  NUM_BUCKETS = 2
  NUM_KEYS = 4
  num_threads = 2
  RandomKeys = {0, 1, 2}
  Locking = "none"
  MallocFails = FALSE
  Nobody = Nobody
INVARIANTS
  ReportExact
PROPERTIES
  Terminates
