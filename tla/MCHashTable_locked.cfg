SPECIFICATION LockedSpec
CONSTANTS
  NUM_BUCKETS = 2
  NUM_KEYS = 4
  num_threads = 3
  RandomKeys = {0, 1, 2}
  Locking = "mutex"
  MallocFails = TRUE
  Nobody = Nobody
INVARIANTS
  TypeOK
  LinkFresh
  NoKeyLost
  AllRetrieved
PROPERTIES
  GetReadOnly
  Terminates
