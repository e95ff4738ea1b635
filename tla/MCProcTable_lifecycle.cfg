SPECIFICATION Spec
CONSTANTS
  NPROC = 4
  CPUS = {c1, c2}
  Nobody = Nobody
  Timer = Timer
  MAGIC_TICKET_NUM = 1
  NPAGES = 6
  MAXPID = 4
  TICKMOD = 1
  KillArgs = {}
  TicketArgs = {}
  SleepArgs = {}
  StrayDraws = {}
INVARIANTS
  TypeOK
  PagesConserved
  OrphansAdopted
  FilesReleased
PROPERTIES
  ImplementsTree
