SPECIFICATION FairSpec
CONSTANTS
  NPROC = 2
  CPUS = {c1, c2}
  Nobody = Nobody
  Timer = Timer
  MAGIC_TICKET_NUM = 1
  NPAGES = 4
  MAXPID = 2
  TICKMOD = 2
  KillArgs = {2}
  TicketArgs = {}
  SleepArgs = {0, 1}
  StrayDraws = {}
INVARIANTS
  NoLostTick
PROPERTIES
  KilledExits
