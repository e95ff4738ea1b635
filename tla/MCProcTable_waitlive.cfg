SPECIFICATION FairSpec
CONSTANTS
  NPROC = 3
  CPUS = {c1}
  Nobody = Nobody
  Timer = Timer
  MAGIC_TICKET_NUM = 1
  NPAGES = 6
  MAXPID = 3
  TICKMOD = 1
  KillArgs = {2}
  TicketArgs = {}
  SleepArgs = {}
  StrayDraws = {}
PROPERTIES
  WaitCompletes
  KilledExits
