SPECIFICATION Spec
CONSTANTS
  NPROC = 2
  CPUS = {c1, c2}
  Nobody = Nobody
  Timer = Timer
  MAGIC_TICKET_NUM = 1
  NPAGES = 4
  MAXPID = 2
  TICKMOD = 1
  KillArgs = {0}
  TicketArgs = {}
  SleepArgs = {}
  StrayDraws = {}
SYMMETRY CpuSymmetry
INVARIANTS
  KillHitsTarget
