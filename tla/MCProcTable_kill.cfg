SPECIFICATION Spec
CONSTANTS
  NPROC = 3
  CPUS = {c1, c2}
  Nobody = Nobody
  Timer = Timer
  MAGIC_TICKET_NUM = 1
  NPAGES = 5
  MAXPID = 3
  TICKMOD = 1
  KillArgs = {0, 1, 2, 3}
  TicketArgs <- MCTickets
  SleepArgs = {}
  StrayDraws <- MCStray
SYMMETRY CpuSymmetry
INVARIANTS
  StackExclusive
  NoLostChildExit
  LotteryPicks
  LotteryShares
