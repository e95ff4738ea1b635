------------------------------ MODULE ProcTable ------------------------------
(***************************************************************************)
(* The process table of the xv6 kernel of hw3 and everything that changes  *)
(* it: proc.c (allocproc, userinit, fork, exit, wait, scheduler, sched,    *)
(* yield, forkret, sleep, wakeup, kill) and the system calls of sysproc.c  *)
(* that block or that touch the lottery (sys_sleep, sys_settickets).       *)
(*                                                                         *)
(* Several CPUs run scheduler(); each process is a kernel thread that runs *)
(* on a CPU from one swtch() to the next.  Code between acquire and        *)
(* release of ptable.lock is one step, except where the lock is carried    *)
(* across a swtch(): from the draw to the release made by the process that *)
(* is resumed, and from sched() to the release at the end of scheduler()'s *)
(* loop.  Code that runs without ptable.lock is split at every point where *)
(* another CPU can observe it.                                             *)
(***************************************************************************)
EXTENDS Integers, FiniteSets, FiniteSetsExt, Functions

CONSTANTS
  NPROC,             \* slots of ptable.proc
  CPUS,              \* the CPUs
  Nobody,            \* the owner of a lock that is free
  Timer,             \* the clock interrupt, an owner of tickslock
  MAGIC_TICKET_NUM,  \* tickets of a new process (20 in proc.c)
  NPAGES,            \* bound: pages of memory
  MAXPID,            \* bound: the last pid handed out
  TICKMOD,           \* ticks is an unsigned int: 2^32, reduced
  KillArgs,          \* pids that processes pass to kill()
  TicketArgs,        \* numbers that processes pass to settickets()
  SleepArgs,         \* numbers that processes pass to sleep()
  StrayDraws         \* what random_at_most() may return for a negative number

Procs    == 1..NPROC
NULL     == 0         \* the null struct proc pointer
initproc == 1         \* userinit takes the first slot
TickChan == NPROC + 1 \* the address of ticks, no slot's address

ASSUME ConstantsAssumption ==
  /\ NPROC \in Nat \ {0}
  /\ Nobody \notin CPUS /\ Timer \notin CPUS /\ Nobody # Timer
  /\ MAGIC_TICKET_NUM \in Nat
  /\ NPAGES \in Nat /\ NPAGES >= 2
  /\ MAXPID \in Nat \ {0}
  /\ TICKMOD \in Nat \ {0}
  /\ KillArgs \subseteq Nat /\ SleepArgs \subseteq Nat
  /\ TicketArgs \subseteq Int /\ StrayDraws \subseteq Int

VARIABLES
  \* struct proc, field by field
  state, pid, parent, chan, killed, tickets,
  kstack,      \* whether the slot owns a kernel stack page
  pgdir,       \* whether the slot owns an address space
  files,       \* whether the slot holds references to open files and cwd
  context,     \* where swtch() into the process lands; "none" while it runs
  \* the kernel thread of each process: its control point and its locals
  pc, np, ticks0, nticks,
  \* struct cpu: the current process; and scheduler()'s control point, winner
  proc, cpu_pc, winner,
  \* globals
  ptable_lock, tickslock, ticks, nextpid, nfree, panicked,
  \* history: the pids for which kill() returned 0
  targeted

slotVars  == <<pid, tickets, kstack, pgdir, files>>
localVars == <<np, ticks0, nticks>>
cpuVars   == <<proc, cpu_pc, winner>>
clockVars == <<tickslock, ticks>>
memVars   == <<nextpid, nfree>>
vars == <<state, parent, chan, killed, context, pc, ptable_lock, panicked,
          targeted, slotVars, localVars, cpuVars, clockVars, memVars>>

States   == {"UNUSED", "EMBRYO", "SLEEPING", "RUNNABLE", "RUNNING", "ZOMBIE"}
Contexts == {"none", "forkret", "yield", "sleep", "exit"}
\* Control points of a process: in user code, before each call of fork, past
\* exit's clean-up, in wait, and in sys_sleep at the test of its loop (with
\* tickslock), in sleep(), and in sleep() before it takes tickslock again and
\* while it spins on it.
Points   == {"user", "kalloc", "copyuvm", "publish", "exit", "wait",
             "check", "sleep", "relock", "spin"}
\* Control points of scheduler(): halted, at the top of the loop, with a winner
\* drawn, inside swtch(), and back from it.
CpuPoints == {"hlt", "loop", "drawn", "run", "back"}

-----------------------------------------------------------------------------
(***************************************************************************)
(* The initial state is the one main() leaves after pinit and userinit:    *)
(* slot 1 holds init, ready to run, and every CPU enters scheduler().      *)
(***************************************************************************)
Init ==
  /\ state   = [p \in Procs |-> IF p = initproc THEN "RUNNABLE" ELSE "UNUSED"]
  /\ pid     = [p \in Procs |-> IF p = initproc THEN 1 ELSE 0]
  /\ parent  = [p \in Procs |-> NULL]
  /\ chan    = [p \in Procs |-> NULL]
  /\ killed  = [p \in Procs |-> FALSE]
  /\ tickets = [p \in Procs |-> IF p = initproc THEN MAGIC_TICKET_NUM ELSE 0]
  /\ kstack  = [p \in Procs |-> p = initproc]
  /\ pgdir   = [p \in Procs |-> p = initproc]
  /\ files   = [p \in Procs |-> p = initproc]
  /\ context = [p \in Procs |-> IF p = initproc THEN "forkret" ELSE "none"]
  /\ pc      = [p \in Procs |-> "user"]
  /\ np      = [p \in Procs |-> NULL]
  /\ ticks0  = [p \in Procs |-> 0]
  /\ nticks  = [p \in Procs |-> 0]
  /\ proc    = [c \in CPUS |-> NULL]
  /\ cpu_pc  = [c \in CPUS |-> "loop"]
  /\ winner  = [c \in CPUS |-> 0]
  /\ ptable_lock = Nobody
  /\ tickslock = Nobody
  /\ ticks = 0
  /\ nextpid = 2
  /\ nfree = NPAGES - 2
  /\ panicked = FALSE
  /\ targeted = {}

-----------------------------------------------------------------------------
(***************************************************************************)
(* Helpers.                                                                *)
(***************************************************************************)

\* Process p executes on CPU c, with no swtch() under way.
Running(c, p) ==
  /\ cpu_pc[c] = "run" /\ proc[c] = p /\ context[p] = "none"

\* swtch() has just entered p on CPU c, which still holds ptable.lock.
Resumed(c, p, from) ==
  /\ cpu_pc[c] = "run" /\ proc[c] = p /\ context[p] = from
  /\ ptable_lock = c

\* p enters a system call: trap() lets a killed process exit instead.
Enters(c, p) == Running(c, p) /\ pc[p] = "user" /\ ~killed[p]

Goto(p, point) == pc' = [pc EXCEPT ![p] = point]

\* kfree() and freevm() give back n pages.
Kfree_Leak(n)  == nfree' = nfree
Kfree(n)       == nfree' = nfree + n

\* sched(): p leaves CPU c holding ptable.lock, to be resumed at ctx.  The four
\* panics before swtch() are left out: the callers below hold that lock only,
\* with interrupts off, and have changed the state.
Sched_Unlocked(c, p, ctx) ==
  /\ context' = [context EXCEPT ![p] = ctx]
  /\ cpu_pc' = [cpu_pc EXCEPT ![c] = "back"]
  /\ ptable_lock' = Nobody
Sched(c, p, ctx) ==
  /\ context' = [context EXCEPT ![p] = ctx]
  /\ cpu_pc' = [cpu_pc EXCEPT ![c] = "back"]
  /\ ptable_lock' = c

\* wakeup1(ch) on process states st: every sleeper on ch becomes runnable.
Wakeup1_SkipsFirst(st, ch) ==
  [q \in Procs |-> IF st[q] = "SLEEPING" /\ chan[q] = ch /\ q # 1
                   THEN "RUNNABLE" ELSE st[q]]
Wakeup1(st, ch) ==
  [q \in Procs |-> IF st[q] = "SLEEPING" /\ chan[q] = ch
                   THEN "RUNNABLE" ELSE st[q]]

Children(p) == {q \in Procs : parent[q] = p}
Zombies(p)  == {q \in Children(p) : state[q] = "ZOMBIE"}

\* parent after exit() of p has passed its children to init.
Reparented_None(p) == parent
Reparented_Live(p) ==
  [q \in Procs |-> IF q \in Children(p) \ Zombies(p) THEN initproc
                   ELSE parent[q]]
Reparented(p) ==
  [q \in Procs |-> IF q \in Children(p) THEN initproc ELSE parent[q]]

\* exit() closes the open files and cwd of p.
CloseFiles_Keeps(p) == UNCHANGED files
CloseFiles(p) == files' = [files EXCEPT ![p] = FALSE]

\* ticks - ticks0 in unsigned arithmetic.
Elapsed(p) == (ticks - ticks0[p]) % TICKMOD

-----------------------------------------------------------------------------
(***************************************************************************)
(* scheduler(): the lottery.                                               *)
(***************************************************************************)
Runnable == {p \in Procs : state[p] = "RUNNABLE"}

\* counter after the second loop has passed slot p; num_tickets is the sum
\* over the whole table.
Counter(p) == SumFunctionOnSet(tickets, {q \in Runnable : q <= p})
NumTickets_AllSlots == SumFunctionOnSet(tickets, Procs)
NumTickets == SumFunctionOnSet(tickets, Runnable)

\* random_at_most(max), from rand.h: any number from 0 to max, max included.
\* A sum of tickets can be negative, which is outside the function's domain:
\* then nothing is known of the number but that it is an int.
RandomAtMost(max) == IF max >= 0 THEN 0..max ELSE StrayDraws

\* The slots at which the second loop does not go on with winner w: it stops
\* at the first of them.
Winners_Strict(w) == {p \in Runnable : Counter(p) > w}
Winners(w) == {p \in Runnable : Counter(p) >= w}

\* The numbers with which the second loop stops at p.
WonBy(p) == {w \in RandomAtMost(NumTickets) :
               p \in Winners(w) /\ \A q \in Winners(w) : p <= q}

\* Take ptable.lock, add up the tickets and draw the winner w.
SchedDraw(c, w) ==
  /\ cpu_pc[c] = "loop"
  /\ ptable_lock = Nobody
  /\ w \in RandomAtMost(NumTickets)
  /\ ptable_lock' = c
  /\ winner' = [winner EXCEPT ![c] = w]
  /\ cpu_pc' = [cpu_pc EXCEPT ![c] = "drawn"]
  /\ UNCHANGED <<state, parent, chan, killed, context, pc, panicked, targeted,
                 proc, slotVars, localVars, clockVars, memVars>>

\* The second loop stops at p: switch to it.
Dispatch(c, p) ==
  /\ cpu_pc[c] = "drawn"
  /\ p \in Winners(winner[c]) /\ \A q \in Winners(winner[c]) : p <= q
  /\ proc' = [proc EXCEPT ![c] = p]
  /\ state' = [state EXCEPT ![p] = "RUNNING"]
  /\ cpu_pc' = [cpu_pc EXCEPT ![c] = "run"]
  /\ winner' = [winner EXCEPT ![c] = 0]
  /\ UNCHANGED <<parent, chan, killed, context, pc, ptable_lock, panicked,
                 targeted, slotVars, localVars, clockVars, memVars>>

\* The second loop falls off the end of the table: release, then hlt().
NoneFound_PastEnd(c) ==
  /\ cpu_pc[c] = "drawn"
  /\ Winners(winner[c]) = {}
  /\ proc' = [proc EXCEPT ![c] = NPROC + 1]
  /\ cpu_pc' = [cpu_pc EXCEPT ![c] = "run"]
  /\ winner' = [winner EXCEPT ![c] = 0]
  /\ UNCHANGED <<state, parent, chan, killed, context, pc, ptable_lock,
                 panicked, targeted, slotVars, localVars, clockVars, memVars>>
NoneFound(c) ==
  /\ cpu_pc[c] = "drawn"
  /\ Winners(winner[c]) = {}
  /\ ptable_lock' = Nobody
  /\ cpu_pc' = [cpu_pc EXCEPT ![c] = "hlt"]
  /\ winner' = [winner EXCEPT ![c] = 0]
  /\ UNCHANGED <<state, parent, chan, killed, context, pc, panicked, targeted,
                 proc, slotVars, localVars, clockVars, memVars>>

\* An interrupt ends hlt().
Hlt(c) ==
  /\ cpu_pc[c] = "hlt"
  /\ cpu_pc' = [cpu_pc EXCEPT ![c] = "loop"]
  /\ UNCHANGED <<state, parent, chan, killed, context, pc, ptable_lock,
                 panicked, targeted, proc, winner, slotVars, localVars,
                 clockVars, memVars>>

\* swtch() comes back from the process: forget it, release, loop.
SchedReturn(c) ==
  /\ cpu_pc[c] = "back"
  /\ proc' = [proc EXCEPT ![c] = NULL]
  /\ ptable_lock' = Nobody
  /\ cpu_pc' = [cpu_pc EXCEPT ![c] = "loop"]
  /\ UNCHANGED <<state, parent, chan, killed, context, pc, panicked, targeted,
                 winner, slotVars, localVars, clockVars, memVars>>

-----------------------------------------------------------------------------
(***************************************************************************)
(* Giving up the CPU and getting it back.                                  *)
(***************************************************************************)

\* The first swtch() into a new process lands in forkret().
Forkret(c, p) ==
  /\ Resumed(c, p, "forkret")
  /\ ptable_lock' = Nobody
  /\ context' = [context EXCEPT ![p] = "none"]
  /\ UNCHANGED <<state, parent, chan, killed, pc, panicked, targeted,
                 slotVars, localVars, cpuVars, clockVars, memVars>>

\* A clock interrupt makes p yield(), in user or in kernel code, unless p
\* holds a lock or spins on one: interrupts are off then.
Yield(c, p) ==
  /\ Running(c, p)
  /\ tickslock # c /\ pc[p] # "spin" /\ ptable_lock = Nobody
  /\ state' = [state EXCEPT ![p] = "RUNNABLE"]
  /\ Sched(c, p, "yield")
  /\ UNCHANGED <<parent, chan, killed, pc, panicked, targeted, proc, winner,
                 slotVars, localVars, clockVars, memVars>>

\* yield() again, after sched() has returned.
YieldReturn(c, p) ==
  /\ Resumed(c, p, "yield")
  /\ ptable_lock' = Nobody
  /\ context' = [context EXCEPT ![p] = "none"]
  /\ UNCHANGED <<state, parent, chan, killed, pc, panicked, targeted,
                 slotVars, localVars, cpuVars, clockVars, memVars>>

-----------------------------------------------------------------------------
(***************************************************************************)
(* fork().  A fork that finds no slot returns -1 and changes nothing.      *)
(***************************************************************************)

\* allocproc() up to the release of ptable.lock: the first UNUSED slot q.
ForkAlloc(c, p, q) ==
  /\ Enters(c, p) /\ ptable_lock = Nobody
  /\ nextpid <= MAXPID
  /\ state[q] = "UNUSED" /\ \A r \in 1..(q - 1) : state[r] # "UNUSED"
  /\ state' = [state EXCEPT ![q] = "EMBRYO"]
  /\ pid' = [pid EXCEPT ![q] = nextpid]
  /\ nextpid' = nextpid + 1
  /\ tickets' = [tickets EXCEPT ![q] = MAGIC_TICKET_NUM]
  /\ np' = [np EXCEPT ![p] = q]
  /\ Goto(p, "kalloc")
  /\ UNCHANGED <<parent, chan, killed, context, ptable_lock, panicked,
                 targeted, kstack, pgdir, files, ticks0, nticks, cpuVars,
                 clockVars, nfree>>

\* allocproc() gets a kernel stack and lays out the first context on it.
ForkKalloc(c, p, q) ==
  /\ Running(c, p) /\ pc[p] = "kalloc" /\ np[p] = q
  /\ nfree > 0
  /\ nfree' = nfree - 1
  /\ kstack' = [kstack EXCEPT ![q] = TRUE]
  /\ context' = [context EXCEPT ![q] = "forkret"]
  /\ Goto(p, "copyuvm")
  /\ UNCHANGED <<state, parent, chan, killed, ptable_lock, panicked, targeted,
                 pid, tickets, pgdir, files, localVars, cpuVars, clockVars,
                 nextpid>>

\* kalloc() fails: allocproc() frees the slot, without ptable.lock, and fork()
\* returns -1.  Neither pid nor killed is reset.
ForkNoStack(c, p, q) ==
  /\ Running(c, p) /\ pc[p] = "kalloc" /\ np[p] = q
  /\ nfree = 0
  /\ state' = [state EXCEPT ![q] = "UNUSED"]
  /\ np' = [np EXCEPT ![p] = NULL]
  /\ Goto(p, "user")
  /\ UNCHANGED <<parent, chan, killed, context, ptable_lock, panicked,
                 targeted, slotVars, ticks0, nticks, cpuVars, clockVars,
                 memVars>>

\* copyuvm() succeeds; parent, files, cwd and name are copied.
ForkCopy(c, p, q) ==
  /\ Running(c, p) /\ pc[p] = "copyuvm" /\ np[p] = q
  /\ nfree > 0
  /\ nfree' = nfree - 1
  /\ pgdir' = [pgdir EXCEPT ![q] = TRUE]
  /\ parent' = [parent EXCEPT ![q] = p]
  /\ files' = [files EXCEPT ![q] = TRUE]
  /\ Goto(p, "publish")
  /\ UNCHANGED <<state, chan, killed, context, ptable_lock, panicked,
                 targeted, pid, tickets, kstack, localVars, cpuVars,
                 clockVars, nextpid>>

\* copyuvm() fails: fork() gives the stack back, frees the slot without
\* ptable.lock and returns -1.
ForkNoMemory(c, p, q) ==
  /\ Running(c, p) /\ pc[p] = "copyuvm" /\ np[p] = q
  /\ nfree = 0
  /\ Kfree(1)
  /\ kstack' = [kstack EXCEPT ![q] = FALSE]
  /\ state' = [state EXCEPT ![q] = "UNUSED"]
  /\ np' = [np EXCEPT ![p] = NULL]
  /\ Goto(p, "user")
  /\ UNCHANGED <<parent, chan, killed, context, ptable_lock, panicked,
                 targeted, pid, tickets, pgdir, files, ticks0, nticks,
                 cpuVars, clockVars, nextpid>>

\* The child is made RUNNABLE under ptable.lock and fork() returns its pid.
ForkPublish(c, p, q) ==
  /\ Running(c, p) /\ pc[p] = "publish" /\ np[p] = q
  /\ ptable_lock = Nobody
  /\ state' = [state EXCEPT ![q] = "RUNNABLE"]
  /\ np' = [np EXCEPT ![p] = NULL]
  /\ pc' = [pc EXCEPT ![p] = "user", ![q] = "user"]
  /\ UNCHANGED <<parent, chan, killed, context, ptable_lock, panicked,
                 targeted, slotVars, ticks0, nticks, cpuVars, clockVars,
                 memVars>>

-----------------------------------------------------------------------------
(***************************************************************************)
(* exit().                                                                 *)
(***************************************************************************)

\* exit() is called by the process itself or by trap() for a killed process;
\* init never calls it.  Close the files and drop cwd.
ExitClose(c, p) ==
  /\ Running(c, p) /\ pc[p] = "user"
  /\ p # initproc
  /\ CloseFiles(p)
  /\ Goto(p, "exit")
  /\ UNCHANGED <<state, parent, chan, killed, context, ptable_lock, panicked,
                 targeted, pid, tickets, kstack, pgdir, localVars, cpuVars,
                 clockVars, memVars>>

\* exit() of init panics.
ExitPanic(c, p) ==
  /\ Running(c, p) /\ pc[p] = "user"
  /\ p = initproc /\ killed[p]
  /\ panicked' = TRUE
  /\ UNCHANGED <<state, parent, chan, killed, context, pc, ptable_lock,
                 targeted, slotVars, localVars, cpuVars, clockVars, memVars>>

\* The rest of exit(), under ptable.lock: wake the parent, hand the children
\* to init, become a ZOMBIE, never return.
Exit(c, p) ==
  /\ Running(c, p) /\ pc[p] = "exit"
  /\ ptable_lock = Nobody
  /\ LET woken == Wakeup1(state, parent[p])
         after == IF Zombies(p) # {} THEN Wakeup1(woken, initproc) ELSE woken
     IN state' = [after EXCEPT ![p] = "ZOMBIE"]
  /\ parent' = Reparented(p)
  /\ Sched(c, p, "exit")
  /\ UNCHANGED <<chan, killed, pc, panicked, targeted, proc, winner, slotVars,
                 localVars, clockVars, memVars>>

-----------------------------------------------------------------------------
(***************************************************************************)
(* wait().  Its loop runs with ptable.lock held: taken on entry, or still  *)
(* held by the CPU that resumed the process from sleep().                  *)
(***************************************************************************)
WaitEnter(c, p) ==
  /\ Enters(c, p)
  /\ Goto(p, "wait")
  /\ UNCHANGED <<state, parent, chan, killed, context, ptable_lock, panicked,
                 targeted, slotVars, localVars, cpuVars, clockVars, memVars>>

WaitScans(c, p) ==
  /\ pc[p] = "wait"
  /\ \/ Running(c, p) /\ ptable_lock = Nobody
     \/ Resumed(c, p, "sleep")

\* wait() returns: a resumed sleep() has cleared chan, the lock is released.
WaitReturns(p) ==
  /\ chan' = [chan EXCEPT ![p] = NULL]
  /\ context' = [context EXCEPT ![p] = "none"]
  /\ ptable_lock' = Nobody
  /\ Goto(p, "user")

\* The first zombie child in table order is freed and its pid returned.
WaitReap(c, p, q) ==
  /\ WaitScans(c, p)
  /\ q \in Zombies(p) /\ \A r \in Zombies(p) : q <= r
  /\ kstack' = [kstack EXCEPT ![q] = FALSE]
  /\ pgdir' = [pgdir EXCEPT ![q] = FALSE]
  /\ Kfree(2)
  /\ state' = [state EXCEPT ![q] = "UNUSED"]
  /\ pid' = [pid EXCEPT ![q] = 0]
  /\ parent' = [parent EXCEPT ![q] = NULL]
  /\ killed' = [killed EXCEPT ![q] = FALSE]
  /\ WaitReturns(p)
  /\ UNCHANGED <<panicked, targeted, tickets, files, localVars, cpuVars,
                 clockVars, nextpid>>

\* No zombie, and no child at all or the caller was killed: -1.
WaitFail(c, p) ==
  /\ WaitScans(c, p)
  /\ Zombies(p) = {}
  /\ Children(p) = {} \/ killed[p]
  /\ WaitReturns(p)
  /\ UNCHANGED <<state, parent, killed, panicked, targeted, slotVars,
                 localVars, cpuVars, clockVars, memVars>>

\* Otherwise sleep(proc, &ptable.lock).
WaitSleep(c, p) ==
  /\ WaitScans(c, p)
  /\ Zombies(p) = {} /\ Children(p) # {} /\ ~killed[p]
  /\ chan' = [chan EXCEPT ![p] = p]
  /\ state' = [state EXCEPT ![p] = "SLEEPING"]
  /\ Sched(c, p, "sleep")
  /\ UNCHANGED <<parent, killed, pc, panicked, targeted, proc, winner,
                 slotVars, localVars, clockVars, memVars>>

-----------------------------------------------------------------------------
(***************************************************************************)
(* sys_sleep(n) and sleep(&ticks, &tickslock).                             *)
(***************************************************************************)
SysSleep(c, p, n) ==
  /\ Enters(c, p) /\ tickslock = Nobody
  /\ tickslock' = c
  /\ ticks0' = [ticks0 EXCEPT ![p] = ticks]
  /\ nticks' = [nticks EXCEPT ![p] = n]
  /\ Goto(p, "check")
  /\ UNCHANGED <<state, parent, chan, killed, context, ptable_lock, panicked,
                 targeted, slotVars, np, cpuVars, ticks, memVars>>

\* The tests of sys_sleep's loop: the time is over, or the caller was killed.
SleepOver_Deaf(p) == Elapsed(p) >= nticks[p]
SleepOver(p) == Elapsed(p) >= nticks[p] \/ killed[p]

\* The loop is over: release and return.
SysSleepReturn(c, p) ==
  /\ Running(c, p) /\ pc[p] = "check"
  /\ SleepOver(p)
  /\ tickslock' = Nobody
  /\ ticks0' = [ticks0 EXCEPT ![p] = 0]
  /\ nticks' = [nticks EXCEPT ![p] = 0]
  /\ Goto(p, "user")
  /\ UNCHANGED <<state, parent, chan, killed, context, ptable_lock, panicked,
                 targeted, slotVars, np, cpuVars, ticks, memVars>>

\* The process calls sleep(), still holding tickslock but not ptable.lock.
SysSleepAgain(c, p) ==
  /\ Running(c, p) /\ pc[p] = "check"
  /\ ~SleepOver(p)
  /\ Goto(p, "sleep")
  /\ UNCHANGED <<state, parent, chan, killed, context, ptable_lock, panicked,
                 targeted, slotVars, localVars, cpuVars, clockVars, memVars>>

\* sleep(): take ptable.lock, only then release tickslock, and go to sleep.
Sleep(c, p) ==
  /\ Running(c, p) /\ pc[p] = "sleep"
  /\ ptable_lock = Nobody
  /\ tickslock' = Nobody
  /\ chan' = [chan EXCEPT ![p] = TickChan]
  /\ state' = [state EXCEPT ![p] = "SLEEPING"]
  /\ Sched(c, p, "sleep")
  /\ UNCHANGED <<parent, killed, pc, panicked, targeted, proc, winner,
                 slotVars, localVars, ticks, memVars>>

\* sleep() after sched() has returned: clear chan, release ptable.lock.
SleepReturn(c, p) ==
  /\ Resumed(c, p, "sleep") /\ pc[p] = "sleep"
  /\ chan' = [chan EXCEPT ![p] = NULL]
  /\ context' = [context EXCEPT ![p] = "none"]
  /\ ptable_lock' = Nobody
  /\ Goto(p, "relock")
  /\ UNCHANGED <<state, parent, killed, panicked, targeted, slotVars,
                 localVars, cpuVars, clockVars, memVars>>

\* sleep() calls acquire(&tickslock), which turns interrupts off first...
SleepRelock(c, p) ==
  /\ Running(c, p) /\ pc[p] = "relock"
  /\ Goto(p, "spin")
  /\ UNCHANGED <<state, parent, chan, killed, context, ptable_lock, panicked,
                 targeted, slotVars, localVars, cpuVars, clockVars, memVars>>

\* ... and once it has the lock returns to the loop of sys_sleep.
SleepRelocked(c, p) ==
  /\ Running(c, p) /\ pc[p] = "spin"
  /\ tickslock = Nobody
  /\ tickslock' = c
  /\ Goto(p, "check")
  /\ UNCHANGED <<state, parent, chan, killed, context, ptable_lock, panicked,
                 targeted, slotVars, localVars, cpuVars, ticks, memVars>>

\* ticks++ in unsigned arithmetic.
NextTick == (ticks + 1) % TICKMOD

\* trap(): the clock interrupt takes tickslock and increments ticks...
Tick ==
  /\ tickslock = Nobody
  /\ tickslock' = Timer
  /\ ticks' = NextTick
  /\ UNCHANGED <<state, parent, chan, killed, context, pc, ptable_lock,
                 panicked, targeted, slotVars, localVars, cpuVars, memVars>>

\* ... and calls wakeup(&ticks) before it releases tickslock.
TickWakeup ==
  /\ tickslock = Timer /\ ptable_lock = Nobody
  /\ state' = Wakeup1(state, TickChan)
  /\ tickslock' = Nobody
  /\ UNCHANGED <<parent, chan, killed, context, pc, ptable_lock, panicked,
                 targeted, slotVars, localVars, cpuVars, ticks, memVars>>

-----------------------------------------------------------------------------
(***************************************************************************)
(* kill() and sys_settickets().                                            *)
(***************************************************************************)

\* The state kill() leaves a process in: woken if it sleeps.
StateKilled_Asleep(q) == state[q]
StateKilled(q) == IF state[q] = "SLEEPING" THEN "RUNNABLE" ELSE state[q]

\* kill(k) marks the first slot whose pid is k, whatever its state is, and
\* makes it runnable if it sleeps.  Without such a slot nothing changes.
Kill(c, p, k, q) ==
  /\ Enters(c, p) /\ ptable_lock = Nobody
  /\ pid[q] = k /\ \A r \in 1..(q - 1) : pid[r] # k
  /\ killed' = [killed EXCEPT ![q] = TRUE]
  /\ state' = [state EXCEPT ![q] = StateKilled(q)]
  /\ targeted' = targeted \cup {k}
  /\ UNCHANGED <<parent, chan, context, pc, ptable_lock, panicked, slotVars,
                 localVars, cpuVars, clockVars, memVars>>

\* settickets(t) writes proc->tickets without ptable.lock.
SetTickets(c, p, t) ==
  /\ Enters(c, p)
  /\ tickets' = [tickets EXCEPT ![p] = t]
  /\ UNCHANGED <<state, parent, chan, killed, context, pc, ptable_lock,
                 panicked, targeted, pid, kstack, pgdir, files, localVars,
                 cpuVars, clockVars, memVars>>

-----------------------------------------------------------------------------
SchedulerStep(c) ==
  \/ \E w \in RandomAtMost(NumTickets) : SchedDraw(c, w)
  \/ NoneFound(c) \/ Hlt(c) \/ SchedReturn(c)
  \/ \E p \in Procs : Dispatch(c, p)

ForkStep(c, p, q) ==
  \/ ForkAlloc(c, p, q) \/ ForkKalloc(c, p, q) \/ ForkNoStack(c, p, q)
  \/ ForkCopy(c, p, q) \/ ForkNoMemory(c, p, q) \/ ForkPublish(c, p, q)

SleepStep(c, p) ==
  \/ \E n \in SleepArgs : SysSleep(c, p, n)
  \/ SysSleepReturn(c, p) \/ SysSleepAgain(c, p)
  \/ Sleep(c, p) \/ SleepReturn(c, p)
  \/ SleepRelock(c, p) \/ SleepRelocked(c, p)

WaitStep(c, p) ==
  \/ WaitEnter(c, p) \/ WaitFail(c, p) \/ WaitSleep(c, p)
  \/ \E q \in Procs : WaitReap(c, p, q)

ProcessStep(c, p) ==
  \/ Forkret(c, p) \/ Yield(c, p) \/ YieldReturn(c, p)
  \/ \E q \in Procs : ForkStep(c, p, q)
  \/ ExitClose(c, p) \/ ExitPanic(c, p) \/ Exit(c, p)
  \/ WaitStep(c, p)
  \/ SleepStep(c, p)
  \/ \E k \in KillArgs, q \in Procs : Kill(c, p, k, q)
  \/ \E t \in TicketArgs : SetTickets(c, p, t)

\* panic() stops the machine.
Halted == panicked /\ UNCHANGED vars

Next ==
  \/ /\ ~panicked
     /\ \/ \E c \in CPUS : SchedulerStep(c)
        \/ \E c \in CPUS, p \in Procs : ProcessStep(c, p)
        \/ Tick \/ TickWakeup
  \/ Halted

Spec == Init /\ [][Next]_vars

-----------------------------------------------------------------------------
(***************************************************************************)
(* Fairness.                                                               *)
(***************************************************************************)

\* The steps of p that complete what it has begun: they are the kernel's
\* code, while entering a system call and yielding are the user's program
\* and the clock.  A killed process exits at its next trap.
Advances(c, p) ==
  \/ \E q \in Procs : /\ pc[p] # "user"
                       /\ (ForkStep(c, p, q) \/ WaitReap(c, p, q))
  \/ killed[p] /\ ExitClose(c, p)
  \/ ExitPanic(c, p) \/ Exit(c, p)
  \/ WaitFail(c, p) \/ WaitSleep(c, p)
  \/ SysSleepReturn(c, p) \/ SysSleepAgain(c, p)
  \/ Sleep(c, p) \/ SleepReturn(c, p)
  \/ SleepRelock(c, p) \/ SleepRelocked(c, p)

\* What CPU c does on its own: scheduler() but for the draw, and the code that
\* a process runs first when it is switched to.  At each of these points the
\* CPU can go on, and nothing else can move it.
Switches(c) ==
  \/ NoneFound(c) \/ Hlt(c) \/ SchedReturn(c)
  \/ \E p \in Procs : Dispatch(c, p) \/ Forkret(c, p) \/ YieldReturn(c, p)

\* A draw that p wins.
DrawnBy(c, p) == \E w \in WonBy(p) : SchedDraw(c, w)

\* Every CPU keeps running scheduler() and gets the spinlock it spins on; the
\* lottery is fair: who again and again could win a draw wins again and again
\* (random_at_most gives each number a positive chance); a process that is
\* scheduled again and again gets on; the clock ticks and preempts.
Fairness ==
  /\ \A c \in CPUS :
       /\ SF_vars(\E p \in Procs : Yield(c, p))
       /\ WF_vars(Switches(c))
  /\ \A p \in Procs :
       /\ SF_vars(\E c \in CPUS : DrawnBy(c, p))
       /\ SF_vars(\E c \in CPUS : Advances(c, p))
  /\ SF_vars(Tick) /\ SF_vars(TickWakeup)

FairSpec == Spec /\ Fairness

-----------------------------------------------------------------------------
(***************************************************************************)
(* Properties.                                                             *)
(***************************************************************************)
Alive(p) == state[p] \in {"SLEEPING", "RUNNABLE", "RUNNING"}

\* Every variable has its type.
TypeOK ==
  /\ state \in [Procs -> States]
  /\ pid \in [Procs -> 0..MAXPID]
  /\ parent \in [Procs -> Procs \cup {NULL}]
  /\ chan \in [Procs -> Procs \cup {NULL, TickChan}]
  /\ killed \in [Procs -> BOOLEAN]
  /\ tickets \in [Procs -> Int]
  /\ kstack \in [Procs -> BOOLEAN]
  /\ pgdir \in [Procs -> BOOLEAN]
  /\ files \in [Procs -> BOOLEAN]
  /\ context \in [Procs -> Contexts]
  /\ pc \in [Procs -> Points]
  /\ np \in [Procs -> Procs \cup {NULL}]
  /\ ticks0 \in [Procs -> 0..(TICKMOD - 1)]
  /\ nticks \in [Procs -> Nat]
  /\ proc \in [CPUS -> Procs \cup {NULL}]
  /\ cpu_pc \in [CPUS -> CpuPoints]
  /\ winner \in [CPUS -> Int]
  /\ ptable_lock \in CPUS \cup {Nobody}
  /\ tickslock \in CPUS \cup {Nobody, Timer}
  /\ ticks \in 0..(TICKMOD - 1)
  /\ nextpid \in Nat
  /\ nfree \in Nat
  /\ panicked \in BOOLEAN
  /\ targeted \subseteq KillArgs

\* A kernel stack is used by one CPU at a time and is not freed under it: the
\* process stays on its stack from sched() until scheduler() is back, although
\* its state already is RUNNABLE, SLEEPING or ZOMBIE.
StackExclusive ==
  \A c \in CPUS : proc[c] # NULL =>
    /\ kstack[proc[c]]
    /\ \A d \in CPUS \ {c} : proc[d] # proc[c]

\* wait() loses no exit() and no kill(): a process asleep in wait() has
\* children, none of them a zombie, and was not killed.
NoLostChildExit ==
  \A p \in Procs : state[p] = "SLEEPING" /\ chan[p] = p =>
    Children(p) # {} /\ Zombies(p) = {} /\ ~killed[p]

\* sleep(&ticks, &tickslock) loses no wakeup(&ticks): once the interrupt is
\* over, nobody sleeps whose time has come.
NoLostTick ==
  \A p \in Procs :
    state[p] = "SLEEPING" /\ chan[p] = TickChan /\ tickslock # Timer
      => Elapsed(p) < nticks[p]

\* No path of fork(), failing or not, and no wait() leaks a page or frees one
\* twice.
PagesConserved ==
  /\ nfree + Cardinality({p \in Procs : kstack[p]})
           + Cardinality({p \in Procs : pgdir[p]}) = NPAGES
  /\ \A p \in Procs : state[p] = "UNUSED" => ~kstack[p] /\ ~pgdir[p]

\* exit() leaves no orphan: every process but init has a parent that is alive
\* and older, so following parents always ends at init, and a free slot is
\* nobody's child.
OrphansAdopted ==
  \A q \in Procs :
    /\ q # initproc /\ (Alive(q) \/ state[q] = "ZOMBIE") =>
         parent[q] # NULL /\ Alive(parent[q]) /\ pid[parent[q]] < pid[q]
    /\ state[q] = "UNUSED" => parent[q] = NULL

\* Files are closed before a process can be reaped, and no slot is freed or
\* reused with references left in it.
FilesReleased ==
  \A p \in Procs : state[p] \in {"UNUSED", "ZOMBIE"} => ~files[p]

\* The second loop of scheduler() always finds the winner that was drawn from
\* the sum of the first, although processes on other CPUs call settickets()
\* and fork() without ptable.lock in between, and whatever the signs of the
\* tickets: no CPU halts while a process is runnable and the sum is not
\* negative.
LotteryPicks ==
  \A c \in CPUS : cpu_pc[c] = "drawn" /\ Runnable # {} /\ NumTickets >= 0
    => Winners(winner[c]) # {}

\* Of the numbers that random_at_most() can return for the table as it is, no
\* runnable process wins more than it has tickets, the first one in the table
\* one more, and none with a negative number wins any.  It wins exactly as many
\* where nobody's tickets are negative; settickets() takes any int, and a
\* negative one takes away from the shares of those after it.
LotteryShares ==
  NumTickets >= 0 =>
    \A p \in Runnable :
      LET first == \A q \in Runnable : p <= q
          due   == IF tickets[p] < 0 THEN 0
                   ELSE tickets[p] + (IF first THEN 1 ELSE 0)
      IN  /\ Cardinality(WonBy(p)) <= due
          /\ (\A q \in Runnable : tickets[q] >= 0)
               => Cardinality(WonBy(p)) = due

\* Somebody has a negative number of tickets, which takes draws away from the
\* processes after it, all of them perhaps.
InDebt == \E q \in Procs : tickets[q] < 0

\* A process that is in wait() while it has a zombie child comes out of it,
\* unless it has given up its tickets before or somebody's become negative:
\* then it may never be drawn again.
WaitCompletes ==
  \A p \in Procs : (pc[p] = "wait" /\ Zombies(p) # {} /\ tickets[p] > 0)
                     ~> (pc[p] # "wait" \/ InDebt)

\* A killed process with tickets exits, wherever kill() met it, unless
\* somebody's tickets become negative (init's exit is a panic).  It is named by
\* its pid, the slot may be in use again.
KilledExits ==
  LET Living(k) == {p \in Procs : pid[p] = k /\ Alive(p)}
  IN  \A k \in KillArgs :
        (\E p \in Living(k) : killed[p] /\ tickets[p] > 0)
          ~> (Living(k) = {} \/ panicked \/ InDebt)

\* "Kill the process with the given pid" (proc.c, kill): only a process whose
\* own pid was passed to kill() is killed.
KillHitsTarget ==
  \A p \in Procs : Alive(p) /\ killed[p] => pid[p] \in targeted
=============================================================================
