--------------------------- MODULE ProcTableProofs ---------------------------
(***************************************************************************)
(* Theorems about the process table, for every number of slots, CPUs and   *)
(* pages and all arguments of the system calls.                            *)
(***************************************************************************)
EXTENDS ProcTableTree, TLAPS

\* The numbers the constants stand for.
LEMMA SlotNumbers ==
  /\ NPROC \in Nat \ {0} /\ TICKMOD \in Nat \ {0} /\ MAXPID \in Nat
  /\ Procs \subseteq Nat \ {0} /\ initproc \in Procs
  /\ NULL \notin Procs /\ TickChan \notin Procs /\ TickChan # NULL
  BY ConstantsAssumption DEF Procs, initproc, NULL, TickChan

\* The initial state has the right types.
LEMMA InitType == Init => TypeOK
<1> SUFFICES ASSUME Init PROVE TypeOK
  OBVIOUS
<1> USE DEF Init
<1>1. kstack \in [Procs -> BOOLEAN] /\ pgdir \in [Procs -> BOOLEAN]
  OBVIOUS
<1>2. files \in [Procs -> BOOLEAN] /\ killed \in [Procs -> BOOLEAN]
  OBVIOUS
<1>3. /\ ticks \in 0..(TICKMOD - 1) /\ ticks0 \in [Procs -> 0..(TICKMOD - 1)]
      /\ nfree \in Nat /\ pid \in [Procs -> 0..MAXPID]
      /\ tickets \in [Procs -> Int]
  BY ConstantsAssumption
<1>4. /\ state \in [Procs -> States] /\ context \in [Procs -> Contexts]
      /\ pc \in [Procs -> Points] /\ cpu_pc \in [CPUS -> CpuPoints]
  BY DEF States, Contexts, Points, CpuPoints
<1>5. targeted \subseteq KillArgs /\ panicked \in BOOLEAN
  OBVIOUS
<1> QED BY <1>1, <1>2, <1>3, <1>4, <1>5 DEF TypeOK

\* The steps of scheduler() keep the types.
LEMMA SchedulerType ==
  ASSUME TypeOK, NEW c \in CPUS, SchedulerStep(c)
  PROVE  TypeOK'
<1> USE DEF slotVars, localVars, clockVars, memVars
<1>1. ASSUME NEW w \in RandomAtMost(NumTickets), SchedDraw(c, w) PROVE TypeOK'
  <2>1. w \in Int
    BY ConstantsAssumption DEF RandomAtMost
  <2> QED BY <1>1, <2>1 DEF SchedDraw, TypeOK, CpuPoints
<1>2. CASE NoneFound(c)
  BY <1>2 DEF NoneFound, TypeOK, CpuPoints
<1>3. CASE Hlt(c)
  BY <1>3 DEF Hlt, TypeOK, CpuPoints
<1>4. CASE SchedReturn(c)
  BY <1>4 DEF SchedReturn, TypeOK, CpuPoints
<1>5. ASSUME NEW p \in Procs, Dispatch(c, p) PROVE TypeOK'
  BY <1>5 DEF Dispatch, TypeOK, CpuPoints, States
<1> QED BY <1>1, <1>2, <1>3, <1>4, <1>5 DEF SchedulerStep

\* Giving up the CPU and getting it back keeps the types.
LEMMA SwitchType ==
  ASSUME TypeOK, NEW c \in CPUS, NEW p \in Procs,
         Forkret(c, p) \/ Yield(c, p) \/ YieldReturn(c, p)
  PROVE  TypeOK'
<1> USE DEF slotVars, localVars, cpuVars, clockVars, memVars, TypeOK
<1>1. CASE Forkret(c, p)
  BY <1>1 DEF Forkret, Contexts
<1>2. CASE Yield(c, p)
  BY <1>2 DEF Yield, Sched, Contexts, CpuPoints, States
<1>3. CASE YieldReturn(c, p)
  BY <1>3 DEF YieldReturn, Contexts
<1> QED BY <1>1, <1>2, <1>3

\* The steps of fork() keep the types.
LEMMA ForkType ==
  ASSUME TypeOK, NEW c \in CPUS, NEW p \in Procs, NEW q \in Procs,
         ForkStep(c, p, q)
  PROVE  TypeOK'
<1> USE DEF slotVars, localVars, cpuVars, clockVars, memVars, TypeOK, Goto,
            Points
<1>1. CASE ForkAlloc(c, p, q)
  BY <1>1, ConstantsAssumption DEF ForkAlloc, States
<1>2. CASE ForkKalloc(c, p, q)
  BY <1>2 DEF ForkKalloc, Contexts
<1>3. CASE ForkNoStack(c, p, q)
  BY <1>3 DEF ForkNoStack, States
<1>4. CASE ForkCopy(c, p, q)
  BY <1>4 DEF ForkCopy
<1>5. CASE ForkNoMemory(c, p, q)
  BY <1>5 DEF ForkNoMemory, Kfree, States
<1>6. CASE ForkPublish(c, p, q)
  BY <1>6 DEF ForkPublish, States
<1> QED BY <1>1, <1>2, <1>3, <1>4, <1>5, <1>6 DEF ForkStep

\* What wakeup1() returns is a process state for every slot.
LEMMA Wakeup1Type ==
  ASSUME NEW st \in [Procs -> States], NEW ch
  PROVE  Wakeup1(st, ch) \in [Procs -> States]
  BY DEF Wakeup1, States

\* The steps of exit() keep the types.
LEMMA ExitType ==
  ASSUME TypeOK, NEW c \in CPUS, NEW p \in Procs,
         ExitClose(c, p) \/ ExitPanic(c, p) \/ Exit(c, p)
  PROVE  TypeOK'
<1> USE DEF slotVars, localVars, cpuVars, clockVars, memVars, Goto, Points
<1>1. CASE ExitClose(c, p)
  BY <1>1 DEF ExitClose, CloseFiles, TypeOK
<1>2. CASE ExitPanic(c, p)
  BY <1>2 DEF ExitPanic, TypeOK
<1>3. CASE Exit(c, p)
  <2>1. state' \in [Procs -> States]
    <3> DEFINE woken == Wakeup1(state, parent[p])
               after == IF Zombies(p) # {} THEN Wakeup1(woken, initproc)
                        ELSE woken
    <3>1. woken \in [Procs -> States]
      BY Wakeup1Type DEF TypeOK
    <3>2. after \in [Procs -> States]
      BY <3>1, Wakeup1Type
    <3>3. state' = [after EXCEPT ![p] = "ZOMBIE"]
      BY <1>3 DEF Exit
    <3> HIDE DEF after
    <3> QED BY <3>2, <3>3 DEF States
  <2>2. parent' \in [Procs -> Procs \cup {NULL}]
    BY <1>3, SlotNumbers DEF Exit, Reparented, TypeOK
  <2> QED BY <1>3, <2>1, <2>2 DEF Exit, Sched, TypeOK, Contexts, CpuPoints
<1> QED BY <1>1, <1>2, <1>3

\* The steps of wait() keep the types.
LEMMA WaitType ==
  ASSUME TypeOK, NEW c \in CPUS, NEW p \in Procs, WaitStep(c, p)
  PROVE  TypeOK'
<1> USE DEF slotVars, localVars, cpuVars, clockVars, memVars, TypeOK, Goto,
            Points, Contexts
<1>1. CASE WaitEnter(c, p)
  BY <1>1 DEF WaitEnter
<1>2. CASE WaitFail(c, p)
  BY <1>2 DEF WaitFail, WaitReturns
<1>3. CASE WaitSleep(c, p)
  BY <1>3 DEF WaitSleep, Sched, States, CpuPoints
<1>4. ASSUME NEW q \in Procs, WaitReap(c, p, q) PROVE TypeOK'
  BY <1>4, ConstantsAssumption DEF WaitReap, WaitReturns, Kfree, States
<1> QED BY <1>1, <1>2, <1>3, <1>4 DEF WaitStep

\* The steps of sys_sleep() keep the types.
LEMMA SleepType ==
  ASSUME TypeOK, NEW c \in CPUS, NEW p \in Procs, SleepStep(c, p)
  PROVE  TypeOK'
<1> USE DEF slotVars, localVars, cpuVars, clockVars, memVars, TypeOK, Goto,
            Points, Contexts
<1>1. ASSUME NEW n \in SleepArgs, SysSleep(c, p, n) PROVE TypeOK'
  BY <1>1, ConstantsAssumption DEF SysSleep
<1>2. CASE SysSleepReturn(c, p)
  BY <1>2, SlotNumbers DEF SysSleepReturn
<1>3. CASE SysSleepAgain(c, p)
  BY <1>3 DEF SysSleepAgain
<1>4. CASE Sleep(c, p)
  BY <1>4 DEF Sleep, Sched, States, CpuPoints
<1>5. CASE SleepReturn(c, p)
  BY <1>5 DEF SleepReturn
<1>6. CASE SleepRelock(c, p) \/ SleepRelocked(c, p)
  BY <1>6 DEF SleepRelock, SleepRelocked
<1> QED BY <1>1, <1>2, <1>3, <1>4, <1>5, <1>6 DEF SleepStep

\* The two steps of the clock interrupt keep the types.
LEMMA ClockType ==
  ASSUME TypeOK, Tick \/ TickWakeup
  PROVE  TypeOK'
<1> USE DEF slotVars, localVars, cpuVars, memVars
<1>1. CASE Tick
  <2>1. NextTick \in 0..(TICKMOD - 1)
    BY SlotNumbers DEF NextTick, TypeOK
  <2> QED BY <1>1, <2>1 DEF Tick, TypeOK
<1>2. CASE TickWakeup
  BY <1>2, Wakeup1Type DEF TickWakeup, TypeOK
<1> QED BY <1>1, <1>2

\* kill() and settickets() keep the types.
LEMMA SyscallType ==
  ASSUME TypeOK, NEW c \in CPUS, NEW p \in Procs,
         \/ \E k \in KillArgs, q \in Procs : Kill(c, p, k, q)
         \/ \E t \in TicketArgs : SetTickets(c, p, t)
  PROVE  TypeOK'
<1> USE DEF slotVars, localVars, cpuVars, clockVars, memVars, TypeOK
<1>1. ASSUME NEW k \in KillArgs, NEW q \in Procs, Kill(c, p, k, q)
      PROVE  TypeOK'
  BY <1>1 DEF Kill, StateKilled, States
<1>2. ASSUME NEW t \in TicketArgs, SetTickets(c, p, t) PROVE TypeOK'
  BY <1>2, ConstantsAssumption DEF SetTickets
<1> QED BY <1>1, <1>2

\* Every step keeps the types.
LEMMA NextType == TypeOK /\ [Next]_vars => TypeOK'
<1> SUFFICES ASSUME TypeOK, [Next]_vars PROVE TypeOK'
  OBVIOUS
<1>1. ASSUME NEW c \in CPUS, NEW p \in Procs, ProcessStep(c, p) PROVE TypeOK'
  BY <1>1, SwitchType, ForkType, ExitType, WaitType, SleepType, SyscallType
     DEF ProcessStep
<1>2. CASE UNCHANGED vars
  BY <1>2 DEF vars, slotVars, localVars, cpuVars, clockVars, memVars, TypeOK
<1> QED BY <1>1, <1>2, SchedulerType, ClockType DEF Next, Halted

\* Type correctness of the process table.
THEOREM TypeCorrect == Spec => []TypeOK
  BY InitType, NextType, PTL DEF Spec
-----------------------------------------------------------------------------
(***************************************************************************)
(* The inductive invariant behind StackExclusive and the refinement.       *)
(***************************************************************************)
ForkPoints == {"kalloc", "copyuvm", "publish"}

\* ptable.lock is held from the draw to swtch() and again from sched() to the
\* end of scheduler()'s loop; in between the process is RUNNING, on one CPU.
OnCpu ==
  \A c \in CPUS :
    /\ cpu_pc[c] \in {"drawn", "back"} => ptable_lock = c
    /\ cpu_pc[c] \in {"hlt", "loop", "drawn"} => proc[c] = NULL
    /\ cpu_pc[c] = "run" => proc[c] \in Procs /\ state[proc[c]] = "RUNNING"
    /\ cpu_pc[c] = "back" =>
         /\ proc[c] \in Procs
         /\ state[proc[c]] \in {"RUNNABLE", "SLEEPING", "ZOMBIE"}

OneCpu ==
  \A c, d \in CPUS : c # d /\ proc[c] # NULL => proc[d] # proc[c]

\* A slot that fork() is filling in is an EMBRYO that belongs to one process,
\* which does not sleep or exit meanwhile.
Forking ==
  \A p \in Procs :
    /\ np[p] # NULL <=> pc[p] \in ForkPoints
    /\ np[p] # NULL =>
         /\ state[p] \in {"RUNNING", "RUNNABLE"} /\ state[np[p]] = "EMBRYO"
         /\ pc[p] # "kalloc" => kstack[np[p]]
         /\ pc[p] = "publish" => parent[np[p]] = p
         /\ \A r \in Procs \ {p} : np[r] # np[p]

\* Every process has a stack, a zombie too.
StackOwned == \A p \in Procs : state[p] \notin {"UNUSED", "EMBRYO"} => kstack[p]

\* init does not get past the panic in exit().
InitStays == pc[initproc] # "exit"

Inv == TypeOK /\ OnCpu /\ OneCpu /\ Forking /\ StackOwned /\ InitStays

\* A process that executes on a CPU is RUNNING, and on no other CPU.
LEMMA RunningOnce ==
  ASSUME Inv, NEW c \in CPUS, NEW p \in Procs, cpu_pc[c] = "run", proc[c] = p
  PROVE  /\ state[p] = "RUNNING"
         /\ \A d \in CPUS \ {c} : proc[d] # p
  BY SlotNumbers DEF Inv, OnCpu, OneCpu

\* The initial state satisfies the invariant.
LEMMA InitInv == Init => Inv
<1> SUFFICES ASSUME Init PROVE Inv
  OBVIOUS
<1>1. OnCpu /\ OneCpu
  BY DEF Init, OnCpu, OneCpu
<1>2. Forking
  BY DEF Init, Forking, ForkPoints
<1>3. StackOwned /\ InitStays
  BY SlotNumbers DEF Init, StackOwned, InitStays
<1> QED BY <1>1, <1>2, <1>3, InitType DEF Inv

\* The steps of scheduler() preserve the invariant: a RUNNABLE process that is
\* drawn is still on no CPU, because a CPU that is leaving it holds the lock.
LEMMA SchedulerInv ==
  ASSUME Inv, NEW c \in CPUS, SchedulerStep(c)
  PROVE  Inv'
<1> USE DEF slotVars, localVars, clockVars, memVars, Inv
<1>1. TypeOK'
  BY SchedulerType
<1>2. ASSUME NEW w \in RandomAtMost(NumTickets), SchedDraw(c, w) PROVE Inv'
  BY <1>1, <1>2, ConstantsAssumption DEF SchedDraw, TypeOK, OnCpu, OneCpu, Forking,
               StackOwned, InitStays
<1>3. CASE NoneFound(c)
  BY <1>1, <1>3 DEF NoneFound, TypeOK, OnCpu, OneCpu, Forking,
               StackOwned, InitStays
<1>4. CASE Hlt(c)
  BY <1>1, <1>4 DEF Hlt, TypeOK, OnCpu, OneCpu, Forking,
               StackOwned, InitStays
<1>5. CASE SchedReturn(c)
  BY <1>1, <1>5 DEF SchedReturn, TypeOK, OnCpu, OneCpu, Forking,
               StackOwned, InitStays
<1>6. ASSUME NEW p \in Procs, Dispatch(c, p) PROVE Inv'
  <2>1. state[p] = "RUNNABLE" /\ ptable_lock = c /\ proc[c] = NULL
    BY <1>6 DEF Dispatch, Winners, Runnable, OnCpu
  <2>2. \A d \in CPUS : proc[d] # p
    BY <2>1, <1>6, SlotNumbers DEF Dispatch, OnCpu, TypeOK, CpuPoints
  <2>3. OnCpu' /\ OneCpu'
    BY <1>6, <2>1, <2>2 DEF Dispatch, TypeOK, OnCpu, OneCpu
  <2>4. Forking' /\ StackOwned' /\ InitStays'
    BY <1>6, <2>1 DEF Dispatch, TypeOK, Forking, StackOwned, InitStays
  <2> QED BY <1>1, <2>3, <2>4
<1> QED BY <1>2, <1>3, <1>4, <1>5, <1>6 DEF SchedulerStep

\* Giving up the CPU and getting it back preserve the invariant.
LEMMA SwitchInv ==
  ASSUME Inv, NEW c \in CPUS, NEW p \in Procs,
         Forkret(c, p) \/ Yield(c, p) \/ YieldReturn(c, p)
  PROVE  Inv'
<1> USE DEF slotVars, localVars, cpuVars, clockVars, memVars, Inv
<1>1. TypeOK'
  BY SwitchType
<1>2. CASE Forkret(c, p) \/ YieldReturn(c, p)
  BY <1>1, <1>2 DEF Forkret, YieldReturn, Resumed, TypeOK, OnCpu, OneCpu,
                    Forking, StackOwned, InitStays
<1>3. CASE Yield(c, p)
  <2>1. state[p] = "RUNNING" /\ \A d \in CPUS \ {c} : proc[d] # p
    BY <1>3, RunningOnce DEF Yield, Running
  <2>2. OnCpu' /\ OneCpu'
    BY <1>3, <2>1, ConstantsAssumption DEF Yield, Running, Sched, TypeOK, OnCpu, OneCpu
  <2>3. Forking' /\ StackOwned' /\ InitStays'
    BY <1>3, <2>1 DEF Yield, Sched, TypeOK, Forking, StackOwned, InitStays
  <2> QED BY <1>1, <2>2, <2>3
<1> QED BY <1>2, <1>3

\* The steps of fork() preserve the invariant.
LEMMA ForkInv ==
  ASSUME Inv, NEW c \in CPUS, NEW p \in Procs, NEW q \in Procs,
         ForkStep(c, p, q)
  PROVE  Inv'
<1> USE DEF slotVars, localVars, cpuVars, clockVars, memVars, Goto,
            Running, ForkPoints
<1>1. TypeOK'
  BY ForkType DEF Inv
<1>2. state[p] = "RUNNING" /\ cpu_pc[c] = "run" /\ proc[c] = p
  BY RunningOnce DEF ForkStep, ForkAlloc, ForkKalloc, ForkNoStack, ForkCopy,
                     ForkNoMemory, ForkPublish, Enters
<1>3. CASE ForkAlloc(c, p, q)
  <2>1. state[q] = "UNUSED" /\ q # p /\ pc[p] = "user" /\ np[p] = NULL
    BY <1>2, <1>3 DEF ForkAlloc, Enters, Inv, Forking
  <2>2. \A r \in Procs : np[r] # q
    BY <2>1, SlotNumbers DEF Inv, Forking, TypeOK
  <2>3. OnCpu' /\ OneCpu' /\ StackOwned' /\ InitStays'
    BY <1>3, <2>1 DEF ForkAlloc, Inv, TypeOK, OnCpu, OneCpu, StackOwned,
                      InitStays
  <2>4. Forking'
    BY <1>2, <1>3, <2>1, <2>2, SlotNumbers DEF ForkAlloc, Inv, TypeOK, Forking
  <2> QED BY <1>1, <2>3, <2>4 DEF Inv
<1>4. CASE ForkKalloc(c, p, q)
  <2>1. OnCpu' /\ OneCpu' /\ StackOwned' /\ InitStays'
    BY <1>4 DEF ForkKalloc, Inv, TypeOK, OnCpu, OneCpu, StackOwned, InitStays
  <2>2. Forking'
    BY <1>4 DEF ForkKalloc, Inv, TypeOK, Forking
  <2> QED BY <1>1, <2>1, <2>2 DEF Inv
<1>5. CASE ForkCopy(c, p, q)
  <2>1. OnCpu' /\ OneCpu' /\ StackOwned' /\ InitStays'
    BY <1>5 DEF ForkCopy, Inv, TypeOK, OnCpu, OneCpu, StackOwned, InitStays
  <2>2. Forking'
    BY <1>5 DEF ForkCopy, Inv, TypeOK, Forking
  <2> QED BY <1>1, <2>1, <2>2 DEF Inv
<1>6. CASE ForkNoStack(c, p, q) \/ ForkNoMemory(c, p, q)
  <2>1. state[q] = "EMBRYO" /\ q # p /\ \A r \in Procs \ {p} : np[r] # q
    BY <1>2, <1>6, SlotNumbers DEF ForkNoStack, ForkNoMemory, Inv, Forking
  <2>2. OnCpu' /\ OneCpu'
    BY <1>6, <2>1 DEF ForkNoStack, ForkNoMemory, Inv, TypeOK, OnCpu, OneCpu
  <2>3. StackOwned'
    BY <1>6, <2>1 DEF ForkNoStack, ForkNoMemory, Inv, TypeOK, StackOwned
  <2>4. InitStays'
    BY <1>6, SlotNumbers
       DEF ForkNoStack, ForkNoMemory, Inv, TypeOK, InitStays
  <2>5. Forking'
    BY <1>6, <2>1 DEF ForkNoStack, ForkNoMemory, Inv, TypeOK, Forking
  <2> QED BY <1>1, <2>2, <2>3, <2>4, <2>5 DEF Inv
<1>7. CASE ForkPublish(c, p, q)
  <2>1. /\ state[q] = "EMBRYO" /\ q # p /\ kstack[q] /\ np[q] = NULL
        /\ \A r \in Procs \ {p} : np[r] # q
    BY <1>2, <1>7, SlotNumbers DEF ForkPublish, Inv, Forking
  <2>2. OnCpu' /\ OneCpu'
    BY <1>7, <2>1 DEF ForkPublish, Inv, TypeOK, OnCpu, OneCpu
  <2>3. StackOwned'
    BY <1>7, <2>1 DEF ForkPublish, Inv, TypeOK, StackOwned
  <2>4. InitStays'
    BY <1>7, SlotNumbers DEF ForkPublish, Inv, TypeOK, InitStays
  <2>5. Forking'
    BY <1>7, <2>1 DEF ForkPublish, Inv, TypeOK, Forking
  <2> QED BY <1>1, <2>2, <2>3, <2>4, <2>5 DEF Inv
<1> QED BY <1>3, <1>4, <1>5, <1>6, <1>7 DEF ForkStep

\* wakeup1() only makes sleepers runnable.
LEMMA Wakeup1Effect ==
  ASSUME NEW st \in [Procs -> States], NEW ch, NEW q \in Procs
  PROVE  \/ Wakeup1(st, ch)[q] = st[q]
         \/ st[q] = "SLEEPING" /\ Wakeup1(st, ch)[q] = "RUNNABLE"
  BY DEF Wakeup1

\* A step in which the process on CPU c gives it up and others are woken.
LEMMA LeaveInv ==
  ASSUME Inv, TypeOK', NEW c \in CPUS, NEW p \in Procs,
         cpu_pc[c] = "run", proc[c] = p, ptable_lock \in {c, Nobody},
         pc[p] \notin ForkPoints,
         state'[p] \in {"SLEEPING", "ZOMBIE"},
         \A q \in Procs \ {p} :
           \/ state'[q] = state[q]
           \/ state[q] = "SLEEPING" /\ state'[q] = "RUNNABLE",
         \A q \in Procs : parent'[q] = parent[q] \/ parent[q] = p,
         cpu_pc' = [cpu_pc EXCEPT ![c] = "back"], ptable_lock' = c,
         UNCHANGED <<proc, np, pc, kstack>>
  PROVE  Inv'
<1>1. state[p] = "RUNNING" /\ \A d \in CPUS \ {c} : proc[d] # p
  BY RunningOnce
<1>2. OnCpu'
  BY <1>1, ConstantsAssumption DEF Inv, TypeOK, OnCpu
<1>3. OneCpu' /\ InitStays'
  BY DEF Inv, OneCpu, InitStays
<1>4. Forking'
  BY <1>1 DEF Inv, TypeOK, Forking, ForkPoints
<1>5. StackOwned'
  BY <1>1 DEF Inv, TypeOK, StackOwned
<1> QED BY <1>2, <1>3, <1>4, <1>5 DEF Inv

\* exit() makes one zombie and wakes sleepers, nothing else.
LEMMA ExitEffect ==
  ASSUME Inv, NEW c \in CPUS, NEW p \in Procs, Exit(c, p)
  PROVE  /\ state'[p] = "ZOMBIE"
         /\ \A q \in Procs \ {p} :
              \/ state'[q] = state[q]
              \/ state[q] = "SLEEPING" /\ state'[q] = "RUNNABLE"
<1> DEFINE woken == Wakeup1(state, parent[p])
           after == IF Zombies(p) # {} THEN Wakeup1(woken, initproc)
                    ELSE woken
<1>1. woken \in [Procs -> States] /\ state \in [Procs -> States]
  BY Wakeup1Type DEF Inv, TypeOK
<1>2. after \in [Procs -> States]
  BY <1>1, Wakeup1Type
<1>3. \A q \in Procs : \/ after[q] = state[q]
                       \/ state[q] = "SLEEPING" /\ after[q] = "RUNNABLE"
  <2>1. \A q \in Procs : \/ woken[q] = state[q]
                         \/ state[q] = "SLEEPING" /\ woken[q] = "RUNNABLE"
    BY <1>1, Wakeup1Effect
  <2>2. \A q \in Procs :
          \/ Wakeup1(woken, initproc)[q] = woken[q]
          \/ /\ woken[q] = "SLEEPING"
             /\ Wakeup1(woken, initproc)[q] = "RUNNABLE"
    BY <1>1, Wakeup1Effect
  <2> HIDE DEF woken
  <2> QED BY <2>1, <2>2
<1>4. state' = [after EXCEPT ![p] = "ZOMBIE"]
  BY DEF Exit
<1> HIDE DEF after
<1> QED BY <1>2, <1>3, <1>4

\* The steps of exit() preserve the invariant.
LEMMA ExitInv ==
  ASSUME Inv, NEW c \in CPUS, NEW p \in Procs,
         ExitClose(c, p) \/ ExitPanic(c, p) \/ Exit(c, p)
  PROVE  Inv'
<1> USE DEF slotVars, localVars, cpuVars, clockVars, memVars, Goto, Running,
            ForkPoints
<1>1. TypeOK'
  BY ExitType DEF Inv
<1>2. CASE ExitClose(c, p)
  BY <1>1, <1>2 DEF ExitClose, Inv, TypeOK, OnCpu, OneCpu, Forking,
                    StackOwned, InitStays
<1>3. CASE ExitPanic(c, p)
  BY <1>1, <1>3 DEF ExitPanic, Inv, OnCpu, OneCpu, Forking, StackOwned,
                    InitStays
<1>4. CASE Exit(c, p)
  <2>1. /\ state'[p] = "ZOMBIE"
        /\ \A q \in Procs \ {p} :
             \/ state'[q] = state[q]
             \/ state[q] = "SLEEPING" /\ state'[q] = "RUNNABLE"
    BY <1>4, ExitEffect
  <2>2. \A q \in Procs : parent'[q] = parent[q] \/ parent[q] = p
    BY <1>4 DEF Exit, Reparented, Children
  <2>3. ptable_lock = Nobody /\ pc[p] \notin ForkPoints
    BY <1>4 DEF Exit
  <2> QED BY <1>1, <1>4, <2>1, <2>2, <2>3, LeaveInv DEF Exit, Sched
<1> QED BY <1>2, <1>3, <1>4

\* The steps of wait() preserve the invariant: a zombie that is reaped is on
\* no CPU, because the CPU it leaves holds ptable.lock.
LEMMA WaitInv ==
  ASSUME Inv, NEW c \in CPUS, NEW p \in Procs, WaitStep(c, p)
  PROVE  Inv'
<1> USE DEF slotVars, localVars, cpuVars, clockVars, memVars, Goto, Running,
            Resumed, ForkPoints
<1>1. TypeOK'
  BY WaitType DEF Inv
<1>2. CASE WaitEnter(c, p)
  BY <1>1, <1>2 DEF WaitEnter, Enters, Inv, TypeOK, OnCpu, OneCpu, Forking,
                    StackOwned, InitStays
<1>3. CASE WaitFail(c, p)
  BY <1>1, <1>3, ConstantsAssumption
     DEF WaitFail, WaitScans, WaitReturns, Inv, TypeOK, OnCpu, OneCpu,
         Forking, StackOwned, InitStays
<1>4. CASE WaitSleep(c, p)
  <2>1. ptable_lock \in {c, Nobody} /\ pc[p] \notin ForkPoints
    BY <1>4 DEF WaitSleep, WaitScans
  <2>2. state'[p] = "SLEEPING" /\ \A q \in Procs \ {p} : state'[q] = state[q]
    BY <1>4 DEF WaitSleep, Inv, TypeOK
  <2> QED BY <1>1, <1>4, <2>1, <2>2, LeaveInv DEF WaitSleep, WaitScans, Sched
<1>5. ASSUME NEW q \in Procs, WaitReap(c, p, q) PROVE Inv'
  <2>1. /\ cpu_pc[c] = "run" /\ proc[c] = p /\ state[p] = "RUNNING"
        /\ state[q] = "ZOMBIE" /\ ptable_lock \in {c, Nobody}
    BY <1>5, RunningOnce DEF WaitReap, WaitScans, Zombies
  <2>2. \A d \in CPUS : proc[d] # q /\ cpu_pc[d] \notin {"drawn", "back"}
    BY <2>1, ConstantsAssumption, SlotNumbers
       DEF Inv, TypeOK, OnCpu, CpuPoints
  <2>3. np[q] = NULL /\ \A r \in Procs : np[r] # q
    BY <2>1, SlotNumbers DEF Inv, Forking
  <2>4. OnCpu' /\ OneCpu'
    BY <1>5, <2>1, <2>2 DEF WaitReap, WaitReturns, Inv, TypeOK, OnCpu, OneCpu
  <2>5. pc'[p] = "user" /\ pc[p] = "wait" /\ \A r \in Procs \ {p} : pc'[r] = pc[r]
    BY <1>5 DEF WaitReap, WaitScans, WaitReturns, Inv, TypeOK
  <2>6. Forking'
    BY <1>5, <2>1, <2>3, <2>5 DEF WaitReap, Inv, TypeOK, Forking
  <2>7. StackOwned' /\ InitStays'
    BY <1>5, <2>5, SlotNumbers DEF WaitReap, Inv, TypeOK, StackOwned, InitStays
  <2> QED BY <1>1, <2>4, <2>6, <2>7 DEF Inv
<1> QED BY <1>2, <1>3, <1>4, <1>5 DEF WaitStep

\* The steps of sys_sleep() preserve the invariant.
LEMMA SleepInv ==
  ASSUME Inv, NEW c \in CPUS, NEW p \in Procs, SleepStep(c, p)
  PROVE  Inv'
<1> USE DEF slotVars, localVars, cpuVars, clockVars, memVars, Goto, Running,
            Resumed, ForkPoints
<1>1. TypeOK'
  BY SleepType DEF Inv
<1>2. CASE Sleep(c, p)
  <2>1. state'[p] = "SLEEPING" /\ \A q \in Procs \ {p} : state'[q] = state[q]
    BY <1>2 DEF Sleep, Inv, TypeOK
  <2> QED BY <1>1, <1>2, <2>1, LeaveInv DEF Sleep, Sched
<1>3. CASE SleepReturn(c, p)
  BY <1>1, <1>3, ConstantsAssumption
     DEF SleepReturn, Inv, TypeOK, OnCpu, OneCpu, Forking, StackOwned,
         InitStays
<1>4. CASE \/ \E n \in SleepArgs : SysSleep(c, p, n)
           \/ SysSleepReturn(c, p) \/ SysSleepAgain(c, p)
           \/ SleepRelock(c, p) \/ SleepRelocked(c, p)
  <2>1. /\ UNCHANGED <<state, parent, ptable_lock, kstack, np, proc, cpu_pc>>
        /\ pc' \in [Procs -> Points] /\ pc[p] \notin ForkPoints
        /\ pc'[p] \notin ForkPoints \cup {"exit"}
        /\ \A q \in Procs \ {p} : pc'[q] = pc[q]
    BY <1>1, <1>4 DEF SysSleep, SysSleepReturn, SysSleepAgain, SleepRelock,
                      SleepRelocked, Enters, Inv, TypeOK
  <2>2. OnCpu' /\ OneCpu' /\ StackOwned'
    BY <2>1 DEF Inv, OnCpu, OneCpu, StackOwned
  <2>3. Forking' /\ InitStays'
    BY <2>1, SlotNumbers DEF Inv, Forking, InitStays
  <2> QED BY <1>1, <2>2, <2>3 DEF Inv
<1> QED BY <1>2, <1>3, <1>4 DEF SleepStep

\* A step that only makes sleepers runnable preserves the invariant.
LEMMA WakeInv ==
  ASSUME Inv, TypeOK',
         \A q \in Procs :
           \/ state'[q] = state[q]
           \/ state[q] = "SLEEPING" /\ state'[q] = "RUNNABLE",
         UNCHANGED <<parent, ptable_lock, kstack, np, pc, proc, cpu_pc>>
  PROVE  Inv'
<1>1. OnCpu' /\ OneCpu'
  BY DEF Inv, OnCpu, OneCpu
<1>2. Forking'
  BY DEF Inv, TypeOK, Forking
<1>3. StackOwned' /\ InitStays'
  BY DEF Inv, StackOwned, InitStays
<1> QED BY <1>1, <1>2, <1>3 DEF Inv

\* Every step preserves the invariant.
LEMMA NextInv == Inv /\ [Next]_vars => Inv'
<1> SUFFICES ASSUME Inv, [Next]_vars PROVE Inv'
  OBVIOUS
<1> USE DEF slotVars, localVars, cpuVars, clockVars, memVars
<1>1. TypeOK'
  BY NextType DEF Inv
<1>2. CASE Tick \/ TickWakeup
  <2>1. \A q \in Procs :
          \/ state'[q] = state[q]
          \/ state[q] = "SLEEPING" /\ state'[q] = "RUNNABLE"
    BY <1>2, Wakeup1Effect DEF Tick, TickWakeup, Inv, TypeOK
  <2> QED BY <1>1, <1>2, <2>1, WakeInv DEF Tick, TickWakeup
<1>3. ASSUME NEW c \in CPUS, NEW p \in Procs,
             \/ \E k \in KillArgs, q \in Procs : Kill(c, p, k, q)
             \/ \E t \in TicketArgs : SetTickets(c, p, t)
      PROVE  Inv'
  <2>1. \A q \in Procs :
          \/ state'[q] = state[q]
          \/ state[q] = "SLEEPING" /\ state'[q] = "RUNNABLE"
    BY <1>3 DEF Kill, SetTickets, StateKilled, Inv, TypeOK
  <2> QED BY <1>1, <1>3, <2>1, WakeInv DEF Kill, SetTickets
<1>4. CASE UNCHANGED vars
  BY <1>1, <1>4, WakeInv DEF vars
<1>5. ASSUME NEW c \in CPUS, NEW p \in Procs, ProcessStep(c, p) PROVE Inv'
  BY <1>3, <1>5, SwitchInv, ForkInv, ExitInv, WaitInv, SleepInv
     DEF ProcessStep
<1> QED BY <1>2, <1>4, <1>5, SchedulerInv DEF Next, Halted

\* The invariant holds in every reachable state.
THEOREM Invariance == Spec => []Inv
  BY InitInv, NextInv, PTL DEF Spec

\* No kernel stack is used by two CPUs or freed while a CPU is on it.
THEOREM StacksAreExclusive == Spec => []StackExclusive
<1>1. Inv => StackExclusive
  <2> SUFFICES ASSUME Inv, NEW c \in CPUS, proc[c] # NULL
               PROVE  /\ kstack[proc[c]]
                      /\ \A d \in CPUS \ {c} : proc[d] # proc[c]
    BY DEF StackExclusive
  <2>1. proc[c] \in Procs /\ state[proc[c]] \notin {"UNUSED", "EMBRYO"}
    BY DEF Inv, TypeOK, CpuPoints, OnCpu
  <2>2. kstack[proc[c]]
    BY <2>1 DEF Inv, StackOwned
  <2>3. \A d \in CPUS \ {c} : proc[d] # proc[c]
    BY DEF Inv, OneCpu
  <2> QED BY <2>2, <2>3
<1> QED BY <1>1, Invariance, PTL
-----------------------------------------------------------------------------
(***************************************************************************)
(* Parents and children: the process table implements the process tree,    *)
(* exit() leaves no orphan, and wait() loses no exit() and no kill().      *)
(***************************************************************************)

\* What a process state means to the tree.
LEMMA StatusOf ==
  /\ TreeStatus("UNUSED") = "free" /\ TreeStatus("EMBRYO") = "free"
  /\ TreeStatus("ZOMBIE") = "zombie"
  /\ TreeStatus("SLEEPING") = "alive" /\ TreeStatus("RUNNABLE") = "alive"
  /\ TreeStatus("RUNNING") = "alive"
  BY DEF TreeStatus

\* A step that keeps every slot's status, and the parent of every slot that is
\* not free, is invisible in the tree.
LEMMA Invisible ==
  ASSUME \A q \in Procs : TreeStatus(state'[q]) = TreeStatus(state[q]),
         \A q \in Procs : TreeStatus(state[q]) # "free" =>
                            parent'[q] = parent[q]
  PROVE  UNCHANGED <<status, par>>
<1>1. status' = status
  BY DEF status
<1>2. par' = par
  BY DEF par
<1> QED BY <1>1, <1>2

\* The initial state of the table is that of the tree.
LEMMA InitTree == Init => Tree!TreeInit
<1> SUFFICES ASSUME Init PROVE Tree!TreeInit
  OBVIOUS
<1>1. status = [s \in Procs |-> IF s = initproc THEN "alive" ELSE "free"]
  BY StatusOf DEF Init, status
<1>2. par = [s \in Procs |-> NULL]
  BY DEF Init, par
<1> QED BY <1>1, <1>2 DEF Tree!TreeInit

\* fork() spawns a child in the step that makes it RUNNABLE.
LEMMA ForkTree ==
  ASSUME Inv, NEW c \in CPUS, NEW p \in Procs, NEW q \in Procs,
         ForkStep(c, p, q)
  PROVE  [Tree!TreeNext]_<<status, par>>
<1> USE DEF slotVars, Running
<1>1. CASE ForkPublish(c, p, q)
  <2>1. /\ state[p] = "RUNNING" /\ state[q] = "EMBRYO" /\ parent[q] = p
        /\ state' = [state EXCEPT ![q] = "RUNNABLE"] /\ parent' = parent
    BY <1>1, RunningOnce, SlotNumbers DEF ForkPublish, Inv, Forking
  <2>2. status[p] = "alive" /\ status[q] = "free"
    BY <2>1, StatusOf DEF status
  <2>3. status' = [status EXCEPT ![q] = "alive"]
    BY <2>1, StatusOf DEF status, Inv, TypeOK
  <2>4. par' = [par EXCEPT ![q] = p]
    BY <2>1, StatusOf DEF par, Inv, TypeOK
  <2> QED BY <2>2, <2>3, <2>4 DEF Tree!TreeNext, Tree!Spawn
<1>2. CASE ~ForkPublish(c, p, q)
  <2>1. /\ state[q] \in {"UNUSED", "EMBRYO"}
        /\ \/ state' = [state EXCEPT ![q] = "EMBRYO"]
           \/ state' = [state EXCEPT ![q] = "UNUSED"]
           \/ state' = state
        /\ parent' = [parent EXCEPT ![q] = p] \/ parent' = parent
    BY <1>2, SlotNumbers
       DEF ForkStep, ForkAlloc, ForkKalloc, ForkNoStack, ForkCopy,
           ForkNoMemory, Inv, Forking
  <2>2. \A r \in Procs \ {q} : state'[r] = state[r] /\ parent'[r] = parent[r]
    BY <2>1 DEF Inv, TypeOK
  <2>3. TreeStatus(state'[q]) = "free" /\ TreeStatus(state[q]) = "free"
    BY <2>1, StatusOf DEF Inv, TypeOK
  <2> QED BY <2>2, <2>3, Invisible
<1> QED BY <1>1, <1>2

\* exit() dies in one step, and hands its children to init in it.
LEMMA ExitTree ==
  ASSUME Inv, NEW c \in CPUS, NEW p \in Procs, Exit(c, p)
  PROVE  Tree!TreeNext
<1>1. state[p] = "RUNNING" /\ p # initproc
  BY RunningOnce DEF Exit, Running, Inv, InitStays
<1>2. /\ state'[p] = "ZOMBIE"
      /\ \A q \in Procs \ {p} :
           \/ state'[q] = state[q]
           \/ state[q] = "SLEEPING" /\ state'[q] = "RUNNABLE"
  BY ExitEffect
<1>3. parent' = Reparented(p)
  BY DEF Exit
<1>4. \A q \in Procs \ {p} : TreeStatus(state'[q]) = TreeStatus(state[q])
  BY <1>2, StatusOf
<1>5. TreeStatus(state'[p]) = "zombie" /\ TreeStatus(state[p]) = "alive"
  BY <1>1, <1>2, StatusOf
<1>6. status' = [status EXCEPT ![p] = "zombie"]
  BY <1>4, <1>5 DEF status
<1>7. par' = [q \in Procs |-> IF par[q] = p THEN initproc ELSE par[q]]
  BY <1>3, <1>4, <1>5, SlotNumbers DEF par, Reparented, Children
<1>8. status[p] = "alive"
  BY <1>5 DEF status
<1> QED BY <1>1, <1>6, <1>7, <1>8 DEF Tree!TreeNext, Tree!Die

\* wait() collects a zombie child in one step; the rest of it is invisible.
LEMMA WaitTree ==
  ASSUME Inv, NEW c \in CPUS, NEW p \in Procs, WaitStep(c, p)
  PROVE  [Tree!TreeNext]_<<status, par>>
<1>1. ASSUME NEW q \in Procs, WaitReap(c, p, q) PROVE Tree!TreeNext
  <2>1. /\ state[p] = "RUNNING" /\ state[q] = "ZOMBIE" /\ parent[q] = p
        /\ state' = [state EXCEPT ![q] = "UNUSED"]
        /\ parent' = [parent EXCEPT ![q] = NULL]
    BY <1>1, RunningOnce
       DEF WaitReap, WaitScans, Running, Resumed, Zombies, Children
  <2>2. status[p] = "alive" /\ status[q] = "zombie" /\ par[q] = p
    BY <2>1, StatusOf DEF status, par
  <2>3. status' = [status EXCEPT ![q] = "free"]
    BY <2>1, StatusOf DEF status, Inv, TypeOK
  <2>4. par' = [par EXCEPT ![q] = NULL]
    BY <2>1, StatusOf DEF par, Inv, TypeOK
  <2> QED BY <2>2, <2>3, <2>4 DEF Tree!TreeNext, Tree!Collect
<1>2. CASE WaitEnter(c, p) \/ WaitFail(c, p)
  BY <1>2, Invisible DEF WaitEnter, WaitFail
<1>3. CASE WaitSleep(c, p)
  <2>1. state[p] = "RUNNING" /\ state' = [state EXCEPT ![p] = "SLEEPING"]
    BY <1>3, RunningOnce DEF WaitSleep, WaitScans, Running, Resumed
  <2>2. \A q \in Procs : TreeStatus(state'[q]) = TreeStatus(state[q])
    BY <2>1, StatusOf DEF Inv, TypeOK
  <2> QED BY <1>3, <2>2, Invisible DEF WaitSleep
<1> QED BY <1>1, <1>2, <1>3 DEF WaitStep

\* Every other step only moves processes between the states of a live process.
LEMMA OtherTree ==
  ASSUME Inv, UNCHANGED parent,
         \A q \in Procs : \/ state'[q] = state[q]
                          \/ /\ state[q] \in {"SLEEPING", "RUNNABLE", "RUNNING"}
                             /\ state'[q] \in {"SLEEPING", "RUNNABLE", "RUNNING"}
  PROVE  UNCHANGED <<status, par>>
<1>1. \A q \in Procs : TreeStatus(state'[q]) = TreeStatus(state[q])
  BY StatusOf
<1> QED BY <1>1, Invisible

\* Every step of the table is a step of the tree or leaves the tree unchanged.
LEMMA NextTree == Inv /\ [Next]_vars => [Tree!TreeNext]_<<status, par>>
<1> SUFFICES ASSUME Inv, [Next]_vars PROVE [Tree!TreeNext]_<<status, par>>
  OBVIOUS
<1>1. ASSUME NEW c \in CPUS, SchedulerStep(c) PROVE UNCHANGED <<status, par>>
  BY <1>1, OtherTree DEF SchedulerStep, SchedDraw, NoneFound, Hlt, SchedReturn,
     Dispatch, Winners, Runnable, Inv, TypeOK
<1>2. ASSUME NEW c \in CPUS, NEW p \in Procs,
             Forkret(c, p) \/ Yield(c, p) \/ YieldReturn(c, p)
      PROVE  UNCHANGED <<status, par>>
  <2>1. state[p] = "RUNNING"
    BY <1>2, RunningOnce DEF Forkret, Yield, YieldReturn, Running, Resumed
  <2> QED BY <1>2, <2>1, OtherTree DEF Forkret, Yield, YieldReturn, Inv, TypeOK
<1>3. ASSUME NEW c \in CPUS, NEW p \in Procs, ExitClose(c, p) \/ ExitPanic(c, p)
      PROVE  UNCHANGED <<status, par>>
  BY <1>3, OtherTree DEF ExitClose, ExitPanic
<1>4. ASSUME NEW c \in CPUS, NEW p \in Procs, SleepStep(c, p)
      PROVE  UNCHANGED <<status, par>>
  <2>1. state[p] = "RUNNING"
    BY <1>4, RunningOnce
       DEF SleepStep, SysSleep, SysSleepReturn, SysSleepAgain, Sleep,
           SleepReturn, SleepRelock, SleepRelocked, Enters, Running, Resumed
  <2> QED BY <1>4, <2>1, OtherTree
          DEF SleepStep, SysSleep, SysSleepReturn, SysSleepAgain, Sleep,
              SleepReturn, SleepRelock, SleepRelocked, Inv, TypeOK
<1>5. ASSUME NEW c \in CPUS, NEW p \in Procs,
             \/ \E k \in KillArgs, q \in Procs : Kill(c, p, k, q)
             \/ \E t \in TicketArgs : SetTickets(c, p, t)
      PROVE  UNCHANGED <<status, par>>
  BY <1>5, OtherTree DEF Kill, SetTickets, StateKilled, Inv, TypeOK
<1>6. CASE Tick \/ TickWakeup
  <2>1. \A q \in Procs :
          \/ state'[q] = state[q]
          \/ state[q] = "SLEEPING" /\ state'[q] = "RUNNABLE"
    BY <1>6, Wakeup1Effect DEF Tick, TickWakeup, Inv, TypeOK
  <2> QED BY <1>6, <2>1, OtherTree DEF Tick, TickWakeup
<1>7. CASE UNCHANGED vars
  BY <1>7, OtherTree DEF vars
<1>8. ASSUME NEW c \in CPUS, NEW p \in Procs, ProcessStep(c, p)
      PROVE  [Tree!TreeNext]_<<status, par>>
  BY <1>2, <1>3, <1>4, <1>5, <1>8, ForkTree, ExitTree, WaitTree
     DEF ProcessStep
<1> QED BY <1>1, <1>6, <1>7, <1>8 DEF Next, Halted

\* fork(), exit() and wait() implement atomic steps on a tree of processes.
THEOREM Refinement == Spec => ImplementsTree
<1>1. Spec => Tree!TreeInit /\ [][Tree!TreeNext]_<<status, par>>
  BY InitTree, NextTree, Invariance, PTL DEF Spec
<1> QED BY <1>1 DEF ImplementsTree, Tree!TreeSpec, Tree!treeVars

-----------------------------------------------------------------------------
(***************************************************************************)
(* The invariant behind OrphansAdopted and NoLostChildExit.                *)
(***************************************************************************)
\* init is alive and has the first pid.
InitLives == Alive(initproc) /\ pid[initproc] = 1

\* nextpid is larger than every pid in the table.
PidsBelow == \A p \in Procs : pid[p] < nextpid

\* The slot that fork() is filling in is younger than the caller, and nobody's
\* child until copyuvm() has succeeded.
EmbryoYounger ==
  \A p \in Procs : np[p] # NULL =>
    /\ pid[p] < pid[np[p]]
    /\ pc[p] # "publish" => parent[np[p]] = NULL

Family == InitLives /\ PidsBelow /\ EmbryoYounger /\ OrphansAdopted
FamilyInv == Inv /\ Family /\ NoLostChildExit

\* The initial state satisfies the invariant.
LEMMA InitFamily == Init => FamilyInv
<1> SUFFICES ASSUME Init PROVE Family /\ NoLostChildExit
  BY InitInv DEF FamilyInv
<1>1. InitLives /\ PidsBelow /\ EmbryoYounger
  BY SlotNumbers DEF Init, InitLives, PidsBelow, EmbryoYounger, Alive
<1>2. OrphansAdopted /\ NoLostChildExit
  BY SlotNumbers DEF Init, OrphansAdopted, NoLostChildExit, Alive
<1> QED BY <1>1, <1>2 DEF Family

\* A step that neither makes nor frees a process, puts none to sleep and
\* changes no parent preserves the invariant.
LEMMA KeepsFamily ==
  ASSUME FamilyInv, TypeOK', UNCHANGED <<pid, parent, nextpid, np>>,
         \A q \in Procs :
           \/ state'[q] = state[q]
           \/ Alive(q) /\ state'[q] \in {"RUNNABLE", "RUNNING"},
         \A q \in Procs : state'[q] = "SLEEPING" =>
                            chan'[q] = chan[q] /\ killed'[q] = killed[q],
         \A q \in Procs : np[q] # NULL /\ pc[q] = "publish" =>
                            pc'[q] = "publish"
  PROVE  Family' /\ NoLostChildExit'
<1> USE DEF FamilyInv, Family
<1>1. \A q \in Procs : /\ Alive(q)' <=> Alive(q)
                       /\ state'[q] = "ZOMBIE" <=> state[q] = "ZOMBIE"
                       /\ state'[q] = "UNUSED" <=> state[q] = "UNUSED"
                       /\ state'[q] = "SLEEPING" => state[q] = "SLEEPING"
  BY DEF Alive
<1>2. InitLives' /\ PidsBelow' /\ EmbryoYounger'
  BY <1>1, SlotNumbers DEF InitLives, PidsBelow, EmbryoYounger
<1>3. OrphansAdopted'
  BY <1>1 DEF OrphansAdopted, Inv, TypeOK, NULL
<1>4. NoLostChildExit'
  <2>1. \A q \in Procs : Children(q)' = Children(q) /\ Zombies(q)' = Zombies(q)
    BY <1>1 DEF Children, Zombies
  <2> QED BY <1>1, <2>1 DEF NoLostChildExit
<1> QED BY <1>2, <1>3, <1>4

\* The steps of fork().  A slot that is allocated is nobody's parent.
LEMMA ForkFamily ==
  ASSUME FamilyInv, NEW c \in CPUS, NEW p \in Procs, NEW q \in Procs,
         ForkStep(c, p, q)
  PROVE  Family' /\ NoLostChildExit'
<1> USE DEF slotVars, localVars, cpuVars, clockVars, memVars, Goto, Running,
            ForkPoints
<1>1. TypeOK' /\ TypeOK
  BY ForkType DEF FamilyInv, Inv
<1>2. state[p] = "RUNNING" /\ cpu_pc[c] = "run" /\ proc[c] = p
  BY RunningOnce DEF ForkStep, ForkAlloc, ForkKalloc, ForkNoStack, ForkCopy,
                     ForkNoMemory, ForkPublish, Enters, FamilyInv
<1>3. CASE ForkAlloc(c, p, q)
  <2>1. /\ state[q] = "UNUSED" /\ q # p /\ q # initproc /\ parent[q] = NULL
        /\ np[p] = NULL /\ np[q] = NULL /\ \A r \in Procs : np[r] # q
    BY <1>2, <1>3, SlotNumbers
       DEF ForkAlloc, Enters, FamilyInv, Inv, TypeOK, Forking, Family,
           InitLives, Alive, OrphansAdopted
  <2>2. \A r \in Procs : /\ Alive(r)' <=> Alive(r)
                         /\ state'[r] = "ZOMBIE" <=> state[r] = "ZOMBIE"
                         /\ state'[r] = "UNUSED" => state[r] = "UNUSED"
                         /\ state'[r] = "SLEEPING" <=> state[r] = "SLEEPING"
    BY <1>1, <1>3, <2>1 DEF ForkAlloc, Alive, TypeOK
  <2>3. /\ pid' = [pid EXCEPT ![q] = nextpid] /\ nextpid' = nextpid + 1
        /\ np' = [np EXCEPT ![p] = q] /\ pc' = [pc EXCEPT ![p] = "kalloc"]
        /\ UNCHANGED <<parent, chan, killed>>
    BY <1>3 DEF ForkAlloc
  <2>4. InitLives' /\ PidsBelow'
    BY <1>1, <2>1, <2>2, <2>3, SlotNumbers
       DEF FamilyInv, Family, InitLives, PidsBelow, TypeOK
  <2>5. EmbryoYounger'
    BY <1>1, <2>1, <2>3, SlotNumbers
       DEF FamilyInv, Family, PidsBelow, EmbryoYounger, TypeOK
  <2>6. OrphansAdopted'
    BY <1>1, <2>1, <2>2, <2>3
       DEF FamilyInv, Family, OrphansAdopted, TypeOK, Alive
  <2>7. NoLostChildExit'
    <3>1. \A r \in Procs : Children(r)' = Children(r) /\ Zombies(r)' = Zombies(r)
      BY <2>2, <2>3 DEF Children, Zombies
    <3> QED BY <2>2, <2>3, <3>1 DEF FamilyInv, NoLostChildExit
  <2> QED BY <2>4, <2>5, <2>6, <2>7 DEF Family
<1>4. CASE ForkKalloc(c, p, q)
  BY <1>1, <1>4, KeepsFamily DEF ForkKalloc, TypeOK
<1>5. CASE ForkNoStack(c, p, q) \/ ForkNoMemory(c, p, q)
  <2>1. state[q] = "EMBRYO" /\ q # p /\ parent[q] = NULL /\ np[p] = q
    BY <1>2, <1>5, SlotNumbers
       DEF ForkNoStack, ForkNoMemory, FamilyInv, Inv, Forking, Family,
           EmbryoYounger
  <2>2. \A r \in Procs : /\ Alive(r)' <=> Alive(r)
                         /\ state'[r] = "ZOMBIE" <=> state[r] = "ZOMBIE"
                         /\ state'[r] = "UNUSED" => state[r] = "UNUSED" \/ r = q
                         /\ state'[r] = "SLEEPING" <=> state[r] = "SLEEPING"
    BY <1>1, <1>5, <2>1 DEF ForkNoStack, ForkNoMemory, Alive, TypeOK
  <2>3. /\ np' = [np EXCEPT ![p] = NULL] /\ pc' = [pc EXCEPT ![p] = "user"]
        /\ UNCHANGED <<parent, chan, killed, pid, nextpid>>
    BY <1>5 DEF ForkNoStack, ForkNoMemory
  <2>4. InitLives' /\ PidsBelow' /\ EmbryoYounger'
    BY <1>1, <2>2, <2>3, SlotNumbers
       DEF FamilyInv, Family, InitLives, PidsBelow, EmbryoYounger, TypeOK
  <2>5. OrphansAdopted'
    BY <1>1, <2>1, <2>2, <2>3 DEF FamilyInv, Family, OrphansAdopted, TypeOK, NULL
  <2>6. NoLostChildExit'
    <3>1. \A r \in Procs : Children(r)' = Children(r) /\ Zombies(r)' = Zombies(r)
      BY <2>2, <2>3 DEF Children, Zombies
    <3> QED BY <2>2, <2>3, <3>1 DEF FamilyInv, NoLostChildExit
  <2> QED BY <2>4, <2>5, <2>6 DEF Family
<1>6. CASE ForkCopy(c, p, q)
  <2>1. state[q] = "EMBRYO" /\ q # p /\ parent[q] = NULL /\ np[p] = q
    BY <1>2, <1>6, SlotNumbers
       DEF ForkCopy, FamilyInv, Inv, Forking, Family, EmbryoYounger
  <2>2. \A r \in Procs \ {p} : np[r] # q
    BY <2>1, SlotNumbers DEF FamilyInv, Inv, Forking
  <2>3. /\ parent' = [parent EXCEPT ![q] = p]
        /\ pc' = [pc EXCEPT ![p] = "publish"]
        /\ UNCHANGED <<state, np, chan, killed, pid, nextpid>>
    BY <1>6 DEF ForkCopy
  <2>4. InitLives' /\ PidsBelow' /\ EmbryoYounger'
    BY <1>1, <2>2, <2>3, SlotNumbers
       DEF FamilyInv, Family, InitLives, PidsBelow, EmbryoYounger, TypeOK, Alive
  <2>5. OrphansAdopted'
    BY <1>1, <2>1, <2>3 DEF FamilyInv, Family, OrphansAdopted, TypeOK, Alive
  <2>6. NoLostChildExit'
    <3>1. \A r \in Procs : /\ Children(r) \subseteq Children(r)'
                           /\ Zombies(r)' = Zombies(r)
      BY <1>1, <2>1, <2>3, SlotNumbers DEF Children, Zombies, TypeOK
    <3> QED BY <2>3, <3>1 DEF FamilyInv, NoLostChildExit
  <2> QED BY <2>4, <2>5, <2>6 DEF Family
<1>7. CASE ForkPublish(c, p, q)
  <2>1. /\ state[q] = "EMBRYO" /\ q # p /\ parent[q] = p /\ np[p] = q
        /\ pid[p] < pid[q] /\ np[q] = NULL
    BY <1>2, <1>7, SlotNumbers
       DEF ForkPublish, FamilyInv, Inv, Forking, Family, EmbryoYounger
  <2>2. \A r \in Procs : /\ Alive(r)' <=> Alive(r) \/ r = q
                         /\ state'[r] = "ZOMBIE" <=> state[r] = "ZOMBIE"
                         /\ state'[r] = "UNUSED" => state[r] = "UNUSED"
                         /\ state'[r] = "SLEEPING" => state[r] = "SLEEPING"
    BY <1>1, <1>7, <2>1 DEF ForkPublish, Alive, TypeOK
  <2>3. /\ np' = [np EXCEPT ![p] = NULL]
        /\ pc' = [pc EXCEPT ![p] = "user", ![q] = "user"]
        /\ UNCHANGED <<parent, chan, killed, pid, nextpid>>
    BY <1>7 DEF ForkPublish
  <2>4. InitLives' /\ PidsBelow' /\ EmbryoYounger'
    BY <1>1, <2>1, <2>2, <2>3, SlotNumbers
       DEF FamilyInv, Family, InitLives, PidsBelow, EmbryoYounger, TypeOK
  <2>5. OrphansAdopted'
    BY <1>1, <1>2, <2>1, <2>2, <2>3, SlotNumbers
       DEF FamilyInv, Family, OrphansAdopted, TypeOK, Alive
  <2>6. NoLostChildExit'
    <3>1. \A r \in Procs : Children(r)' = Children(r) /\ Zombies(r)' = Zombies(r)
      BY <2>2, <2>3 DEF Children, Zombies
    <3> QED BY <2>2, <2>3, <3>1 DEF FamilyInv, NoLostChildExit
  <2> QED BY <2>4, <2>5, <2>6 DEF Family
<1> QED BY <1>3, <1>4, <1>5, <1>6, <1>7 DEF ForkStep

\* A step in which a process leaves the CPU to sleep.
LEMMA SleepsFamily ==
  ASSUME FamilyInv, TypeOK', NEW c \in CPUS, NEW p \in Procs,
         cpu_pc[c] = "run", proc[c] = p,
         state' = [state EXCEPT ![p] = "SLEEPING"],
         \A q \in Procs \ {p} : chan'[q] = chan[q],
         chan'[p] = p => Children(p) # {} /\ Zombies(p) = {} /\ ~killed[p],
         UNCHANGED <<pid, parent, nextpid, np, pc, killed>>
  PROVE  Family' /\ NoLostChildExit'
<1>1. TypeOK /\ state[p] = "RUNNING"
  BY RunningOnce DEF FamilyInv, Inv
<1>2. \A q \in Procs : /\ Alive(q)' <=> Alive(q)
                       /\ state'[q] = "ZOMBIE" <=> state[q] = "ZOMBIE"
                       /\ state'[q] = "UNUSED" <=> state[q] = "UNUSED"
  BY <1>1 DEF Alive, TypeOK
<1>3. InitLives' /\ PidsBelow' /\ EmbryoYounger'
  BY <1>2, SlotNumbers
     DEF FamilyInv, Family, InitLives, PidsBelow, EmbryoYounger
<1>4. OrphansAdopted'
  BY <1>1, <1>2 DEF FamilyInv, Family, OrphansAdopted, TypeOK, NULL
<1>5. \A q \in Procs : Children(q)' = Children(q) /\ Zombies(q)' = Zombies(q)
  BY <1>2 DEF Children, Zombies
<1>6. NoLostChildExit'
  BY <1>1, <1>5 DEF FamilyInv, NoLostChildExit, TypeOK
<1> QED BY <1>3, <1>4, <1>6 DEF Family

\* What exit() does to the states and the parents.  It wakes its parent if
\* that sleeps in wait(), and init too if init is given a zombie.
LEMMA ExitSteps ==
  ASSUME FamilyInv, NEW c \in CPUS, NEW p \in Procs, Exit(c, p)
  PROVE  /\ state'[p] = "ZOMBIE" /\ state[p] = "RUNNING" /\ p # initproc
         /\ \A q \in Procs \ {p} :
              /\ Alive(q)' <=> Alive(q)
              /\ state'[q] = "ZOMBIE" <=> state[q] = "ZOMBIE"
              /\ state'[q] = "UNUSED" <=> state[q] = "UNUSED"
              /\ state'[q] = "SLEEPING" =>
                   /\ state[q] = "SLEEPING"
                   /\ chan[q] # parent[p]
                   /\ chan[q] = initproc => Zombies(p) = {}
         /\ \A q \in Procs :
              parent'[q] = IF parent[q] = p THEN initproc ELSE parent[q]
<1> DEFINE woken == Wakeup1(state, parent[p])
           again == Wakeup1(woken, initproc)
           after == IF Zombies(p) # {} THEN again ELSE woken
<1>1. TypeOK /\ state[p] = "RUNNING" /\ p # initproc
  BY RunningOnce DEF Exit, Running, FamilyInv, Inv, InitStays
<1>2. woken \in [Procs -> States] /\ again \in [Procs -> States]
  BY <1>1, Wakeup1Type DEF TypeOK
<1>3. \A q \in Procs :
        woken[q] = IF state[q] = "SLEEPING" /\ chan[q] = parent[p]
                   THEN "RUNNABLE" ELSE state[q]
  BY DEF Wakeup1
<1>4. \A q \in Procs :
        again[q] = IF woken[q] = "SLEEPING" /\ chan[q] = initproc
                   THEN "RUNNABLE" ELSE woken[q]
  BY DEF Wakeup1
<1>5. state' = [after EXCEPT ![p] = "ZOMBIE"]
  BY DEF Exit
<1>6. \A q \in Procs :
        parent'[q] = IF parent[q] = p THEN initproc ELSE parent[q]
  BY DEF Exit, Reparented, Children
<1>7. after \in [Procs -> States]
  BY <1>2
<1> HIDE DEF woken, again
<1>8. \A q \in Procs :
        \/ after[q] = state[q] /\ (state[q] = "SLEEPING" =>
                                    /\ chan[q] # parent[p]
                                    /\ chan[q] = initproc => Zombies(p) = {})
        \/ state[q] = "SLEEPING" /\ after[q] = "RUNNABLE"
  BY <1>3, <1>4
<1> HIDE DEF after
<1> QED BY <1>1, <1>5, <1>6, <1>7, <1>8 DEF Alive

\* exit() preserves the invariant: its children go to init, which is alive
\* and older than they are.
LEMMA ExitFamily ==
  ASSUME FamilyInv, NEW c \in CPUS, NEW p \in Procs, Exit(c, p)
  PROVE  Family' /\ NoLostChildExit'
<1>1. TypeOK /\ TypeOK' /\ UNCHANGED <<pid, np, nextpid, pc, chan, killed>>
  BY ExitType DEF FamilyInv, Inv, Exit, slotVars, localVars, memVars
<1>2. /\ state'[p] = "ZOMBIE" /\ state[p] = "RUNNING" /\ p # initproc
      /\ \A q \in Procs \ {p} :
           /\ Alive(q)' <=> Alive(q)
           /\ state'[q] = "ZOMBIE" <=> state[q] = "ZOMBIE"
           /\ state'[q] = "UNUSED" <=> state[q] = "UNUSED"
  BY ExitSteps
<1>3. \A q \in Procs :
        parent'[q] = IF parent[q] = p THEN initproc ELSE parent[q]
  BY ExitSteps
<1>4. parent[p] \in Procs \ {p} /\ pid[p] > 0 /\ np[p] = NULL
  <2>1. parent[p] # NULL /\ pid[parent[p]] < pid[p]
    BY <1>2 DEF FamilyInv, Family, OrphansAdopted, Alive
  <2>2. np[p] = NULL
    BY DEF Exit, FamilyInv, Inv, Forking, ForkPoints
  <2> QED BY <1>1, <2>1, <2>2 DEF TypeOK
<1>5. InitLives' /\ PidsBelow'
  BY <1>1, <1>2, SlotNumbers DEF FamilyInv, Family, InitLives, PidsBelow
<1>6. EmbryoYounger'
  <2> SUFFICES ASSUME NEW r \in Procs, np[r] # NULL
               PROVE  /\ pid[r] < pid[np[r]]
                      /\ pc[r] # "publish" => parent'[np[r]] = NULL
    BY <1>1 DEF EmbryoYounger
  <2>1. np[r] \in Procs
    BY <1>1 DEF TypeOK
  <2> QED BY <1>1, <1>3, <2>1, SlotNumbers
          DEF FamilyInv, Family, EmbryoYounger
<1>7. OrphansAdopted'
  <2> SUFFICES ASSUME NEW q \in Procs
               PROVE  /\ q # initproc /\ (Alive(q)' \/ state'[q] = "ZOMBIE")
                          => /\ parent'[q] # NULL /\ Alive(parent[q])'
                             /\ pid[parent'[q]] < pid[q]
                      /\ state'[q] = "UNUSED" => parent'[q] = NULL
    BY <1>1 DEF OrphansAdopted, Alive
  <2>1. Alive(q)' \/ state'[q] = "ZOMBIE" => Alive(q) \/ state[q] = "ZOMBIE"
    BY <1>2 DEF Alive
  <2>2. state'[q] = "UNUSED" => state[q] = "UNUSED" /\ parent[q] = NULL
    BY <1>2 DEF FamilyInv, Family, OrphansAdopted
  <2>3. CASE q # initproc /\ (Alive(q) \/ state[q] = "ZOMBIE")
    <3>1. /\ parent[q] \in Procs /\ Alive(parent[q])
          /\ pid[parent[q]] < pid[q]
      BY <1>1, <2>3 DEF FamilyInv, Family, OrphansAdopted, TypeOK
    <3>2. CASE parent[q] = p
      BY <1>1, <1>2, <1>3, <1>4, <2>2, <3>1, <3>2, SlotNumbers
         DEF FamilyInv, Family, InitLives, TypeOK, Alive
    <3>3. CASE parent[q] # p
      BY <1>1, <1>2, <1>3, <2>2, <3>1, <3>3, SlotNumbers DEF Alive
    <3> QED BY <3>2, <3>3
  <2>4. state'[q] = "UNUSED" => parent'[q] = NULL
    BY <1>3, <2>2, SlotNumbers
  <2> QED BY <2>1, <2>3, <2>4
<1>8. NoLostChildExit'
  <2> SUFFICES ASSUME NEW r \in Procs, state'[r] = "SLEEPING", chan[r] = r
               PROVE  Children(r)' # {} /\ Zombies(r)' = {} /\ ~killed[r]
    BY <1>1 DEF NoLostChildExit
  <2>1. /\ r # p /\ state[r] = "SLEEPING" /\ r # parent[p]
        /\ r = initproc => Zombies(p) = {}
    BY <1>2, ExitSteps
  <2>2. Children(r) # {} /\ Zombies(r) = {} /\ ~killed[r]
    BY <2>1 DEF FamilyInv, NoLostChildExit
  <2>3. Children(r)' # {}
    BY <1>3, <2>1, <2>2 DEF Children
  <2>4. \A q \in Procs : ~(parent'[q] = r /\ state'[q] = "ZOMBIE")
    BY <1>2, <1>3, <1>4, <2>1, <2>2 DEF Children, Zombies
  <2>5. Zombies(r)' = {}
    BY <2>4 DEF Children, Zombies
  <2> QED BY <2>2, <2>3, <2>5
<1> QED BY <1>5, <1>6, <1>7, <1>8 DEF Family

\* wait() frees a zombie, which is nobody's parent: no orphan is left.
LEMMA ReapFamily ==
  ASSUME FamilyInv, NEW c \in CPUS, NEW p \in Procs, NEW q \in Procs,
         WaitReap(c, p, q)
  PROVE  Family' /\ NoLostChildExit'
<1>1. /\ TypeOK /\ state[q] = "ZOMBIE" /\ parent[q] = p
      /\ state[p] = "RUNNING" /\ np[q] = NULL /\ pc[p] = "wait"
  BY RunningOnce
     DEF WaitReap, WaitScans, Running, Resumed, Zombies, Children, FamilyInv,
         Inv, Forking
<1>2. /\ state' = [state EXCEPT ![q] = "UNUSED"]
      /\ pid' = [pid EXCEPT ![q] = 0]
      /\ parent' = [parent EXCEPT ![q] = NULL]
      /\ killed' = [killed EXCEPT ![q] = FALSE]
      /\ chan' = [chan EXCEPT ![p] = NULL]
      /\ pc' = [pc EXCEPT ![p] = "user"]
      /\ UNCHANGED <<np, nextpid>>
  BY DEF WaitReap, WaitReturns, Goto, localVars
<1>3. /\ q # initproc /\ \A r \in Procs : np[r] # q
      /\ np[p] = NULL
  BY <1>1, SlotNumbers
     DEF FamilyInv, Family, InitLives, Alive, Inv, Forking, ForkPoints
<1>4. \A r \in Procs \ {q} : /\ Alive(r)' <=> Alive(r)
                             /\ state'[r] = state[r]
  BY <1>1, <1>2 DEF Alive, TypeOK
<1>5. InitLives' /\ PidsBelow'
  BY <1>1, <1>2, <1>3, SlotNumbers
     DEF FamilyInv, Family, InitLives, PidsBelow, TypeOK, Alive
<1>6. EmbryoYounger'
  BY <1>1, <1>2, <1>3, SlotNumbers
     DEF FamilyInv, Family, EmbryoYounger, TypeOK
<1>7. OrphansAdopted'
  <2> SUFFICES ASSUME NEW r \in Procs
               PROVE  /\ r # initproc /\ (Alive(r)' \/ state'[r] = "ZOMBIE")
                          => /\ parent'[r] # NULL /\ Alive(parent[r])'
                             /\ pid'[parent'[r]] < pid'[r]
                      /\ state'[r] = "UNUSED" => parent'[r] = NULL
    BY DEF OrphansAdopted, Alive
  <2>1. CASE r = q
    BY <1>1, <1>2, <2>1 DEF TypeOK, Alive
  <2>2. CASE r # q
    <3>1. /\ state'[r] = state[r] /\ parent'[r] = parent[r]
          /\ pid'[r] = pid[r]
      BY <1>1, <1>2, <2>2 DEF TypeOK
    <3>2. state[r] = "UNUSED" => parent[r] = NULL
      BY DEF FamilyInv, Family, OrphansAdopted
    <3>3. ASSUME r # initproc, Alive(r) \/ state[r] = "ZOMBIE"
          PROVE  /\ parent[r] # NULL /\ parent[r] # q
                 /\ Alive(parent[r])' /\ pid'[parent[r]] < pid[r]
      <4>1. /\ parent[r] # NULL /\ Alive(parent[r])
            /\ pid[parent[r]] < pid[r] /\ parent[r] \in Procs
        BY <1>1, <3>3 DEF FamilyInv, Family, OrphansAdopted, TypeOK
      <4>2. parent[r] # q
        BY <1>1, <4>1 DEF Alive
      <4> QED BY <1>1, <1>2, <3>1, <4>1, <4>2 DEF TypeOK, Alive
    <3> QED BY <3>1, <3>2, <3>3 DEF Alive
  <2> QED BY <2>1, <2>2
<1>8. NoLostChildExit'
  <2> SUFFICES ASSUME NEW r \in Procs, state'[r] = "SLEEPING", chan'[r] = r
               PROVE  Children(r)' # {} /\ Zombies(r)' = {} /\ ~killed'[r]
    BY DEF NoLostChildExit
  <2>1. r # p /\ r # q /\ state[r] = "SLEEPING" /\ chan[r] = r
    BY <1>1, <1>2, SlotNumbers DEF TypeOK
  <2>2. Children(r) # {} /\ Zombies(r) = {} /\ ~killed[r]
    BY <2>1 DEF FamilyInv, NoLostChildExit
  <2>3. Children(r)' = Children(r)
    BY <1>1, <1>2, <2>1, SlotNumbers DEF Children, TypeOK
  <2>4. Zombies(r)' = Zombies(r)
    BY <1>1, <1>2, <2>1, <2>3 DEF Children, Zombies, TypeOK
  <2> QED BY <1>1, <1>2, <2>1, <2>2, <2>3, <2>4 DEF TypeOK
<1> QED BY <1>5, <1>6, <1>7, <1>8 DEF Family

\* The steps of wait().
LEMMA WaitFamily ==
  ASSUME FamilyInv, NEW c \in CPUS, NEW p \in Procs, WaitStep(c, p)
  PROVE  Family' /\ NoLostChildExit'
<1> USE DEF slotVars, localVars, cpuVars, clockVars, memVars, Goto, Running,
            Resumed
<1>1. TypeOK /\ TypeOK'
  BY WaitType DEF FamilyInv, Inv
<1>2. CASE WaitEnter(c, p)
  BY <1>1, <1>2, KeepsFamily DEF WaitEnter, Enters, TypeOK
<1>3. CASE WaitFail(c, p)
  <2>1. state[p] = "RUNNING"
    BY <1>3, RunningOnce DEF WaitFail, WaitScans, FamilyInv
  <2> QED BY <1>1, <1>3, <2>1, KeepsFamily
          DEF WaitFail, WaitScans, WaitReturns, TypeOK
<1>4. CASE WaitSleep(c, p)
  BY <1>1, <1>4, SleepsFamily DEF WaitSleep, WaitScans, TypeOK
<1>5. CASE \E q \in Procs : WaitReap(c, p, q)
  BY <1>5, ReapFamily
<1> QED BY <1>2, <1>3, <1>4, <1>5 DEF WaitStep

\* The steps of sys_sleep(): a process that sleeps on ticks is not in wait().
LEMMA SleepFamily ==
  ASSUME FamilyInv, NEW c \in CPUS, NEW p \in Procs, SleepStep(c, p)
  PROVE  Family' /\ NoLostChildExit'
<1> USE DEF slotVars, localVars, cpuVars, clockVars, memVars, Goto, Running,
            Resumed
<1>1. TypeOK /\ TypeOK'
  BY SleepType DEF FamilyInv, Inv
<1>2. CASE Sleep(c, p)
  <2>1. chan'[p] # p
    BY <1>1, <1>2, SlotNumbers DEF Sleep, TypeOK
  <2> QED BY <1>1, <1>2, <2>1, SleepsFamily DEF Sleep, TypeOK
<1>3. CASE SleepReturn(c, p)
  <2>1. state[p] = "RUNNING"
    BY <1>3, RunningOnce DEF SleepReturn, FamilyInv
  <2> QED BY <1>1, <1>3, <2>1, KeepsFamily DEF SleepReturn, TypeOK
<1>4. CASE \/ \E n \in SleepArgs : SysSleep(c, p, n)
           \/ SysSleepReturn(c, p) \/ SysSleepAgain(c, p)
           \/ SleepRelock(c, p) \/ SleepRelocked(c, p)
  BY <1>1, <1>4, KeepsFamily
     DEF SysSleep, SysSleepReturn, SysSleepAgain, SleepRelock, SleepRelocked,
         Enters, TypeOK
<1> QED BY <1>2, <1>3, <1>4 DEF SleepStep

\* The steps of scheduler().
LEMMA SchedulerFamily ==
  ASSUME FamilyInv, NEW c \in CPUS, SchedulerStep(c)
  PROVE  Family' /\ NoLostChildExit'
<1> USE DEF slotVars, localVars, clockVars, memVars
<1>1. TypeOK /\ TypeOK'
  BY SchedulerType DEF FamilyInv, Inv
<1>2. ASSUME NEW p \in Procs, Dispatch(c, p) PROVE Family' /\ NoLostChildExit'
  BY <1>1, <1>2, KeepsFamily DEF Dispatch, Winners, Runnable, TypeOK, Alive
<1>3. CASE \/ \E w \in RandomAtMost(NumTickets) : SchedDraw(c, w)
           \/ NoneFound(c) \/ Hlt(c) \/ SchedReturn(c)
  BY <1>1, <1>3, KeepsFamily DEF SchedDraw, NoneFound, Hlt, SchedReturn
<1> QED BY <1>2, <1>3 DEF SchedulerStep

\* The steps that wake, kill or preempt, and those of the clock.
LEMMA OtherFamily ==
  ASSUME FamilyInv, NEW c \in CPUS, NEW p \in Procs,
         \/ Forkret(c, p) \/ Yield(c, p) \/ YieldReturn(c, p)
         \/ ExitClose(c, p) \/ ExitPanic(c, p)
         \/ \E k \in KillArgs, q \in Procs : Kill(c, p, k, q)
         \/ \E t \in TicketArgs : SetTickets(c, p, t)
  PROVE  Family' /\ NoLostChildExit'
<1> USE DEF slotVars, localVars, cpuVars, clockVars, memVars, Goto, Running
<1>1. TypeOK /\ TypeOK'
  BY SwitchType, ExitType, SyscallType DEF FamilyInv, Inv
<1>2. CASE Forkret(c, p) \/ YieldReturn(c, p)
  BY <1>1, <1>2, KeepsFamily DEF Forkret, YieldReturn
<1>3. CASE Yield(c, p)
  <2>1. state[p] = "RUNNING"
    BY <1>3, RunningOnce DEF Yield, FamilyInv
  <2> QED BY <1>1, <1>3, <2>1, KeepsFamily DEF Yield, TypeOK, Alive
<1>4. CASE ExitClose(c, p) \/ ExitPanic(c, p)
  BY <1>1, <1>4, KeepsFamily DEF ExitClose, ExitPanic, TypeOK
<1>5. ASSUME NEW k \in KillArgs, NEW q \in Procs, Kill(c, p, k, q)
      PROVE  Family' /\ NoLostChildExit'
  BY <1>1, <1>5, KeepsFamily DEF Kill, StateKilled, TypeOK, Alive
<1>6. CASE \E t \in TicketArgs : SetTickets(c, p, t)
  BY <1>1, <1>6, KeepsFamily DEF SetTickets
<1> QED BY <1>2, <1>3, <1>4, <1>5, <1>6

\* Every step preserves the invariant.
LEMMA NextFamily == FamilyInv /\ [Next]_vars => FamilyInv'
<1> SUFFICES ASSUME FamilyInv, [Next]_vars PROVE Family' /\ NoLostChildExit'
  BY NextInv DEF FamilyInv
<1> USE DEF slotVars, localVars, cpuVars, clockVars, memVars
<1>1. TypeOK /\ TypeOK'
  BY NextType DEF FamilyInv, Inv
<1>2. CASE Tick \/ TickWakeup
  <2>1. \A q \in Procs :
          \/ state'[q] = state[q]
          \/ state[q] = "SLEEPING" /\ state'[q] = "RUNNABLE"
    BY <1>1, <1>2, Wakeup1Effect DEF Tick, TickWakeup, TypeOK
  <2> QED BY <1>1, <1>2, <2>1, KeepsFamily DEF Tick, TickWakeup, Alive
<1>3. CASE UNCHANGED vars
  BY <1>1, <1>3, KeepsFamily DEF vars
<1>4. ASSUME NEW c \in CPUS, NEW p \in Procs, ProcessStep(c, p)
      PROVE  Family' /\ NoLostChildExit'
  BY <1>4, OtherFamily, ForkFamily, ExitFamily, WaitFamily, SleepFamily
     DEF ProcessStep
<1> QED BY <1>2, <1>3, <1>4, SchedulerFamily DEF Next, Halted

\* The invariant holds in every reachable state.
THEOREM FamilyInvariance == Spec => []FamilyInv
  BY InitFamily, NextFamily, PTL DEF Spec

\* exit() leaves no orphan: the parent of every process but init is alive and
\* older than the process, and a free slot is nobody's child.
THEOREM OrphansAreAdopted == Spec => []OrphansAdopted
<1>1. FamilyInv => OrphansAdopted
  BY DEF FamilyInv, Family
<1> QED BY <1>1, FamilyInvariance, PTL

\* No exit() and no kill() is lost on a process that sleeps in wait().
THEOREM ChildExitsAreSeen == Spec => []NoLostChildExit
<1>1. FamilyInv => NoLostChildExit
  BY DEF FamilyInv
<1> QED BY <1>1, FamilyInvariance, PTL
=============================================================================
