----------------------- MODULE ProcTableResourceProofs -----------------------
(***************************************************************************)
(* What the processes own: pages, files, time and tickets, for every       *)
(* number of slots, CPUs and pages and all arguments of the system calls.  *)
(***************************************************************************)
EXTENDS ProcTableProofs, OrderProofs

Stacks == {p \in Procs : kstack[p]}
Spaces == {p \in Procs : pgdir[p]}

\* Pages are free, stacks or address spaces.
Balance == nfree + Cardinality(Stacks) + Cardinality(Spaces) = NPAGES

\* A free slot owns nothing, and a process owns its pages until it is reaped.
SlotOwns ==
  \A p \in Procs :
    /\ state[p] = "UNUSED" => ~kstack[p] /\ ~pgdir[p] /\ ~files[p]
    /\ state[p] \notin {"UNUSED", "EMBRYO"} => pgdir[p]

\* What fork() has given to the new slot so far.
EmbryoOwns ==
  \A p \in Procs : np[p] # NULL =>
    /\ pc[p] = "kalloc" => ~kstack[np[p]]
    /\ pc[p] # "publish" => ~pgdir[np[p]] /\ ~files[np[p]]
    /\ pc[p] = "publish" => pgdir[np[p]]

\* exit() has closed the files of a process that is past their clean-up.
ExitClosed ==
  \A p \in Procs :
    state[p] = "ZOMBIE" \/ (Alive(p) /\ pc[p] = "exit") => ~files[p]

Owned == SlotOwns /\ EmbryoOwns /\ ExitClosed
OwnInv == Inv /\ Balance /\ Owned

\* The sets of slots that own a page are finite.
LEMMA FiniteSlots ==
  ASSUME NEW S \in SUBSET Procs
  PROVE  IsFiniteSet(S) /\ Cardinality(S) \in Nat
<1>1. IsFiniteSet(Procs)
  BY SlotNumbers, FS_Interval DEF Procs
<1>2. IsFiniteSet(S)
  BY <1>1, FS_Subset
<1> QED BY <1>2, FS_CardinalityType

\* The initial state satisfies the invariant.
LEMMA InitOwn == Init => OwnInv
<1> SUFFICES ASSUME Init PROVE Balance /\ Owned
  BY InitInv DEF OwnInv
<1>1. Balance
  <2>1. Stacks = {initproc} /\ Spaces = {initproc}
    BY SlotNumbers DEF Init, Stacks, Spaces
  <2>2. Cardinality({initproc}) = 1
    BY FS_Singleton
  <2> QED BY <2>1, <2>2, ConstantsAssumption DEF Init, Balance
<1>2. SlotOwns /\ EmbryoOwns /\ ExitClosed
  BY SlotNumbers DEF Init, SlotOwns, EmbryoOwns, ExitClosed, Alive
<1> QED BY <1>1, <1>2 DEF Owned

\* A step that gives and takes nothing preserves the invariant.
LEMMA KeepsOwn ==
  ASSUME OwnInv, TypeOK', UNCHANGED <<kstack, pgdir, files, nfree, np>>,
         \A q \in Procs :
           /\ state'[q] = "UNUSED" => state[q] = "UNUSED"
           /\ state'[q] \notin {"UNUSED", "EMBRYO"} =>
                state[q] \notin {"UNUSED", "EMBRYO"}
           /\ state'[q] = "ZOMBIE" => state[q] = "ZOMBIE" \/ ~files[q]
           /\ Alive(q)' /\ pc'[q] = "exit" =>
                (Alive(q) /\ pc[q] = "exit") \/ ~files[q]
           /\ np[q] # NULL => pc'[q] = pc[q]
  PROVE  Balance' /\ Owned'
<1> USE DEF OwnInv, Owned
<1>1. Balance'
  BY DEF Balance, Stacks, Spaces
<1>2. SlotOwns' /\ EmbryoOwns'
  BY DEF SlotOwns, EmbryoOwns
<1>3. ExitClosed'
  BY DEF ExitClosed
<1> QED BY <1>1, <1>2, <1>3

\* Adding and removing one slot.
LEMMA AddSlot ==
  ASSUME NEW S \in SUBSET Procs, NEW q \in Procs, q \notin S
  PROVE  Cardinality(S \cup {q}) = Cardinality(S) + 1
  BY FiniteSlots, FS_AddElement
LEMMA RemoveSlot ==
  ASSUME NEW S \in SUBSET Procs, NEW q \in S
  PROVE  Cardinality(S \ {q}) = Cardinality(S) - 1
  BY FiniteSlots, FS_RemoveElement

\* The steps of fork(): what the failing paths give back is what they took.
LEMMA ForkOwn ==
  ASSUME OwnInv, NEW c \in CPUS, NEW p \in Procs, NEW q \in Procs,
         ForkStep(c, p, q)
  PROVE  Balance' /\ Owned'
<1> USE DEF slotVars, localVars, cpuVars, clockVars, memVars, Goto, Running,
            ForkPoints
<1>1. TypeOK' /\ TypeOK
  BY ForkType DEF OwnInv, Inv
<1>2. state[p] = "RUNNING" /\ cpu_pc[c] = "run" /\ proc[c] = p
  BY RunningOnce DEF ForkStep, ForkAlloc, ForkKalloc, ForkNoStack, ForkCopy,
                     ForkNoMemory, ForkPublish, Enters, OwnInv
<1>3. /\ Stacks \in SUBSET Procs /\ Spaces \in SUBSET Procs
      /\ Cardinality(Stacks) \in Nat /\ Cardinality(Spaces) \in Nat
  BY FiniteSlots DEF Stacks, Spaces
<1>4. CASE ForkAlloc(c, p, q)
  <2>1. /\ state[q] = "UNUSED" /\ q # p /\ np[p] = NULL
        /\ \A r \in Procs : np[r] # q
    BY <1>2, <1>4, SlotNumbers
       DEF ForkAlloc, Enters, OwnInv, Inv, TypeOK, Forking
  <2>2. Balance' /\ SlotOwns'
    BY <1>1, <1>4, <2>1 DEF ForkAlloc, OwnInv, Balance, Stacks, Spaces, Owned,
                            SlotOwns, TypeOK
  <2>3. EmbryoOwns'
    BY <1>1, <1>4, <2>1, SlotNumbers
       DEF ForkAlloc, OwnInv, Owned, SlotOwns, EmbryoOwns, TypeOK
  <2>4. ExitClosed'
    BY <1>1, <1>4, <2>1 DEF ForkAlloc, OwnInv, Owned, ExitClosed, Alive, TypeOK
  <2> QED BY <2>2, <2>3, <2>4 DEF Owned
<1>5. CASE ~ForkAlloc(c, p, q)
  <2>1. /\ state[q] = "EMBRYO" /\ q # p /\ np[p] = q /\ np[q] = NULL
        /\ \A r \in Procs \ {p} : np[r] # q
    BY <1>2, <1>5, SlotNumbers
       DEF ForkStep, ForkKalloc, ForkNoStack, ForkCopy, ForkNoMemory,
           ForkPublish, OwnInv, Inv, Forking
  <2>2. /\ pc[p] = "kalloc" => ~kstack[q] /\ ~pgdir[q] /\ ~files[q]
        /\ pc[p] = "copyuvm" => kstack[q] /\ ~pgdir[q] /\ ~files[q]
        /\ pc[p] = "publish" => kstack[q] /\ pgdir[q]
    BY <2>1, SlotNumbers DEF OwnInv, Owned, EmbryoOwns, Inv, Forking
  <2>3. CASE ForkKalloc(c, p, q)
    <3>1. Stacks' = Stacks \cup {q} /\ Spaces' = Spaces /\ q \notin Stacks
      BY <1>1, <2>2, <2>3 DEF ForkKalloc, Stacks, Spaces, TypeOK
    <3>2. Balance'
      BY <1>1, <1>3, <2>3, <3>1, AddSlot
         DEF ForkKalloc, OwnInv, Balance, TypeOK
    <3>3. SlotOwns' /\ EmbryoOwns'
      BY <1>1, <2>1, <2>3 DEF ForkKalloc, OwnInv, Owned, SlotOwns, EmbryoOwns,
                              TypeOK
    <3>4. ExitClosed'
      BY <1>1, <2>3 DEF ForkKalloc, OwnInv, Owned, ExitClosed, Alive, TypeOK
    <3> QED BY <3>2, <3>3, <3>4 DEF Owned
  <2>4. CASE ForkNoStack(c, p, q)
    <3>1. Balance'
      BY <2>4 DEF ForkNoStack, OwnInv, Balance, Stacks, Spaces
    <3>2. SlotOwns' /\ EmbryoOwns'
      BY <1>1, <2>1, <2>2, <2>4, SlotNumbers
         DEF ForkNoStack, OwnInv, Owned, SlotOwns, EmbryoOwns, TypeOK
    <3>3. ExitClosed'
      BY <1>1, <2>4 DEF ForkNoStack, OwnInv, Owned, ExitClosed, Alive, TypeOK
    <3> QED BY <3>1, <3>2, <3>3 DEF Owned
  <2>5. CASE ForkCopy(c, p, q)
    <3>1. Spaces' = Spaces \cup {q} /\ Stacks' = Stacks /\ q \notin Spaces
      BY <1>1, <2>2, <2>5 DEF ForkCopy, Stacks, Spaces, TypeOK
    <3>2. Balance'
      BY <1>1, <1>3, <2>5, <3>1, AddSlot
         DEF ForkCopy, OwnInv, Balance, TypeOK
    <3>3. SlotOwns' /\ EmbryoOwns'
      BY <1>1, <2>1, <2>5 DEF ForkCopy, OwnInv, Owned, SlotOwns, EmbryoOwns,
                              TypeOK
    <3>4. ExitClosed'
      BY <1>1, <2>1, <2>5 DEF ForkCopy, OwnInv, Owned, ExitClosed, Alive, TypeOK
    <3> QED BY <3>2, <3>3, <3>4 DEF Owned
  <2>6. CASE ForkNoMemory(c, p, q)
    <3>1. Stacks' = Stacks \ {q} /\ Spaces' = Spaces /\ q \in Stacks
      BY <1>1, <2>2, <2>6 DEF ForkNoMemory, Stacks, Spaces, TypeOK
    <3>2. Balance'
      <4>1. Cardinality(Stacks') = Cardinality(Stacks) - 1
        BY <1>3, <3>1, RemoveSlot
      <4> QED BY <1>1, <1>3, <2>6, <3>1, <4>1
              DEF ForkNoMemory, Kfree, OwnInv, Balance, TypeOK
    <3>3. SlotOwns' /\ EmbryoOwns'
      BY <1>1, <2>1, <2>2, <2>6, SlotNumbers
         DEF ForkNoMemory, OwnInv, Owned, SlotOwns, EmbryoOwns, TypeOK
    <3>4. ExitClosed'
      BY <1>1, <2>6 DEF ForkNoMemory, OwnInv, Owned, ExitClosed, Alive, TypeOK
    <3> QED BY <3>2, <3>3, <3>4 DEF Owned
  <2>7. CASE ForkPublish(c, p, q)
    <3>1. Balance'
      BY <2>7 DEF ForkPublish, OwnInv, Balance, Stacks, Spaces
    <3>2. SlotOwns' /\ EmbryoOwns'
      BY <1>1, <2>1, <2>2, <2>7, SlotNumbers
         DEF ForkPublish, OwnInv, Owned, SlotOwns, EmbryoOwns, TypeOK
    <3>3. ExitClosed'
      BY <1>1, <2>7 DEF ForkPublish, OwnInv, Owned, ExitClosed, Alive, TypeOK
    <3> QED BY <3>1, <3>2, <3>3 DEF Owned
  <2> QED BY <1>5, <2>3, <2>4, <2>5, <2>6, <2>7 DEF ForkStep
<1> QED BY <1>4, <1>5

\* A zombie that wait() reaps gives back its stack and its address space.
LEMMA ReapOwn ==
  ASSUME OwnInv, NEW c \in CPUS, NEW p \in Procs, NEW q \in Procs,
         WaitReap(c, p, q)
  PROVE  Balance' /\ Owned'
<1>1. /\ TypeOK /\ TypeOK' /\ state[q] = "ZOMBIE" /\ state[p] = "RUNNING"
      /\ pc[p] = "wait"
  BY RunningOnce, WaitType
     DEF WaitReap, WaitScans, Running, Resumed, Zombies, WaitStep, OwnInv, Inv
<1>2. /\ state' = [state EXCEPT ![q] = "UNUSED"]
      /\ kstack' = [kstack EXCEPT ![q] = FALSE]
      /\ pgdir' = [pgdir EXCEPT ![q] = FALSE]
      /\ nfree' = nfree + 2
      /\ pc' = [pc EXCEPT ![p] = "user"]
      /\ UNCHANGED <<files, np>>
  BY DEF WaitReap, WaitReturns, Kfree, Goto, localVars
<1>3. /\ kstack[q] /\ pgdir[q] /\ ~files[q] /\ np[q] = NULL /\ np[p] = NULL
      /\ \A r \in Procs : np[r] # q
  BY <1>1, SlotNumbers
     DEF OwnInv, Owned, SlotOwns, ExitClosed, Inv, StackOwned, Forking,
         ForkPoints
<1>4. Balance'
  <2>1. /\ Stacks \in SUBSET Procs /\ Spaces \in SUBSET Procs
        /\ Cardinality(Stacks) \in Nat /\ Cardinality(Spaces) \in Nat
    BY FiniteSlots DEF Stacks, Spaces
  <2>2. /\ Stacks' = Stacks \ {q} /\ q \in Stacks
        /\ Spaces' = Spaces \ {q} /\ q \in Spaces
    BY <1>1, <1>2, <1>3 DEF Stacks, Spaces, TypeOK
  <2>3. /\ Cardinality(Stacks') = Cardinality(Stacks) - 1
        /\ Cardinality(Spaces') = Cardinality(Spaces) - 1
    BY <2>1, <2>2, RemoveSlot
  <2> QED BY <1>1, <1>2, <2>1, <2>3 DEF OwnInv, Balance, TypeOK
<1>5. SlotOwns'
  BY <1>1, <1>2, <1>3 DEF OwnInv, Owned, SlotOwns, TypeOK
<1>6. EmbryoOwns'
  BY <1>1, <1>2, <1>3 DEF OwnInv, Owned, EmbryoOwns, TypeOK
<1>7. ExitClosed'
  BY <1>1, <1>2 DEF OwnInv, Owned, ExitClosed, TypeOK, Alive
<1> QED BY <1>4, <1>5, <1>6, <1>7 DEF Owned

\* The other steps of a process: only exit() closes files, and it does so
\* before the process becomes a zombie.
LEMMA ProcessOwn ==
  ASSUME OwnInv, NEW c \in CPUS, NEW p \in Procs, ProcessStep(c, p)
  PROVE  Balance' /\ Owned'
<1> USE DEF slotVars, localVars, cpuVars, clockVars, memVars, Goto, Running,
            Resumed, Alive
<1>1. TypeOK /\ TypeOK'
  BY SwitchType, ForkType, ExitType, WaitType, SleepType, SyscallType
     DEF ProcessStep, OwnInv, Inv
<1>2. \A q \in Procs : np[q] # NULL => pc[q] \in ForkPoints
  BY DEF OwnInv, Inv, Forking
<1>3. cpu_pc[c] = "run" /\ proc[c] = p => state[p] = "RUNNING"
  BY RunningOnce DEF OwnInv
<1>4. CASE Forkret(c, p) \/ Yield(c, p) \/ YieldReturn(c, p)
  BY <1>1, <1>3, <1>4, KeepsOwn DEF Forkret, Yield, YieldReturn, TypeOK
<1>5. CASE ExitClose(c, p)
  <2>1. /\ files' = [files EXCEPT ![p] = FALSE] /\ np[p] = NULL
        /\ pc' = [pc EXCEPT ![p] = "exit"] /\ pc[p] = "user"
        /\ UNCHANGED <<state, kstack, pgdir, nfree, np>>
    BY <1>2, <1>5 DEF ExitClose, CloseFiles, ForkPoints
  <2>2. Balance' /\ SlotOwns'
    BY <1>1, <2>1 DEF OwnInv, Balance, Stacks, Spaces, Owned, SlotOwns, TypeOK
  <2>3. EmbryoOwns' /\ ExitClosed'
    BY <1>1, <2>1 DEF OwnInv, Owned, EmbryoOwns, ExitClosed, TypeOK
  <2> QED BY <2>2, <2>3 DEF Owned
<1>6. CASE ExitPanic(c, p)
  BY <1>1, <1>6, KeepsOwn DEF ExitPanic
<1>7. CASE Exit(c, p)
  <2>1. /\ state'[p] = "ZOMBIE"
        /\ \A q \in Procs \ {p} :
             \/ state'[q] = state[q]
             \/ state[q] = "SLEEPING" /\ state'[q] = "RUNNABLE"
    BY <1>7, ExitEffect DEF OwnInv
  <2>2. state[p] = "RUNNING" /\ pc[p] = "exit" /\ ~files[p]
    BY <1>3, <1>7 DEF Exit, OwnInv, Owned, ExitClosed
  <2> QED BY <1>1, <1>7, <2>1, <2>2, KeepsOwn DEF Exit
<1>8. CASE WaitEnter(c, p) \/ WaitFail(c, p) \/ WaitSleep(c, p)
  <2>1. /\ state[p] = "RUNNING" /\ pc[p] \notin ForkPoints
        /\ \/ state' = state
           \/ state' = [state EXCEPT ![p] = "SLEEPING"]
        /\ pc' = [pc EXCEPT ![p] = pc'[p]] /\ pc'[p] # "exit"
        /\ UNCHANGED <<kstack, pgdir, files, nfree, np>>
    BY <1>1, <1>3, <1>8 DEF WaitEnter, Enters, WaitFail, WaitSleep, WaitScans,
                            WaitReturns, TypeOK, ForkPoints
  <2> QED BY <1>1, <1>2, <2>1, KeepsOwn DEF TypeOK
<1>9. CASE SleepStep(c, p)
  <2>1. /\ state[p] = "RUNNING" /\ pc[p] \notin ForkPoints
        /\ \/ state' = state
           \/ state' = [state EXCEPT ![p] = "SLEEPING"]
        /\ pc' = [pc EXCEPT ![p] = pc'[p]] /\ pc'[p] # "exit"
        /\ UNCHANGED <<kstack, pgdir, files, nfree, np>>
    BY <1>1, <1>3, <1>9 DEF SleepStep, SysSleep, Enters, SysSleepReturn,
                            SysSleepAgain, Sleep, SleepReturn, SleepRelock,
                            SleepRelocked, TypeOK, ForkPoints
  <2> QED BY <1>1, <1>2, <2>1, KeepsOwn DEF TypeOK
<1>10. ASSUME NEW k \in KillArgs, NEW q \in Procs, Kill(c, p, k, q)
       PROVE  Balance' /\ Owned'
  BY <1>1, <1>10, KeepsOwn DEF Kill, StateKilled, TypeOK
<1>11. CASE \E t \in TicketArgs : SetTickets(c, p, t)
  BY <1>1, <1>11, KeepsOwn DEF SetTickets
<1> QED BY <1>4, <1>5, <1>6, <1>7, <1>8, <1>9, <1>10, <1>11, ForkOwn, ReapOwn
        DEF ProcessStep, WaitStep

\* Every step preserves the invariant.
LEMMA NextOwn == OwnInv /\ [Next]_vars => OwnInv'
<1> SUFFICES ASSUME OwnInv, [Next]_vars PROVE Balance' /\ Owned'
  BY NextInv DEF OwnInv
<1> USE DEF slotVars, localVars, cpuVars, clockVars, memVars, Alive
<1>1. TypeOK /\ TypeOK'
  BY NextType DEF OwnInv, Inv
<1>2. CASE Tick \/ TickWakeup
  <2>1. \A q \in Procs :
          \/ state'[q] = state[q]
          \/ state[q] = "SLEEPING" /\ state'[q] = "RUNNABLE"
    BY <1>1, <1>2, Wakeup1Effect DEF Tick, TickWakeup, TypeOK
  <2> QED BY <1>1, <1>2, <2>1, KeepsOwn DEF Tick, TickWakeup
<1>3. CASE UNCHANGED vars
  BY <1>1, <1>3, KeepsOwn DEF vars
<1>4. ASSUME NEW c \in CPUS, SchedulerStep(c) PROVE Balance' /\ Owned'
  BY <1>1, <1>4, KeepsOwn
     DEF SchedulerStep, SchedDraw, NoneFound, Hlt, SchedReturn, Dispatch,
         Winners, Runnable, TypeOK
<1> QED BY <1>2, <1>3, <1>4, ProcessOwn DEF Next, Halted

\* The invariant holds in every reachable state.
THEOREM OwnInvariance == Spec => []OwnInv
  BY InitOwn, NextOwn, PTL DEF Spec

\* No path of fork(), failing or not, and no wait() leaks a page or frees one
\* twice.
THEOREM PagesAreConserved == Spec => []PagesConserved
<1>1. OwnInv => PagesConserved
  BY DEF OwnInv, Balance, Stacks, Spaces, Owned, SlotOwns, PagesConserved
<1> QED BY <1>1, OwnInvariance, PTL

\* No process is reaped and no slot reused before exit() has closed its files.
THEOREM FilesAreReleased == Spec => []FilesReleased
<1>1. OwnInv => FilesReleased
  BY DEF OwnInv, Owned, SlotOwns, ExitClosed, FilesReleased
<1> QED BY <1>1, OwnInvariance, PTL

-----------------------------------------------------------------------------
(***************************************************************************)
(* Time: sleep(&ticks, &tickslock) and the clock interrupt.                *)
(***************************************************************************)

\* A process that is not RUNNING, and one that fork() has given a stack, has a
\* saved context; one that was preempted or never ran is not in the part of
\* sys_sleep() that holds tickslock.
Saved ==
  \A p \in Procs :
    /\ state[p] \in {"RUNNABLE", "SLEEPING"} => context[p] # "none"
    /\ np[p] # NULL /\ pc[p] # "kalloc" => context[np[p]] # "none"
    /\ state[p] \notin {"UNUSED", "EMBRYO"} /\ context[p] \in {"forkret", "yield"}
         => pc[p] \notin {"check", "sleep"}

\* Between the test in sys_sleep()'s loop and sched() the process holds
\* tickslock, so that the test is still true when it goes to sleep.
TickHeld ==
  \A c \in CPUS, p \in Procs :
    Running(c, p) /\ pc[p] \in {"check", "sleep"} =>
      /\ tickslock = c
      /\ pc[p] = "sleep" => Elapsed(p) < nticks[p]

TickInv == Inv /\ Saved /\ TickHeld /\ NoLostTick

\* The initial state satisfies the invariant.
LEMMA InitTick == Init => TickInv
<1> SUFFICES ASSUME Init PROVE Saved /\ TickHeld /\ NoLostTick
  BY InitInv DEF TickInv
<1> QED BY SlotNumbers DEF Init, Saved, TickHeld, NoLostTick, Running

\* A step that leaves every thread where it is, and may wake some, preserves
\* the invariant.
LEMMA KeepsTick ==
  ASSUME TickInv, TypeOK',
         UNCHANGED <<np, pc, context, chan, ticks0, nticks, ticks, tickslock>>,
         \A q \in Procs :
           \/ state'[q] = state[q]
           \/ state[q] = "SLEEPING" /\ state'[q] = "RUNNABLE",
         \A c \in CPUS : cpu_pc'[c] = "run" =>
                            cpu_pc[c] = "run" /\ proc'[c] = proc[c]
  PROVE  Saved' /\ TickHeld' /\ NoLostTick'
<1> USE DEF TickInv
<1>1. Saved'
  BY DEF Saved
<1>2. TickHeld' /\ NoLostTick'
  BY DEF TickHeld, NoLostTick, Running, Elapsed
<1> QED BY <1>1, <1>2

\* The steps of scheduler(): the process it switches to has a saved context.
LEMMA SchedulerTick ==
  ASSUME TickInv, NEW c \in CPUS, SchedulerStep(c)
  PROVE  Saved' /\ TickHeld' /\ NoLostTick'
<1> USE DEF slotVars, localVars, clockVars, memVars
<1>1. TypeOK /\ TypeOK'
  BY SchedulerType DEF TickInv, Inv
<1>2. CASE \/ \E w \in RandomAtMost(NumTickets) : SchedDraw(c, w)
           \/ NoneFound(c) \/ Hlt(c) \/ SchedReturn(c)
  BY <1>1, <1>2, KeepsTick DEF SchedDraw, NoneFound, Hlt, SchedReturn, TypeOK
<1>3. ASSUME NEW p \in Procs, Dispatch(c, p)
      PROVE  Saved' /\ TickHeld' /\ NoLostTick'
  <2>1. state[p] = "RUNNABLE" /\ context[p] # "none"
    BY <1>3 DEF Dispatch, Winners, Runnable, TickInv, Saved
  <2>2. Saved'
    BY <1>1, <1>3, <2>1 DEF Dispatch, TickInv, Saved, TypeOK
  <2>3. TickHeld'
    BY <1>1, <1>3, <2>1 DEF Dispatch, TickInv, TickHeld, Running, Elapsed, TypeOK
  <2>4. NoLostTick'
    BY <1>1, <1>3, <2>1 DEF Dispatch, TickInv, NoLostTick, Elapsed, TypeOK
  <2> QED BY <2>2, <2>3, <2>4
<1> QED BY <1>2, <1>3 DEF SchedulerStep

\* A step of the process p on CPU c that moves no other thread preserves the
\* invariant if it does so for p.  It can change tickslock only if no other
\* CPU and not the clock holds it.
LEMMA StepTick ==
  ASSUME TickInv, TypeOK', NEW c \in CPUS, NEW p \in Procs,
         cpu_pc[c] = "run", proc[c] = p, proc' = proc, ticks' = ticks,
         \A d \in CPUS \ {c} : cpu_pc'[d] = cpu_pc[d],
         tickslock' = tickslock \/ tickslock \in {c, Nobody},
         \A r \in Procs \ {p} :
           /\ pc'[r] = pc[r] /\ context'[r] = context[r]
           /\ chan'[r] = chan[r] /\ np'[r] = np[r]
           /\ ticks0'[r] = ticks0[r] /\ nticks'[r] = nticks[r]
           /\ \/ state'[r] = state[r]
              \/ state[r] = "SLEEPING" /\ state'[r] = "RUNNABLE"
              \/ state'[r] \in {"UNUSED", "EMBRYO"},
         state'[p] \in {"RUNNABLE", "SLEEPING"} => context'[p] # "none",
         np'[p] # NULL /\ pc'[p] # "kalloc" => context'[np'[p]] # "none",
         context'[p] \in {"forkret", "yield"} => pc'[p] \notin {"check", "sleep"},
         Running(c, p)' /\ pc'[p] \in {"check", "sleep"} =>
           /\ tickslock' = c
           /\ pc'[p] = "sleep" => Elapsed(p)' < nticks'[p],
         state'[p] = "SLEEPING" /\ chan'[p] = TickChan =>
           Elapsed(p)' < nticks'[p]
  PROVE  Saved' /\ TickHeld' /\ NoLostTick'
<1>1. state[p] = "RUNNING" /\ \A d \in CPUS \ {c} : proc[d] # p
  BY RunningOnce DEF TickInv
<1>2. \A r \in Procs : np[r] # p
  BY <1>1, SlotNumbers DEF TickInv, Inv, Forking
<1>3. \A r \in Procs \ {p} : Elapsed(r)' = Elapsed(r)
  BY DEF Elapsed
<1>4. Saved'
  BY <1>2 DEF TickInv, Saved, Inv, TypeOK
<1>5. TickHeld'
  <2> SUFFICES ASSUME NEW d \in CPUS, NEW r \in Procs, Running(d, r)',
                      pc'[r] \in {"check", "sleep"}
               PROVE  /\ tickslock' = d
                      /\ pc'[r] = "sleep" => Elapsed(r)' < nticks'[r]
    BY DEF TickHeld
  <2>1. CASE r = p
    BY <1>1, <2>1 DEF Running
  <2>2. CASE r # p
    <3>1. d # c /\ Running(d, r) /\ pc[r] = pc'[r]
      BY <2>2 DEF Running
    <3>2. tickslock = d /\ (pc[r] = "sleep" => Elapsed(r) < nticks[r])
      BY <3>1 DEF TickInv, TickHeld
    <3> QED BY <1>3, <2>2, <3>1, <3>2, ConstantsAssumption
  <2> QED BY <2>1, <2>2
<1>6. NoLostTick'
  BY <1>3, ConstantsAssumption DEF TickInv, NoLostTick
<1> QED BY <1>4, <1>5, <1>6

\* Giving up the CPU and getting it back: a process that holds tickslock is
\* not preempted.
LEMMA SwitchTick ==
  ASSUME TickInv, NEW c \in CPUS, NEW p \in Procs,
         Forkret(c, p) \/ Yield(c, p) \/ YieldReturn(c, p)
  PROVE  Saved' /\ TickHeld' /\ NoLostTick'
<1> USE DEF slotVars, localVars, cpuVars, clockVars, memVars
<1>1. TypeOK /\ TypeOK'
  BY SwitchType DEF TickInv, Inv
<1>2. state[p] = "RUNNING" /\ cpu_pc[c] = "run" /\ proc[c] = p
  BY RunningOnce DEF Forkret, Yield, YieldReturn, Running, Resumed, TickInv
<1>3. np[p] # NULL /\ pc[p] # "kalloc" => np[p] \in Procs \ {p} /\ context[np[p]] # "none"
  BY <1>1, <1>2 DEF TickInv, Inv, Forking, Saved, TypeOK
<1>4. CASE Forkret(c, p) \/ YieldReturn(c, p)
  <2>1. pc[p] \notin {"check", "sleep"}
    BY <1>2, <1>4 DEF Forkret, YieldReturn, Resumed, TickInv, Saved
  <2>2. /\ context' = [context EXCEPT ![p] = "none"]
        /\ UNCHANGED <<state, chan, pc, np, ticks0, nticks, tickslock, ticks,
                       proc, cpu_pc>>
    BY <1>4 DEF Forkret, YieldReturn
  <2> QED BY <1>1, <1>2, <1>3, <2>1, <2>2, StepTick DEF TypeOK
<1>5. CASE Yield(c, p)
  <2>1. pc[p] \notin {"check", "sleep"}
    BY <1>5 DEF Yield, TickInv, TickHeld
  <2>2. /\ context' = [context EXCEPT ![p] = "yield"]
        /\ state' = [state EXCEPT ![p] = "RUNNABLE"]
        /\ cpu_pc' = [cpu_pc EXCEPT ![c] = "back"]
        /\ UNCHANGED <<chan, pc, np, ticks0, nticks, tickslock, ticks, proc>>
    BY <1>5 DEF Yield, Sched
  <2> QED BY <1>1, <1>2, <1>3, <2>1, <2>2, StepTick DEF TypeOK
<1> QED BY <1>4, <1>5

\* The steps of fork().
LEMMA ForkTick ==
  ASSUME TickInv, NEW c \in CPUS, NEW p \in Procs, NEW q \in Procs,
         ForkStep(c, p, q)
  PROVE  Saved' /\ TickHeld' /\ NoLostTick'
<1> USE DEF slotVars, localVars, cpuVars, clockVars, memVars, Goto, Running
<1>1. TypeOK /\ TypeOK'
  BY ForkType DEF TickInv, Inv
<1>2. state[p] = "RUNNING" /\ cpu_pc[c] = "run" /\ proc[c] = p
  BY RunningOnce DEF ForkStep, ForkAlloc, ForkKalloc, ForkNoStack, ForkCopy,
                     ForkNoMemory, ForkPublish, Enters, TickInv
<1>3. CASE ForkAlloc(c, p, q)
  <2>1. state[q] = "UNUSED" /\ q # p
    BY <1>2, <1>3 DEF ForkAlloc
  <2> QED BY <1>1, <1>2, <1>3, <2>1, StepTick DEF ForkAlloc, Enters, TypeOK
<1>4. CASE ~ForkAlloc(c, p, q)
  <2>1. /\ state[q] = "EMBRYO" /\ q # p /\ np[p] = q /\ context[p] = "none"
        /\ np[q] = NULL /\ (pc[p] # "kalloc" => context[q] # "none")
    BY <1>2, <1>4, SlotNumbers
       DEF ForkStep, ForkKalloc, ForkNoStack, ForkCopy, ForkNoMemory,
           ForkPublish, TickInv, Inv, Forking, Saved
  <2>2. \A d \in CPUS : proc[d] # q \/ cpu_pc[d] # "run"
    BY <2>1 DEF TickInv, Inv, OnCpu
  <2>3. CASE ForkNoStack(c, p, q) \/ ForkNoMemory(c, p, q)
    BY <1>1, <1>2, <2>1, <2>3, StepTick DEF ForkNoStack, ForkNoMemory, TypeOK
  <2>4. CASE ForkCopy(c, p, q)
    BY <1>1, <1>2, <2>1, <2>4, StepTick DEF ForkCopy, TypeOK
  <2>5. CASE ForkKalloc(c, p, q)
    <3>1. Saved'
      BY <1>1, <2>1, <2>5 DEF ForkKalloc, TickInv, Saved, TypeOK
    <3>2. TickHeld'
      BY <1>1, <2>1, <2>2, <2>5 DEF ForkKalloc, TickInv, TickHeld, Elapsed, TypeOK
    <3>3. NoLostTick'
      BY <1>1, <2>5 DEF ForkKalloc, TickInv, NoLostTick, Elapsed
    <3> QED BY <3>1, <3>2, <3>3
  <2>6. CASE ForkPublish(c, p, q)
    <3>1. Saved'
      BY <1>1, <1>2, <2>1, <2>6 DEF ForkPublish, TickInv, Saved, TypeOK
    <3>2. TickHeld'
      BY <1>1, <2>1, <2>2, <2>6 DEF ForkPublish, TickInv, TickHeld, Elapsed, TypeOK
    <3>3. NoLostTick'
      BY <1>1, <2>6 DEF ForkPublish, TickInv, NoLostTick, Elapsed, TypeOK
    <3> QED BY <3>1, <3>2, <3>3
  <2> QED BY <1>4, <2>3, <2>4, <2>5, <2>6 DEF ForkStep
<1> QED BY <1>3, <1>4

\* The steps of exit() and wait(), which do not touch the clock.
LEMMA ExitWaitTick ==
  ASSUME TickInv, NEW c \in CPUS, NEW p \in Procs,
         ExitClose(c, p) \/ Exit(c, p) \/ WaitStep(c, p)
  PROVE  Saved' /\ TickHeld' /\ NoLostTick'
<1> USE DEF slotVars, localVars, cpuVars, clockVars, memVars, Goto, Running,
            Resumed
<1>1. TypeOK /\ TypeOK'
  BY ExitType, WaitType DEF TickInv, Inv
<1>2. /\ state[p] = "RUNNING" /\ cpu_pc[c] = "run" /\ proc[c] = p
      /\ pc[p] \in {"user", "exit", "wait"} /\ np[p] = NULL
  <2>1. /\ cpu_pc[c] = "run" /\ proc[c] = p
        /\ pc[p] \in {"user", "exit", "wait"}
    BY DEF ExitClose, Exit, WaitStep, WaitEnter, Enters, WaitFail, WaitSleep,
           WaitReap, WaitScans
  <2> QED BY <2>1, RunningOnce DEF TickInv, Inv, Forking, ForkPoints
<1>3. CASE ExitClose(c, p)
  BY <1>1, <1>2, <1>3, StepTick DEF ExitClose, TypeOK
<1>4. CASE Exit(c, p)
  <2>1. /\ state'[p] = "ZOMBIE"
        /\ \A q \in Procs \ {p} :
             \/ state'[q] = state[q]
             \/ state[q] = "SLEEPING" /\ state'[q] = "RUNNABLE"
    BY <1>4, ExitEffect DEF TickInv
  <2>2. /\ context' = [context EXCEPT ![p] = "exit"]
        /\ cpu_pc' = [cpu_pc EXCEPT ![c] = "back"]
        /\ UNCHANGED <<chan, pc, np, ticks0, nticks, tickslock, ticks, proc>>
    BY <1>4 DEF Exit, Sched
  <2> QED BY <1>1, <1>2, <2>1, <2>2, StepTick DEF TypeOK
<1>5. CASE WaitEnter(c, p)
  BY <1>1, <1>2, <1>5, StepTick DEF WaitEnter, Enters, TypeOK
<1>6. CASE WaitFail(c, p)
  BY <1>1, <1>2, <1>6, StepTick DEF WaitFail, WaitReturns, TypeOK
<1>7. CASE WaitSleep(c, p)
  <2>1. p # TickChan
    BY SlotNumbers
  <2>2. /\ state' = [state EXCEPT ![p] = "SLEEPING"]
        /\ chan' = [chan EXCEPT ![p] = p]
        /\ context' = [context EXCEPT ![p] = "sleep"]
        /\ cpu_pc' = [cpu_pc EXCEPT ![c] = "back"]
        /\ UNCHANGED <<pc, np, ticks0, nticks, tickslock, ticks, proc>>
    BY <1>7 DEF WaitSleep, Sched
  <2> QED BY <1>1, <1>2, <2>1, <2>2, StepTick DEF TypeOK
<1>8. ASSUME NEW q \in Procs, WaitReap(c, p, q)
      PROVE  Saved' /\ TickHeld' /\ NoLostTick'
  <2>1. q # p
    BY <1>2, <1>8 DEF WaitReap, Zombies
  <2> QED BY <1>1, <1>2, <1>8, <2>1, StepTick DEF WaitReap, WaitReturns, TypeOK
<1> QED BY <1>3, <1>4, <1>5, <1>6, <1>7, <1>8 DEF WaitStep

\* The steps of sys_sleep(): the process goes to sleep with tickslock held
\* until the step in which it has ptable.lock.
LEMMA SleepTick ==
  ASSUME TickInv, NEW c \in CPUS, NEW p \in Procs, SleepStep(c, p)
  PROVE  Saved' /\ TickHeld' /\ NoLostTick'
<1> USE DEF slotVars, localVars, cpuVars, clockVars, memVars, Goto, Running,
            Resumed
<1>1. TypeOK /\ TypeOK'
  BY SleepType DEF TickInv, Inv
<1>2. /\ state[p] = "RUNNING" /\ cpu_pc[c] = "run" /\ proc[c] = p
      /\ pc[p] \in {"user", "check", "sleep", "relock", "spin"} /\ np[p] = NULL
  <2>1. /\ cpu_pc[c] = "run" /\ proc[c] = p
        /\ pc[p] \in {"user", "check", "sleep", "relock", "spin"}
    BY DEF SleepStep, SysSleep, Enters, SysSleepReturn, SysSleepAgain, Sleep,
           SleepReturn, SleepRelock, SleepRelocked
  <2> QED BY <2>1, RunningOnce DEF TickInv, Inv, Forking, ForkPoints
<1>3. context[p] = "none" /\ pc[p] \in {"check", "sleep"} =>
        /\ tickslock = c /\ (pc[p] = "sleep" => Elapsed(p) < nticks[p])
  BY <1>2 DEF TickInv, TickHeld
<1>4. ASSUME NEW n \in SleepArgs, SysSleep(c, p, n)
      PROVE  Saved' /\ TickHeld' /\ NoLostTick'
  BY <1>1, <1>2, <1>4, StepTick DEF SysSleep, Enters, TypeOK
<1>5. CASE SysSleepReturn(c, p)
  BY <1>1, <1>2, <1>3, <1>5, StepTick DEF SysSleepReturn, TypeOK
<1>6. CASE SysSleepAgain(c, p)
  <2>1. Elapsed(p) < nticks[p] /\ tickslock = c
    <3>1. Elapsed(p) \in Int /\ nticks[p] \in Int
      BY <1>1, SlotNumbers DEF Elapsed, TypeOK
    <3> QED BY <1>3, <1>6, <3>1 DEF SysSleepAgain, SleepOver
  <2>2. Elapsed(p)' = Elapsed(p)
    BY <1>6 DEF SysSleepAgain, Elapsed
  <2> QED BY <1>1, <1>2, <1>6, <2>1, <2>2, StepTick DEF SysSleepAgain, TypeOK
<1>7. CASE Sleep(c, p)
  <2>1. Elapsed(p) < nticks[p] /\ tickslock = c
    BY <1>3, <1>7 DEF Sleep
  <2>2. Elapsed(p)' = Elapsed(p)
    BY <1>7 DEF Sleep, Elapsed
  <2> QED BY <1>1, <1>2, <1>7, <2>1, <2>2, StepTick DEF Sleep, Sched, TypeOK
<1>8. CASE SleepReturn(c, p)
  BY <1>1, <1>2, <1>8, StepTick DEF SleepReturn, TypeOK
<1>9. CASE SleepRelock(c, p)
  BY <1>1, <1>2, <1>9, StepTick DEF SleepRelock, TypeOK
<1>10. CASE SleepRelocked(c, p)
  BY <1>1, <1>2, <1>10, StepTick DEF SleepRelocked, TypeOK
<1> QED BY <1>4, <1>5, <1>6, <1>7, <1>8, <1>9, <1>10 DEF SleepStep

\* The clock interrupt: it finds tickslock free, so nobody is between the test
\* and sched(), and it wakes every process that sleeps on ticks.
LEMMA ClockTick ==
  ASSUME TickInv, Tick \/ TickWakeup
  PROVE  Saved' /\ TickHeld' /\ NoLostTick'
<1> USE DEF slotVars, localVars, cpuVars, memVars
<1>1. TypeOK /\ TypeOK'
  BY ClockType DEF TickInv, Inv
<1>2. CASE Tick
  <2>1. Saved'
    BY <1>2 DEF Tick, TickInv, Saved
  <2>2. TickHeld' /\ NoLostTick'
    BY <1>2, ConstantsAssumption DEF Tick, TickInv, TickHeld, NoLostTick, Running
  <2> QED BY <2>1, <2>2
<1>3. CASE TickWakeup
  <2>1. \A q \in Procs :
          state'[q] = IF state[q] = "SLEEPING" /\ chan[q] = TickChan
                      THEN "RUNNABLE" ELSE state[q]
    BY <1>3 DEF TickWakeup, Wakeup1
  <2>2. Saved'
    BY <1>3, <2>1 DEF TickWakeup, TickInv, Saved
  <2>3. TickHeld'
    BY <1>3, ConstantsAssumption DEF TickWakeup, TickInv, TickHeld, Running
  <2>4. NoLostTick'
    BY <1>3, <2>1 DEF TickWakeup, NoLostTick
  <2> QED BY <2>2, <2>3, <2>4
<1> QED BY <1>2, <1>3

\* Every step preserves the invariant.
LEMMA NextTicks == TickInv /\ [Next]_vars => TickInv'
<1> SUFFICES ASSUME TickInv, [Next]_vars
             PROVE  Saved' /\ TickHeld' /\ NoLostTick'
  BY NextInv DEF TickInv
<1> USE DEF slotVars, localVars, cpuVars, clockVars, memVars
<1>1. TypeOK /\ TypeOK'
  BY NextType DEF TickInv, Inv
<1>2. ASSUME NEW c \in CPUS, NEW p \in Procs,
             \/ ExitPanic(c, p)
             \/ \E k \in KillArgs, q \in Procs : Kill(c, p, k, q)
             \/ \E t \in TicketArgs : SetTickets(c, p, t)
      PROVE  Saved' /\ TickHeld' /\ NoLostTick'
  BY <1>1, <1>2, KeepsTick DEF ExitPanic, Kill, StateKilled, SetTickets, TypeOK
<1>3. CASE UNCHANGED vars
  BY <1>1, <1>3, KeepsTick DEF vars
<1>4. ASSUME NEW c \in CPUS, NEW p \in Procs, ProcessStep(c, p)
      PROVE  Saved' /\ TickHeld' /\ NoLostTick'
  BY <1>2, <1>4, SwitchTick, ForkTick, ExitWaitTick, SleepTick
     DEF ProcessStep
<1> QED BY <1>3, <1>4, SchedulerTick, ClockTick DEF Next, Halted

\* No wakeup(&ticks) is lost: once the clock interrupt is over, no process
\* sleeps whose time has come.
THEOREM TicksAreSeen == Spec => []NoLostTick
<1>1. TickInv => NoLostTick
  BY DEF TickInv
<1> QED BY <1>1, InitTick, NextTicks, PTL DEF Spec
-----------------------------------------------------------------------------
(***************************************************************************)
(* The lottery of scheduler(), for tickets of either sign.  The sums that  *)
(* its two loops compute are folds over sets of slots, so the facts about  *)
(* them are shown by induction first.                                      *)
(***************************************************************************)

(***************************************************************************)
(* Induction, stated with sets.                                            *)
(***************************************************************************)

\* What holds of a set of slots whenever it holds of the sets with one slot
\* less holds of all sets of slots.
LEMMA SlotInduction ==
  ASSUME NEW F \in SUBSET (SUBSET Procs), {} \in F,
         \A S \in SUBSET Procs :
           S # {} /\ (\A x \in S : S \ {x} \in F) => S \in F
  PROVE  F = SUBSET Procs
<1> DEFINE A == {n \in Nat : \A S \in SUBSET Procs : Cardinality(S) = n => S \in F}
<1>1. 0 \in A
  <2>1. \A S \in SUBSET Procs : Cardinality(S) = 0 => S = {}
    BY FiniteSlots, FS_EmptySet
  <2> QED BY <2>1
<1>2. ASSUME NEW n \in A PROVE n + 1 \in A
  <2> SUFFICES ASSUME NEW S \in SUBSET Procs, Cardinality(S) = n + 1
               PROVE  S \in F
    OBVIOUS
  <2>1. S # {}
    BY FS_EmptySet
  <2>2. ASSUME NEW x \in S PROVE S \ {x} \in F
    <3>1. Cardinality(S \ {x}) = n
      BY RemoveSlot
    <3> QED BY <3>1
  <2> QED BY <2>1, <2>2
<1>3. A = Nat
  <2> HIDE DEF A
  <2>1. A \in SUBSET Nat
    BY DEF A
  <2> QED BY <1>1, <1>2, <2>1, NumberInduction
<1> QED BY <1>3, FiniteSlots

\* A set of slots that is not empty has a last one.
LEMMA LastSlot ==
  ASSUME NEW S \in SUBSET Procs, S # {}
  PROVE  \E m \in S : \A q \in S : q <= m
<1> DEFINE F == {T \in SUBSET Procs : T # {} => \E m \in T : \A q \in T : q <= m}
<1>1. ASSUME NEW T \in SUBSET Procs, T # {}, \A x \in T : T \ {x} \in F
      PROVE  T \in F
  <2>1. PICK x \in T : TRUE
    BY <1>1
  <2>2. CASE T \ {x} = {}
    <3>1. \A q \in T : q <= x
      BY <2>2, SlotNumbers
    <3> QED BY <3>1
  <2>3. CASE T \ {x} # {}
    <3>1. PICK m \in T \ {x} : \A q \in T \ {x} : q <= m
      BY <1>1, <2>3
    <3>2. x \in Nat /\ m \in Nat /\ \A q \in T : q \in Nat
      BY SlotNumbers
    <3>3. CASE x <= m
      <4>1. \A q \in T : q <= m
        BY <3>1, <3>3
      <4> QED BY <4>1
    <3>4. CASE m <= x
      <4>1. \A q \in T : q <= x
        BY <3>1, <3>2, <3>4
      <4> QED BY <4>1
    <3> QED BY <3>2, <3>3, <3>4
  <2> QED BY <2>2, <2>3
<1>2. F = SUBSET Procs
  <2>1. F \in SUBSET (SUBSET Procs) /\ {} \in F
    OBVIOUS
  <2> HIDE DEF F
  <2> QED BY <1>1, <2>1, SlotInduction
<1> QED BY <1>2
-----------------------------------------------------------------------------
(***************************************************************************)
(* What SumFunctionOnSet(f, S) is: it takes the elements of S one by one,  *)
(* in an order that CHOOSE fixes.  That order makes no difference.         *)
(***************************************************************************)
Sum(f, S) == SumFunctionOnSet(f, S)

Pick(S) == CHOOSE x \in S : TRUE

\* g holds the sums of f over all subsets of S.
Solves(g, f, S) ==
  g = [s \in SUBSET S |-> IF s = {} THEN 0 ELSE f[Pick(s)] + g[s \ {Pick(s)}]]

Iter(f, S) == CHOOSE g : Solves(g, f, S)

\* The library's fold is that choice of g.
LEMMA SumIter ==
  ASSUME NEW f, NEW S
  PROVE  Sum(f, S) = Iter(f, S)[S]
  BY DEF Sum, SumFunctionOnSet, FoldFunctionOnSet, MapThenFoldSet, Iter, Pick,
         Solves

\* CHOOSE picks an element.
LEMMA Picked == ASSUME NEW S, S # {} PROVE Pick(S) \in S
  BY DEF Pick

\* The equation, subset by subset.
LEMMA SolvesAt ==
  ASSUME NEW g, NEW f, NEW S, Solves(g, f, S)
  PROVE  /\ g[{}] = 0
         /\ \A s \in SUBSET S : s # {} => g[s] = f[Pick(s)] + g[s \ {Pick(s)}]
<1> DEFINE h == [s \in SUBSET S |-> IF s = {} THEN 0
                                    ELSE f[Pick(s)] + g[s \ {Pick(s)}]]
<1>1. g = h
  BY DEF Solves
<1>2. /\ h[{}] = 0
      /\ \A s \in SUBSET S : s # {} => h[s] = f[Pick(s)] + g[s \ {Pick(s)}]
  OBVIOUS
<1> HIDE DEF h
<1> QED BY <1>1, <1>2

\* Two solutions agree where both are defined.
LEMMA Coherent ==
  ASSUME NEW f, NEW S \in SUBSET Procs, NEW T \in SUBSET Procs,
         NEW g, Solves(g, f, S), NEW h, Solves(h, f, T)
  PROVE  \A s \in SUBSET (S \cap T) : g[s] = h[s]
<1> DEFINE F == {s \in SUBSET Procs : s \subseteq S \cap T => g[s] = h[s]}
<1>1. {} \in F
  BY SolvesAt
<1>2. ASSUME NEW s \in SUBSET Procs, s # {}, \A x \in s : s \ {x} \in F
      PROVE  s \in F
  <2> SUFFICES ASSUME s \subseteq S \cap T PROVE g[s] = h[s]
    OBVIOUS
  <2>1. Pick(s) \in s
    BY <1>2, Picked
  <2>2. g[s \ {Pick(s)}] = h[s \ {Pick(s)}]
    BY <1>2, <2>1
  <2>3. g[s] = f[Pick(s)] + g[s \ {Pick(s)}]
    BY <1>2, SolvesAt
  <2>4. h[s] = f[Pick(s)] + h[s \ {Pick(s)}]
    BY <1>2, SolvesAt
  <2> QED BY <2>2, <2>3, <2>4
<1>3. F = SUBSET Procs
  <2>1. F \in SUBSET (SUBSET Procs)
    OBVIOUS
  <2> HIDE DEF F
  <2>2. \A s \in SUBSET Procs :
          s # {} /\ (\A x \in s : s \ {x} \in F) => s \in F
    BY <1>2
  <2> QED BY <1>1, <2>1, <2>2, SlotInduction
<1> QED BY <1>3

\* The equation has a solution.
LEMMA Solution ==
  ASSUME NEW f, NEW S \in SUBSET Procs
  PROVE  Solves(Iter(f, S), f, S)
<1> DEFINE F == {s \in SUBSET Procs : \A t \in SUBSET s : Solves(Iter(f, t), f, t)}
           V(s) == Iter(f, s)[s]
<1>1. {} \in F
  <2> DEFINE h == [s \in SUBSET {} |-> 0]
  <2>1. Solves(h, f, {})
    <3>1. \A s \in SUBSET {} : s = {}
      OBVIOUS
    <3> QED BY <3>1 DEF Solves
  <2>2. Solves(Iter(f, {}), f, {})
    BY <2>1 DEF Iter
  <2>3. \A t \in SUBSET {} : t = {}
    OBVIOUS
  <2> QED BY <2>2, <2>3
<1>2. ASSUME NEW s \in SUBSET Procs, s # {}, \A x \in s : s \ {x} \in F
      PROVE  s \in F
  <2>1. ASSUME NEW t \in SUBSET s, t # s PROVE Solves(Iter(f, t), f, t)
    <3>1. PICK x \in s : t \subseteq s \ {x}
      BY <2>1
    <3> QED BY <1>2, <3>1
  <2> DEFINE h == [t \in SUBSET s |-> IF t = s THEN f[Pick(s)] + V(s \ {Pick(s)})
                                      ELSE V(t)]
             k == [t \in SUBSET s |-> IF t = {} THEN 0
                                      ELSE f[Pick(t)] + h[t \ {Pick(t)}]]
  <2>2. ASSUME NEW t \in SUBSET s PROVE h[t] = k[t]
    <3>1. CASE t = {}
      <4>1. V(t) = 0
        BY <1>2, <2>1, <3>1, SolvesAt
      <4> HIDE DEF V
      <4> QED BY <1>2, <3>1, <4>1
    <3>2. CASE t # {}
      <4>1. Pick(t) \in t
        BY <3>2, Picked
      <4>2. h[t \ {Pick(t)}] = V(t \ {Pick(t)})
        <5> HIDE DEF V
        <5> QED BY <4>1
      <4>3. k[t] = f[Pick(t)] + V(t \ {Pick(t)})
        <5>1. k[t] = f[Pick(t)] + h[t \ {Pick(t)}]
          <6> HIDE DEF h
          <6> QED BY <3>2
        <5> HIDE DEF h, k, V
        <5> QED BY <4>2, <5>1
      <4>4. CASE t = s
        <5> HIDE DEF V, k
        <5> QED BY <4>3, <4>4
      <4>5. CASE t # s
        <5> DEFINE u == t \ {Pick(t)}
        <5>1. Solves(Iter(f, t), f, t) /\ Solves(Iter(f, u), f, u)
          BY <2>1, <4>1, <4>5
        <5>2. V(t) = f[Pick(t)] + Iter(f, t)[u]
          BY <3>2, <5>1, SolvesAt
        <5>3. Iter(f, t)[u] = V(u)
          <6>1. t \in SUBSET Procs /\ u \in SUBSET Procs /\ u \in SUBSET (t \cap u)
            OBVIOUS
          <6> HIDE DEF u
          <6> QED BY <5>1, <6>1, Coherent
        <5>4. h[t] = V(t)
          <6> HIDE DEF V
          <6> QED BY <4>5
        <5> HIDE DEF V, h, k
        <5> QED BY <4>3, <5>2, <5>3, <5>4
      <4> QED BY <4>4, <4>5
    <3> QED BY <3>1, <3>2
  <2>3. Solves(h, f, s)
    <3>1. h = k
      <4>1. h = [t \in SUBSET s |-> h[t]] /\ k = [t \in SUBSET s |-> k[t]]
        <5> HIDE DEF V
        <5> QED OBVIOUS
      <4> HIDE DEF h, k
      <4> QED BY <2>2, <4>1
    <3> HIDE DEF h
    <3> QED BY <3>1 DEF Solves
  <2>4. Solves(Iter(f, s), f, s)
    <3> HIDE DEF h
    <3> QED BY <2>3 DEF Iter
  <2> HIDE DEF V
  <2> QED BY <2>1, <2>4
<1>3. F = SUBSET Procs
  <2>1. F \in SUBSET (SUBSET Procs)
    OBVIOUS
  <2> HIDE DEF F
  <2>2. \A s \in SUBSET Procs :
          s # {} /\ (\A x \in s : s \ {x} \in F) => s \in F
    BY <1>2
  <2> QED BY <1>1, <2>1, <2>2, SlotInduction
<1>4. S \in F
  <2> HIDE DEF F
  <2> QED BY <1>3
<1>5. S \in SUBSET S
  OBVIOUS
<1> QED BY <1>4, <1>5

\* The sum over no slot, and over the slots but the one that is picked.
LEMMA SumPick ==
  ASSUME NEW f, NEW S \in SUBSET Procs
  PROVE  /\ Sum(f, {}) = 0
         /\ S # {} => Sum(f, S) = f[Pick(S)] + Sum(f, S \ {Pick(S)})
<1>1. Sum(f, {}) = 0
  <2>1. Iter(f, {})[{}] = 0
    BY Solution, SolvesAt
  <2> QED BY <2>1, SumIter
<1>2. ASSUME S # {} PROVE Sum(f, S) = f[Pick(S)] + Sum(f, S \ {Pick(S)})
  <2> DEFINE u == S \ {Pick(S)}
  <2>1. u \in SUBSET Procs /\ u \in SUBSET (S \cap u)
    OBVIOUS
  <2>2. Iter(f, S)[S] = f[Pick(S)] + Iter(f, S)[u]
    BY <1>2, Solution, SolvesAt
  <2>3. Iter(f, S)[u] = Iter(f, u)[u]
    <3> HIDE DEF u
    <3> QED BY <2>1, Solution, Coherent
  <2>4. Sum(f, S) = Iter(f, S)[S] /\ Sum(f, u) = Iter(f, u)[u]
    BY SumIter
  <2> HIDE DEF u
  <2>5. Sum(f, S) = f[Pick(S)] + Sum(f, u)
    BY <2>2, <2>3, <2>4
  <2> QED BY <2>5 DEF u
<1> QED BY <1>1, <1>2

\* A sum of numbers of tickets is an integer.
LEMMA SumType ==
  ASSUME NEW f \in [Procs -> Int], NEW S \in SUBSET Procs
  PROVE  Sum(f, S) \in Int
<1> DEFINE F == {s \in SUBSET Procs : Sum(f, s) \in Int}
<1>1. {} \in F
  <2>1. Sum(f, {}) = 0
    BY SumPick
  <2> QED BY <2>1
<1>2. ASSUME NEW s \in SUBSET Procs, s # {}, \A x \in s : s \ {x} \in F
      PROVE  s \in F
  <2>1. Pick(s) \in s
    BY <1>2, Picked
  <2>2. Sum(f, s \ {Pick(s)}) \in Int /\ f[Pick(s)] \in Int
    BY <1>2, <2>1
  <2>3. Sum(f, s) = f[Pick(s)] + Sum(f, s \ {Pick(s)})
    BY <1>2, SumPick
  <2> QED BY <2>2, <2>3
<1>3. F = SUBSET Procs
  <2>1. F \in SUBSET (SUBSET Procs)
    OBVIOUS
  <2> HIDE DEF F
  <2>2. \A s \in SUBSET Procs :
          s # {} /\ (\A x \in s : s \ {x} \in F) => s \in F
    BY <1>2
  <2> QED BY <1>1, <2>1, <2>2, SlotInduction
<1> QED BY <1>3

\* Any slot may be taken out first.
LEMMA SumRemove ==
  ASSUME NEW f \in [Procs -> Int], NEW S \in SUBSET Procs, NEW x \in S
  PROVE  Sum(f, S) = f[x] + Sum(f, S \ {x})
<1> DEFINE F == {s \in SUBSET Procs :
                   \A y \in s : Sum(f, s) = f[y] + Sum(f, s \ {y})}
<1>1. {} \in F
  OBVIOUS
<1>2. ASSUME NEW s \in SUBSET Procs, s # {}, \A y \in s : s \ {y} \in F
      PROVE  s \in F
  <2> SUFFICES ASSUME NEW y \in s PROVE Sum(f, s) = f[y] + Sum(f, s \ {y})
    OBVIOUS
  <2> DEFINE p == Pick(s)
             a == Sum(f, s \ {p})
             b == Sum(f, s \ {y})
             d == Sum(f, (s \ {p}) \ {y})
  <2>1. p \in s /\ p \in Procs /\ y \in Procs
    BY <1>2, Picked
  <2>2. Sum(f, s) = f[p] + a
    BY <1>2, SumPick
  <2>3. CASE y = p
    BY <2>2, <2>3
  <2>4. CASE y # p
    <3>1. a = f[y] + d
      BY <1>2, <2>1, <2>4
    <3>2. b = f[p] + Sum(f, (s \ {y}) \ {p})
      BY <1>2, <2>1, <2>4
    <3>3. (s \ {y}) \ {p} = (s \ {p}) \ {y}
      OBVIOUS
    <3>4. b = f[p] + d
      BY <3>2, <3>3
    <3>5. f[p] \in Int /\ f[y] \in Int /\ d \in Int
      BY <2>1, SumType
    <3>6. Sum(f, s) = f[y] + b
      <4> HIDE DEF a, b, d, p
      <4> QED BY <2>2, <3>1, <3>4, <3>5
    <3> QED BY <3>6
  <2> QED BY <2>3, <2>4
<1>3. F = SUBSET Procs
  <2>1. F \in SUBSET (SUBSET Procs)
    OBVIOUS
  <2> HIDE DEF F
  <2>2. \A s \in SUBSET Procs :
          s # {} /\ (\A y \in s : s \ {y} \in F) => s \in F
    BY <1>2
  <2> QED BY <1>1, <2>1, <2>2, SlotInduction
<1> QED BY <1>3

\* More slots, no smaller sum, where no slot has a negative number.
LEMMA SumMonotone ==
  ASSUME NEW f \in [Procs -> Int], NEW S \in SUBSET Procs, NEW T \in SUBSET S,
         \A x \in S : f[x] >= 0
  PROVE  Sum(f, T) <= Sum(f, S)
<1> DEFINE F == {s \in SUBSET Procs :
                   s \subseteq S => \A t \in SUBSET s : Sum(f, t) <= Sum(f, s)}
<1>1. {} \in F
  <2>1. \A t \in SUBSET {} : t = {}
    OBVIOUS
  <2>2. Sum(f, {}) = 0
    BY SumPick
  <2> QED BY <2>1, <2>2
<1>2. ASSUME NEW s \in SUBSET Procs, s # {}, \A x \in s : s \ {x} \in F
      PROVE  s \in F
  <2> SUFFICES ASSUME s \subseteq S, NEW t \in SUBSET s
               PROVE  Sum(f, t) <= Sum(f, s)
    OBVIOUS
  <2>1. Sum(f, s) \in Int /\ Sum(f, t) \in Int
    BY SumType
  <2>2. CASE t = s
    BY <2>1, <2>2
  <2>3. CASE t # s
    <3>1. PICK x \in s : t \in SUBSET (s \ {x})
      BY <2>3
    <3>2. Sum(f, t) <= Sum(f, s \ {x})
      BY <1>2, <3>1
    <3>3. Sum(f, s) = f[x] + Sum(f, s \ {x})
      BY SumRemove
    <3>4. f[x] \in Int /\ f[x] >= 0 /\ Sum(f, s \ {x}) \in Int
      BY SumType
    <3> QED BY <2>1, <3>2, <3>3, <3>4
  <2> QED BY <2>2, <2>3
<1>3. F = SUBSET Procs
  <2>1. F \in SUBSET (SUBSET Procs)
    OBVIOUS
  <2> HIDE DEF F
  <2>2. \A s \in SUBSET Procs :
          s # {} /\ (\A x \in s : s \ {x} \in F) => s \in F
    BY <1>2
  <2> QED BY <1>1, <2>1, <2>2, SlotInduction
<1>4. S \in F
  <2> HIDE DEF F
  <2> QED BY <1>3
<1> QED BY <1>4

\* A sum depends on the tickets of its own slots only.
LEMMA SumAgree ==
  ASSUME NEW f, NEW g, NEW S \in SUBSET Procs, \A x \in S : f[x] = g[x]
  PROVE  Sum(f, S) = Sum(g, S)
<1> DEFINE F == {s \in SUBSET Procs : s \subseteq S => Sum(f, s) = Sum(g, s)}
<1>1. {} \in F
  <2>1. Sum(f, {}) = 0 /\ Sum(g, {}) = 0
    BY SumPick
  <2> QED BY <2>1
<1>2. ASSUME NEW s \in SUBSET Procs, s # {}, \A x \in s : s \ {x} \in F
      PROVE  s \in F
  <2> SUFFICES ASSUME s \subseteq S PROVE Sum(f, s) = Sum(g, s)
    OBVIOUS
  <2>1. Pick(s) \in s
    BY <1>2, Picked
  <2>2. Sum(f, s \ {Pick(s)}) = Sum(g, s \ {Pick(s)}) /\ f[Pick(s)] = g[Pick(s)]
    BY <1>2, <2>1
  <2>3. /\ Sum(f, s) = f[Pick(s)] + Sum(f, s \ {Pick(s)})
        /\ Sum(g, s) = g[Pick(s)] + Sum(g, s \ {Pick(s)})
    BY <1>2, SumPick
  <2> QED BY <2>2, <2>3
<1>3. F = SUBSET Procs
  <2>1. F \in SUBSET (SUBSET Procs)
    OBVIOUS
  <2> HIDE DEF F
  <2>2. \A s \in SUBSET Procs :
          s # {} /\ (\A x \in s : s \ {x} \in F) => s \in F
    BY <1>2
  <2> QED BY <1>1, <2>1, <2>2, SlotInduction
<1> QED BY <1>3
-----------------------------------------------------------------------------
(***************************************************************************)
(* The shares.                                                             *)
(***************************************************************************)
Before(p) == {q \in Runnable : q < p}
Upto(p)   == {q \in Runnable : q <= p}

\* Slots are compared as numbers.
LEMMA SlotsAreNumbers == \A q \in Runnable : q \in Nat
  BY SlotNumbers DEF Runnable

\* What the second loop of scheduler() has added up at slot p: the tickets of
\* the slots before p and those of p.
LEMMA CounterAt ==
  ASSUME TypeOK, NEW p \in Runnable
  PROVE  /\ Counter(p) = Sum(tickets, Before(p)) + tickets[p]
         /\ Counter(p) \in Int /\ NumTickets \in Int
         /\ tickets[p] \in Int /\ Sum(tickets, Before(p)) \in Int
<1>1. /\ Runnable \in SUBSET Procs /\ Upto(p) \in SUBSET Procs
      /\ Before(p) \in SUBSET Procs /\ tickets \in [Procs -> Int]
  BY DEF Runnable, Upto, Before, TypeOK
<1>2. Counter(p) = Sum(tickets, Upto(p)) /\ NumTickets = Sum(tickets, Runnable)
  BY DEF Counter, NumTickets, Upto, Sum
<1>3. p \in Upto(p) /\ Upto(p) \ {p} = Before(p)
  BY SlotsAreNumbers DEF Upto, Before
<1>4. Sum(tickets, Upto(p)) = tickets[p] + Sum(tickets, Upto(p) \ {p})
  BY <1>1, <1>3, SumRemove
<1>5. /\ Sum(tickets, Upto(p)) \in Int /\ Sum(tickets, Before(p)) \in Int
      /\ Sum(tickets, Runnable) \in Int /\ tickets[p] \in Int
  BY <1>1, SumType DEF Runnable
<1> DEFINE u == Sum(tickets, Upto(p))
           b == Sum(tickets, Before(p))
           n == tickets[p]
<1>6. u = n + b /\ u \in Int /\ b \in Int /\ n \in Int
  BY <1>3, <1>4, <1>5
<1>7. u = b + n
  <2> HIDE DEF u, b, n
  <2> QED BY <1>6
<1> QED BY <1>2, <1>5, <1>7

\* The last slot before p has added up what Before(p) sums to.
LEMMA CounterBefore ==
  ASSUME NEW p \in Runnable, Before(p) # {}
  PROVE  \E m \in Before(p) : Counter(m) = Sum(tickets, Before(p))
<1>1. Before(p) \in SUBSET Procs
  BY DEF Runnable, Before
<1>2. PICK m \in Before(p) : \A q \in Before(p) : q <= m
  BY <1>1, LastSlot
<1>3. Upto(m) = Before(p)
  BY <1>2, SlotsAreNumbers DEF Upto, Before
<1>4. Counter(m) = Sum(tickets, Upto(m))
  BY DEF Counter, Upto, Sum
<1> QED BY <1>2, <1>3, <1>4

\* Where no tickets are negative the counter never falls: no slot before p has
\* added up more than Before(p) sums to, and none more than the first loop.
LEMMA CounterGrows ==
  ASSUME TypeOK, NEW p \in Runnable, \A q \in Runnable : tickets[q] >= 0
  PROVE  /\ \A q \in Before(p) : Counter(q) <= Sum(tickets, Before(p))
         /\ Counter(p) <= NumTickets
         /\ Sum(tickets, Before(p)) >= 0
<1>1. /\ Before(p) \in SUBSET Procs /\ tickets \in [Procs -> Int]
      /\ Before(p) \in SUBSET Runnable /\ Runnable \in SUBSET Procs
      /\ Upto(p) \in SUBSET Runnable
  BY DEF Runnable, Before, Upto, TypeOK
<1>2. \A q \in Runnable : Counter(q) = Sum(tickets, Upto(q))
  BY DEF Counter, Upto, Sum
<1>3. ASSUME NEW q \in Before(p) PROVE Counter(q) <= Sum(tickets, Before(p))
  <2>1. Upto(q) \in SUBSET Before(p)
    BY SlotsAreNumbers DEF Upto, Before
  <2>2. Sum(tickets, Upto(q)) <= Sum(tickets, Before(p))
    BY <1>1, <2>1, SumMonotone
  <2> QED BY <1>1, <1>2, <2>2
<1>4. Sum(tickets, Upto(p)) <= Sum(tickets, Runnable)
  BY <1>1, SumMonotone
<1>5. Sum(tickets, Before(p)) >= 0
  <2>1. Sum(tickets, {}) <= Sum(tickets, Before(p))
    BY <1>1, SumMonotone
  <2>2. Sum(tickets, {}) = 0 /\ Sum(tickets, Before(p)) \in Int
    BY <1>1, SumPick, SumType
  <2> QED BY <2>1, <2>2
<1>6. NumTickets = Sum(tickets, Runnable)
  BY DEF NumTickets, Sum
<1> QED BY <1>2, <1>3, <1>4, <1>5, <1>6

\* The numbers that p can win at most: those above what the slots before p have
\* added up, up to p's own counter; 0 goes to the first runnable slot.
Due(p) ==
  LET b == Sum(tickets, Before(p))
  IN  IF Before(p) = {} THEN 0 .. tickets[p] ELSE (b + 1) .. (b + tickets[p])

\* p wins a number when its counter has reached it and no counter before has.
LEMMA WonIff ==
  ASSUME TypeOK, NEW p \in Runnable, NumTickets >= 0
  PROVE  /\ WonBy(p) \subseteq Nat
         /\ \A w \in Nat : w \in WonBy(p)
                             <=> /\ w <= NumTickets /\ w <= Counter(p)
                                 /\ \A q \in Before(p) : Counter(q) < w
<1>1. /\ p \in Nat /\ \A q \in Runnable : q \in Nat /\ Counter(q) \in Int
      /\ NumTickets \in Int
  BY CounterAt, SlotsAreNumbers
<1>2. \A w \in Nat : (\A q \in Winners(w) : p <= q)
                       <=> \A q \in Before(p) : Counter(q) < w
  BY <1>1 DEF Winners, Before
<1>3. RandomAtMost(NumTickets) = 0 .. NumTickets
  BY DEF RandomAtMost
<1>4. WonBy(p) \subseteq Nat
  BY <1>1, <1>3 DEF WonBy
<1>5. \A w \in Nat : w \in RandomAtMost(NumTickets) <=> w <= NumTickets
  BY <1>1, <1>3
<1>6. \A w \in Nat : p \in Winners(w) <=> w <= Counter(p)
  BY <1>1 DEF Winners
<1> QED BY <1>2, <1>4, <1>5, <1>6 DEF WonBy

\* Whatever the signs of the tickets, p wins no other numbers.
LEMMA WonWithin ==
  ASSUME TypeOK, NEW p \in Runnable, NumTickets >= 0
  PROVE  WonBy(p) \subseteq Due(p)
<1>1. /\ Counter(p) = Sum(tickets, Before(p)) + tickets[p]
      /\ Counter(p) \in Int /\ tickets[p] \in Int
      /\ Sum(tickets, Before(p)) \in Int
  BY CounterAt
<1>2. CASE Before(p) = {}
  <2>1. Sum(tickets, {}) = 0
    BY SumPick
  <2>2. Counter(p) = tickets[p]
    BY <1>1, <1>2, <2>1
  <2> QED BY <1>1, <1>2, <2>2, WonIff DEF Due
<1>3. CASE Before(p) # {}
  <2> DEFINE b == Sum(tickets, Before(p))
  <2>1. PICK m \in Before(p) : Counter(m) = b
    BY <1>3, CounterBefore
  <2>2. ASSUME NEW w \in WonBy(p) PROVE w \in (b + 1) .. (b + tickets[p])
    <3>1. w \in Nat /\ w <= Counter(p) /\ b < w
      BY <2>1, WonIff
    <3> QED BY <1>1, <3>1
  <2> QED BY <1>3, <2>2 DEF Due
<1> QED BY <1>2, <1>3

\* Where no tickets are negative p wins all of them.
LEMMA WonAll ==
  ASSUME TypeOK, NEW p \in Runnable, NumTickets >= 0,
         \A q \in Runnable : tickets[q] >= 0
  PROVE  Due(p) \subseteq WonBy(p)
<1>1. /\ Counter(p) = Sum(tickets, Before(p)) + tickets[p]
      /\ Counter(p) \in Int /\ tickets[p] \in Int /\ NumTickets \in Int
      /\ Sum(tickets, Before(p)) \in Int /\ Sum(tickets, Before(p)) >= 0
      /\ Counter(p) <= NumTickets
      /\ \A q \in Before(p) : Counter(q) <= Sum(tickets, Before(p))
      /\ \A q \in Before(p) : Counter(q) \in Int
  BY CounterAt, CounterGrows DEF Before
<1>2. CASE Before(p) = {}
  <2>1. Sum(tickets, {}) = 0
    BY SumPick
  <2>2. Counter(p) = tickets[p]
    BY <1>1, <1>2, <2>1
  <2>3. ASSUME NEW w \in 0 .. tickets[p] PROVE w \in WonBy(p)
    <3>1. w \in Nat /\ w <= NumTickets /\ w <= Counter(p)
      BY <1>1, <2>2
    <3> QED BY <1>2, <3>1, WonIff
  <2> QED BY <1>2, <2>3 DEF Due
<1>3. CASE Before(p) # {}
  <2> DEFINE b == Sum(tickets, Before(p))
  <2>1. ASSUME NEW w \in (b + 1) .. (b + tickets[p]) PROVE w \in WonBy(p)
    <3>1. /\ w \in Nat /\ w <= NumTickets /\ w <= Counter(p)
          /\ \A q \in Before(p) : Counter(q) < w
      BY <1>1
    <3> QED BY <3>1, WonIff
  <2> QED BY <1>3, <2>1 DEF Due
<1> QED BY <1>2, <1>3

\* The sizes of the two intervals.
LEMMA NumberedFrom ==
  ASSUME NEW b \in Int, NEW n \in Int
  PROVE  /\ IsFiniteSet((b + 1) .. (b + n))
         /\ Cardinality((b + 1) .. (b + n)) = IF n < 0 THEN 0 ELSE n
         /\ IsFiniteSet(0 .. n)
         /\ Cardinality(0 .. n) = IF n < 0 THEN 0 ELSE n + 1
<1>1. \A x, y \in Int : /\ IsFiniteSet(x .. y)
                        /\ Cardinality(x .. y) = IF x > y THEN 0 ELSE y - x + 1
  BY FS_Interval
<1>2. /\ IsFiniteSet((b + 1) .. (b + n))
      /\ Cardinality((b + 1) .. (b + n))
           = IF b + 1 > b + n THEN 0 ELSE (b + n) - (b + 1) + 1
  BY <1>1
<1>3. IsFiniteSet(0 .. n) /\ Cardinality(0 .. n) = IF 0 > n THEN 0 ELSE n - 0 + 1
  BY <1>1
<1> QED BY <1>2, <1>3

\* How many numbers a slot is due.
LEMMA DueSize ==
  ASSUME TypeOK, NEW p \in Runnable
  PROVE  /\ IsFiniteSet(Due(p))
         /\ Cardinality(Due(p))
              = IF tickets[p] < 0 THEN 0
                ELSE tickets[p] + (IF \A q \in Runnable : p <= q THEN 1 ELSE 0)
<1> DEFINE b == Sum(tickets, Before(p))
           n == tickets[p]
<1>1. n \in Int /\ b \in Int
  BY CounterAt
<1>2. (\A q \in Runnable : p <= q) <=> Before(p) = {}
  BY SlotsAreNumbers DEF Before
<1>3. Due(p) = IF Before(p) = {} THEN 0 .. n ELSE (b + 1) .. (b + n)
  BY DEF Due
<1> HIDE DEF b, n
<1>4. /\ IsFiniteSet((b + 1) .. (b + n)) /\ IsFiniteSet(0 .. n)
      /\ Cardinality((b + 1) .. (b + n)) = IF n < 0 THEN 0 ELSE n
      /\ Cardinality(0 .. n) = IF n < 0 THEN 0 ELSE n + 1
  BY <1>1, NumberedFrom
<1>5. /\ IsFiniteSet(Due(p))
      /\ Cardinality(Due(p))
           = IF n < 0 THEN 0 ELSE n + (IF Before(p) = {} THEN 1 ELSE 0)
  BY <1>1, <1>3, <1>4
<1> QED BY <1>2, <1>5 DEF n

\* The shares follow from the types alone, in every state of the table.
LEMMA Shares == TypeOK => LotteryShares
<1> SUFFICES ASSUME TypeOK, NumTickets >= 0, NEW p \in Runnable
             PROVE  /\ Cardinality(WonBy(p)) <= Cardinality(Due(p))
                    /\ (\A q \in Runnable : tickets[q] >= 0)
                         => Cardinality(WonBy(p)) = Cardinality(Due(p))
  BY DueSize DEF LotteryShares
<1>1. Cardinality(WonBy(p)) <= Cardinality(Due(p))
  BY DueSize, WonWithin, FS_Subset
<1>2. ASSUME \A q \in Runnable : tickets[q] >= 0
      PROVE  WonBy(p) = Due(p)
  BY <1>2, WonWithin, WonAll
<1> QED BY <1>1, <1>2

\* No runnable process wins more numbers than it has tickets, the first one in
\* the table one more, and each wins exactly as many where no tickets are
\* negative (proc.c, scheduler; sysproc.c, sys_settickets takes any int).
THEOREM SharesAreFair == Spec => []LotteryShares
  BY TypeCorrect, Shares, PTL

-----------------------------------------------------------------------------
(***************************************************************************)
(* The number that was drawn stays in range until the second loop is over, *)
(* because what counts in its sum changes under ptable.lock only.          *)
(***************************************************************************)
Drawn ==
  \A c \in CPUS : cpu_pc[c] = "drawn" /\ NumTickets >= 0 => winner[c] <= NumTickets

DrawInv == Inv /\ Drawn

\* A step that leaves the runnable processes and their tickets as they are.
LEMMA KeepsDrawn ==
  ASSUME DrawInv, TypeOK', Runnable' = Runnable,
         \A q \in Runnable : tickets'[q] = tickets[q],
         \A c \in CPUS : cpu_pc'[c] = "drawn" =>
                            cpu_pc[c] = "drawn" /\ winner'[c] = winner[c]
  PROVE  Drawn'
<1>1. Runnable \in SUBSET Procs
  BY DEF Runnable
<1>2. Sum(tickets, Runnable) = Sum(tickets', Runnable)
  BY <1>1, SumAgree
<1>3. NumTickets' = NumTickets
  BY <1>2 DEF NumTickets, Sum
<1> QED BY <1>3 DEF DrawInv, Drawn

\* A step that is taken with ptable.lock in hand, and not between the loops.
LEMMA LockedDrawn ==
  ASSUME DrawInv, NEW c \in CPUS,
         ptable_lock = Nobody \/ (ptable_lock = c /\ cpu_pc'[c] # "drawn"),
         \A d \in CPUS : cpu_pc'[d] = "drawn" => cpu_pc[d] = "drawn"
  PROVE  Drawn'
  BY ConstantsAssumption DEF DrawInv, Inv, OnCpu, Drawn

\* The steps of scheduler().
LEMMA SchedulerDrawn ==
  ASSUME DrawInv, NEW c \in CPUS, SchedulerStep(c)
  PROVE  Drawn'
<1> USE DEF slotVars, localVars, clockVars, memVars
<1>1. TypeOK /\ TypeOK'
  BY SchedulerType DEF DrawInv, Inv
<1>2. ASSUME NEW w \in RandomAtMost(NumTickets), SchedDraw(c, w) PROVE Drawn'
  <2>1. \A d \in CPUS : cpu_pc[d] # "drawn"
    BY <1>2, ConstantsAssumption DEF SchedDraw, DrawInv, Inv, OnCpu
  <2>2. NumTickets' = NumTickets
    BY <1>2 DEF SchedDraw, NumTickets, Runnable
  <2>3. NumTickets >= 0 => w <= NumTickets
    BY DEF RandomAtMost
  <2> QED BY <1>1, <1>2, <2>1, <2>2, <2>3 DEF SchedDraw, Drawn, TypeOK
<1>3. CASE NoneFound(c) \/ SchedReturn(c) \/ \E p \in Procs : Dispatch(c, p)
  <2>1. ptable_lock = c
    BY <1>3 DEF NoneFound, SchedReturn, Dispatch, DrawInv, Inv, OnCpu
  <2>2. /\ cpu_pc'[c] # "drawn"
        /\ \A d \in CPUS : cpu_pc'[d] = "drawn" => cpu_pc[d] = "drawn"
    BY <1>1, <1>3 DEF NoneFound, SchedReturn, Dispatch, TypeOK
  <2> QED BY <2>1, <2>2, LockedDrawn
<1>4. CASE Hlt(c)
  BY <1>1, <1>4, KeepsDrawn DEF Hlt, Runnable, TypeOK
<1> QED BY <1>2, <1>3, <1>4 DEF SchedulerStep

\* The steps of a process.
LEMMA ProcessDrawn ==
  ASSUME DrawInv, TypeOK', NEW c \in CPUS, NEW p \in Procs, ProcessStep(c, p)
  PROVE  Drawn'
<1> USE DEF slotVars, localVars, cpuVars, clockVars, memVars
<1>1. TypeOK
  BY DEF DrawInv, Inv
<1>2. CASE \/ Forkret(c, p) \/ YieldReturn(c, p) \/ SleepReturn(c, p)
           \/ WaitFail(c, p) \/ \E q \in Procs : WaitReap(c, p, q)
  <2>1. /\ ptable_lock = Nobody \/ (ptable_lock = c /\ cpu_pc[c] = "run")
        /\ cpu_pc' = cpu_pc
    BY <1>2 DEF Forkret, YieldReturn, SleepReturn, WaitFail, WaitReap,
                WaitScans, Resumed
  <2> QED BY <2>1, LockedDrawn
<1>3. CASE Yield(c, p) \/ Exit(c, p) \/ WaitSleep(c, p) \/ Sleep(c, p)
  <2>1. /\ ptable_lock = Nobody \/ ptable_lock = c
        /\ cpu_pc' = [cpu_pc EXCEPT ![c] = "back"]
    BY <1>3 DEF Yield, Exit, WaitSleep, Sleep, Sched, WaitScans, Resumed
  <2> QED BY <1>1, <2>1, LockedDrawn DEF TypeOK
<1>4. CASE \/ \E q \in Procs : ForkAlloc(c, p, q) \/ ForkPublish(c, p, q)
           \/ \E k \in KillArgs, q \in Procs : Kill(c, p, k, q)
  <2>1. ptable_lock = Nobody /\ cpu_pc' = cpu_pc
    BY <1>4 DEF ForkAlloc, ForkPublish, Kill
  <2> QED BY <2>1, LockedDrawn
<1>5. ASSUME NEW q \in Procs, ForkKalloc(c, p, q) \/ ForkCopy(c, p, q)
      PROVE  Drawn'
  BY <1>1, <1>5, KeepsDrawn DEF ForkKalloc, ForkCopy, Runnable
<1>6. ASSUME NEW q \in Procs, ForkNoStack(c, p, q) \/ ForkNoMemory(c, p, q)
      PROVE  Drawn'
  <2>1. state[q] = "EMBRYO"
    BY <1>6, SlotNumbers
       DEF ForkNoStack, ForkNoMemory, DrawInv, Inv, Forking, ForkPoints
  <2>2. /\ state' = [state EXCEPT ![q] = "UNUSED"]
        /\ UNCHANGED <<tickets, cpu_pc, winner>>
    BY <1>6 DEF ForkNoStack, ForkNoMemory
  <2>3. Runnable' = Runnable
    BY <1>1, <2>1, <2>2 DEF Runnable, TypeOK
  <2> QED BY <2>2, <2>3, KeepsDrawn
<1>7. CASE \/ ExitClose(c, p) \/ ExitPanic(c, p) \/ WaitEnter(c, p)
           \/ \E n \in SleepArgs : SysSleep(c, p, n)
           \/ SysSleepReturn(c, p) \/ SysSleepAgain(c, p)
           \/ SleepRelock(c, p) \/ SleepRelocked(c, p)
  <2>1. UNCHANGED <<state, tickets, cpu_pc, winner>>
    BY <1>7 DEF ExitClose, ExitPanic, WaitEnter, SysSleep, SysSleepReturn,
                SysSleepAgain, SleepRelock, SleepRelocked
  <2> QED BY <2>1, KeepsDrawn DEF Runnable
<1>8. ASSUME NEW t \in TicketArgs, SetTickets(c, p, t) PROVE Drawn'
  <2>1. p \notin Runnable
    BY <1>8, RunningOnce DEF SetTickets, Enters, Running, DrawInv, Runnable
  <2> QED BY <1>1, <1>8, <2>1, KeepsDrawn DEF SetTickets, Runnable, TypeOK
<1> QED BY <1>2, <1>3, <1>4, <1>5, <1>6, <1>7, <1>8
        DEF ProcessStep, ForkStep, WaitStep, SleepStep

\* Every step keeps the drawn number in range.
LEMMA NextDrawn == DrawInv /\ [Next]_vars => DrawInv'
<1> SUFFICES ASSUME DrawInv, [Next]_vars PROVE Drawn'
  BY NextInv DEF DrawInv
<1>1. TypeOK'
  BY NextType DEF DrawInv, Inv
<1>2. CASE TickWakeup
  <2>1. CASE CPUS = {}
    BY <2>1 DEF Drawn
  <2>2. CASE CPUS # {}
    BY <1>2, <2>2, LockedDrawn DEF TickWakeup, cpuVars
  <2> QED BY <2>1, <2>2
<1>3. CASE Tick \/ UNCHANGED vars
  <2>1. UNCHANGED <<state, tickets, cpu_pc, winner>>
    BY <1>3 DEF Tick, vars, slotVars, cpuVars
  <2> QED BY <1>1, <2>1, KeepsDrawn DEF Runnable
<1> QED BY <1>1, <1>2, <1>3, SchedulerDrawn, ProcessDrawn DEF Next, Halted

\* A number that is in range has a winner: the last runnable process at the
\* latest, where the counter is the whole sum.
LEMMA RangeHasWinner ==
  ASSUME TypeOK, Runnable # {}, NEW w, w <= NumTickets
  PROVE  Winners(w) # {}
<1>1. Runnable \in SUBSET Procs
  BY DEF Runnable
<1>2. PICK m \in Runnable : \A q \in Runnable : q <= m
  BY <1>1, LastSlot
<1>3. Upto(m) = Runnable
  BY <1>2 DEF Upto
<1>4. Counter(m) = NumTickets
  BY <1>3 DEF Counter, NumTickets, Upto
<1> QED BY <1>2, <1>4, CounterAt DEF Winners

\* The second loop of scheduler() finds the winner that the first one allows
\* for, whatever settickets() and fork() do on other CPUs in between.
THEOREM DrawsAreFound == Spec => []LotteryPicks
<1>1. Init => DrawInv
  BY InitInv DEF DrawInv, Drawn, Init
<1>2. DrawInv => LotteryPicks
  <2> SUFFICES ASSUME DrawInv, NEW c \in CPUS, cpu_pc[c] = "drawn", Runnable # {},
                      NumTickets >= 0
               PROVE  Winners(winner[c]) # {}
    BY DEF LotteryPicks
  <2> QED BY RangeHasWinner DEF DrawInv, Drawn, Inv
<1> QED BY <1>1, <1>2, NextDrawn, PTL DEF Spec
=============================================================================
