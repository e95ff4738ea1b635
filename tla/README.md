# Verification of NYU-Operating-Systems

TLA+ models of the programs in this repository, the TLC configurations that
check them on small instances, and theorems that TLAPS proves for instances of
every size. The reference for every definition is the C source; `PROJECT.json`
maps each definition to the lines it models.

## 1. Inventory

The repository holds several independent programs. They share no code.

| Part | Source | State | Operations |
| --- | --- | --- | --- |
| process table (xv6) | `hw3/proc.c`, `hw3/proc.h` | `ptable.proc[NPROC]`, `ptable.lock`, `nextpid`, `initproc`, `cpu->proc`, saved contexts | `allocproc`, `userinit`, `fork`, `exit`, `wait`, `sched`, `yield`, `forkret`, `sleep`, `wakeup`, `kill`; also `growproc`, `procdump` |
| lottery scheduler | `scheduler()` in `hw3/proc.c` | `tickets` of each slot, the drawn winner of each CPU | sum, draw, search, switch, `hlt` |
| process system calls | `hw3/sysproc.c` | `ticks`, `tickslock`; the caller's `tickets` | `sys_sleep`, `sys_settickets`, forwarding to `fork`/`exit`/`wait`/`kill`, `sys_sbrk`, `sys_getpid`, `sys_uptime`, `sys_gettime` |
| system call dispatch | `hw3/syscall.c`, `syscall.h`, `usys.S`, `user.h`, `defs.h` | none of its own; checks against `proc->sz`, which `growproc` moves | `fetchint`, `fetchstr`, `argint`, `argptr`, `argstr`, `syscall` |
| `lotterytest` | `hw3/lotterytest.c` | none | forks children with different ticket counts and times them |
| hash table without locks | `hw4/parallel_hashtable.c` | `table[NUM_BUCKETS]`, the entries, `keys[]`; per thread `key`, `b`, `lost` | `insert`, `retrieve`, `put_phase`, `get_phase`, `main` |
| hash table with mutexes | `hw4/parallel_mutex.c` | the same, and one mutex per bucket | the same |
| hash table with a spinlock | `hw4/parallel_spin.c` | the same, and one spinlock | the same |
| shell | `hw2/shell.c` | the processes and descriptors of a command line; the parser's position | `runcmd`, `getcmd`, `main`, `gettoken`, `parsecmd` and the parsers below it |
| uniq | `hw1/uniq.c` | the current and the previous line, a run count, two flags | `myreadline`, `uniq`, `main` |
| multithreaded reader | `final_project/run_multithreaded.c` | offsets and partial xors of the threads, the file | `thread_read`, `disk_read`, `disk_write`, `main` |
| block readers | `final_project/run.c`, `run_blocksize.c`, `fast.c`, `part_4_lseek_run.c` | a count, a sum, a buffer, the file and its mode | read, write, xor, `lseek` loops |
| benchmark scripts | `final_project/python_tests/`, `build.sh`, `benchmark_extra_cred.cpp` | none | run the readers and time them |

`hw3/sysfile.c` is an empty file.

### How the parts interact

* In xv6 every process is a kernel thread. It runs on a CPU from one `swtch()`
  to the next; `scheduler()` runs on each CPU in between. All of them share the
  process table under `ptable.lock`, and that lock is *handed over* in
  `swtch()`: the scheduler takes it and the process releases it, and the other
  way round.
* `sleep()` exchanges the caller's lock for `ptable.lock`; `wait()` sleeps on
  its own slot's address with `ptable.lock`, `sys_sleep()` on `&ticks` with
  `tickslock`. The clock interrupt (`trap()`, not in the repository) takes
  `tickslock`, increments `ticks` and calls `wakeup(&ticks)`, and makes the
  interrupted process `yield()`.
* `kill()` writes `killed` of another process, which is read under other locks
  or under none: in `wait()`, in `sys_sleep()` and at every trap.
* The threads of the hash table programs share the table. `main()` joins all
  put threads before it creates the get threads, which take no lock.
* The shell forks one child per line, which becomes the last stage of the line's
  pipeline and forks the stages to its left. The processes share the pipes
  through inherited descriptors; the shell waits for its own child only.
* A system call fetches its arguments from user memory, after a comparison with
  `proc->sz`; `sys_sbrk()` changes that size through `growproc()`.
* `lotterytest` is a user program on top of `fork()`, `wait()` and `exit()`.
* The programs of `final_project` meet in the file: one writes it, others read it
  later. The threads of `run_multithreaded` share its descriptor.

### What is hard, and what makes each part correct

The hazards are listed with their lines in `PROJECT.json`. The main ones:

* **Stacks.** A process is RUNNABLE, SLEEPING or ZOMBIE before it has left its
  kernel stack. Nobody may run on that stack or free it until the CPU is back
  in `scheduler()` (`StackExclusive`).
* **Lost wakeups.** Between a test and going to sleep no exit, kill or tick may
  slip through (`NoLostChildExit`, `NoLostTick`), and what sleeps is woken in
  the end (`WaitCompletes`, `KilledExits`).
* **Half-finished forks.** A fork may fail after it has taken a slot or a
  stack; it then changes the slot without the lock. Nothing may leak or be
  freed twice (`PagesConserved`), and no other process may see the slot
  (`ImplementsTree`).
* **Orphans.** A dying parent hands over its children, zombies included
  (`OrphansAdopted`, `ImplementsTree`), with all files closed
  (`FilesReleased`).
* **The lottery.** The search must find the winner the draw promised although
  other CPUs change tickets without the lock (`LotteryPicks`). No process may win
  more of the numbers than it has tickets, and each must win as many where nobody
  has a negative number of them, which `settickets()` allows (`LotteryShares`).
* **User addresses.** The sums in the checks are unsigned and can wrap around,
  and the size they compare with must be true after every `sbrk()`
  (`AccessesMapped`, `SizeAccounted`).
* **Lost inserts.** Two threads that read the same head lose an entry
  (`LinkFresh`, `NoKeyLost`, `AllRetrieved`); what the racy program then
  reports must at least be the truth and it must end (`ReportExact`,
  `Terminates`).
* **The barrier.** `retrieve()` is safe without a lock only because of the
  joins (`GetReadOnly`).
* **Stray pipe ends.** End of file and SIGPIPE depend on every process having
  closed the ends that are not its own (`EndsPrivate`, `PromptReturns`,
  `ProgramsEnd`).
* **Waiting for one child.** The shell waits for the last stage only. Its output
  must be complete then, and a `fork()` that failed must not make `wait()`
  return the child of another line (`Composition`, `NoStrayChild`).
* **Parsing.** Three parsers share a position in the line and must agree where
  it is (`ParserCorrect`); the argument vector needs room for its null pointer
  (`ArgvFits`).
* **Runs of lines.** A run may end with the file, with or without a newline, and
  the comparison may go wrong (`RunsPrinted`, `CountsAddUp`); with `-d` no run
  may be missed (`DuplicatesFound`).
* **Dividing a file.** Threads with computed offsets, and loops that read before
  they count, must cover every word once (`XorComplete`), stop where they should
  (`Position`) and stop at all although ints overflow (`Ends`).
* **Waits without children.** `lotterytest` waits twice whether or not its forks
  succeeded (`NoChildLeft`, `TestEnds`).

## 2. Modules

| Module | Contents |
| --- | --- |
| `ProcTable` | the process table, the lottery scheduler, the system calls on processes, on several CPUs |
| `ProcTree` | abstract specification: a tree of processes with three atomic operations |
| `ProcTableTree` | the refinement mapping from the table to the tree |
| `MCProcTable` | instances for TLC |
| `ProcTableProofs` | type correctness and `StackExclusive`; the table implements the tree, orphans are adopted, `wait()` misses no exit |
| `ProcTableResourceProofs` | pages and files are accounted for, `sleep()` misses no tick; the lottery's search finds a winner, the shares are fair |
| `HashTable` | the three hash table programs; `Locking` selects one |
| `MCHashTable`, `MCHashTableLocked` | instances for TLC; the second runs the mutex and the spinlock program in one |
| `HashTableProofs` | the locked programs lose no key; all three report exactly what is lost |
| `Shell` | the shell at run time: `main()`, `runcmd()`, the processes, descriptors and pipes |
| `MCShell` | command lines for TLC |
| `ShellProofs` | `NoStrayChild`, type correctness, `EndsPrivate` and `Composition` |
| `ShellParser` | the parser of the shell and a definition of its language |
| `ParserProofs` | the parser builds what the language says, and `argv` fits |
| `Uniq`, `MCUniq` | `uniq` and a definition of what it should print |
| `UniqProofs` | the counts add up; runs and duplicates are printed as they should be |
| `Order`, `OrderProofs` | lists with one item for each position of a set, in order; least and greatest numbers, induction |
| `Syscall` | argument fetching, its checks, `sbrk()` and `growproc()` |
| `LotteryTest` | `lotterytest` as a client of `ProcTree` |
| `Disk`, `MCDisk` | the five programs of `final_project` on one file |
| `ProgramsProofs` | system calls access mapped user memory only; `lotterytest` leaves no child; the readers of `final_project` xor every word once |
| `MCPrograms` | `Syscall`, the parser, `uniq`, `Disk` and `LotteryTest` in one instance for TLC |

An operator whose name ends in `_Something` and that stands directly before the
operator of the same name is a deliberately wrong variant of it (a missing
reset, a lock released too early, an off-by-one). `PROJECT.json` names, for each
property, the variant that makes TLC report it violated.

### ProcTable and proc.c

The fields of `struct proc` are one function each over the slots (`state`,
`pid`, `parent`, `chan`, `killed`, `tickets`). `kstack`, `pgdir` and `files` say
whether the slot owns the resource; an address space is one page, and so is a
stack, out of `NPAGES`. `context[p]` is where `swtch()` into `p` will land,
"none" while `p` executes. `pc[p]` and `cpu_pc[c]` are the control points of a
process in the kernel and of `scheduler()`; `np`, `ticks0`, `nticks`, `winner`
are the locals of the same names.

*Grain.* Code between `acquire(&ptable.lock)` and `release` is one action,
since everything that reads the fields concerned takes the lock; where the lock
is carried across `swtch()` the action ends and the lock stays held
(`ptable_lock = c`). Code without the lock is split at each access another CPU
can observe:

| Code | Actions |
| --- | --- |
| `scheduler()` | `SchedDraw` (acquire, sum, draw), `Dispatch` (search, switch), `NoneFound` (release), `Hlt`, `SchedReturn` |
| `fork()` with `allocproc()` | `ForkAlloc`, `ForkKalloc` or `ForkNoStack`, `ForkCopy` or `ForkNoMemory`, `ForkPublish` |
| `exit()` | `ExitClose` (or `ExitPanic` for init), `Exit` |
| `wait()` | `WaitEnter`, then `WaitReap`, `WaitFail` or `WaitSleep`, again after each wakeup |
| `yield()`, `forkret()` | `Yield`, `YieldReturn`, `Forkret` |
| `sys_sleep()` and `sleep(&ticks, &tickslock)` | `SysSleep`, `SysSleepAgain`, `Sleep`, `SleepReturn`, `SleepRelock`, `SleepRelocked`, `SysSleepReturn` |
| clock interrupt (external) | `Tick`, `TickWakeup` |
| `kill()`, `sys_settickets()` | `Kill`, `SetTickets` |

The draw and the search are two actions although both hold the lock, because
`sys_settickets()` writes without it and can come in between.

*Abstractions and their reasons.*

* The clock interrupt is an actor of its own, the owner `Timer` of `tickslock`,
  instead of code that runs on CPU 0. This allows more interleavings than the
  hardware; a pass covers the real ones. Its `yield()` happens only where
  interrupts are on: not while the process holds `tickslock` or spins on it.
* The test of `killed` at a trap is one step with the entry into the system
  call. `trap()` is not in the repository and is modelled from its use here.
* init calls `exit()` only when it is killed, as its program never returns.
* `settickets()` stores any int of `TicketArgs`, negative ones included. With a
  negative sum `random_at_most()` is called outside its domain; it is external,
  and `RandomAtMost` is then any number of `StrayDraws`.
* The four assertions of `sched()` (a panic without `ptable.lock`, with another
  lock, in state RUNNING or with interrupts on) are left out: each caller sets the
  state and holds the lock in the action that calls it.
* Calls that fail without changing anything (`fork()` with a full table,
  `kill()` of an unknown pid) are stuttering steps and have no action.
* `ticks0` and `nticks` are dead after `sys_sleep()` returns and are reset, so
  that they do not multiply the states.
* `ticks` is taken modulo `TICKMOD`, as the C `uint` is modulo 2^32.
* `panic()` stops all CPUs (`Halted`).
* Sleeping inside the file system (in `fileclose` or `iput`) is left out: that
  code is not in the repository, and the process holds no lock of the table
  meanwhile.

### ProcTree

What a user program may rely on: a process appears in one step as a child of
its creator, an exit passes all children to init in the same step, and a
process disappears only when its parent collects it. In the mapping an EMBRYO
is free, so that a failing fork is invisible.

### HashTable and the hw4 programs

Each `insert()` allocates one entry for one index of `keys[]`, so entries are
named by indexes and `next` is a function on them. A step accesses the shared
table at most once: `Link` reads the head, `Publish` stores it. `retrieve()`
walks one `next` per step. In the locked programs the whole body of `insert()`
after `malloc()` is inside the lock; in `parallel_spin.c` one lock serves all
buckets (`LockOf`). `keys` takes every value in `[Index -> RandomKeys]` in the
initial states. A failing `malloc()` of an entry calls `panic()`, which ends the
program. Not modelled: the other calls of `malloc()` failing (for `threads`, which
panics before anything starts, and for `lost_keys`, which is not tested),
`pthread_create()` and lock initialisation that fail, errors on the command line,
timing and printing.

### Shell and runcmd()

A command line is what `parsecmd()` returns, a sequence of stages; a stage is a
program under redirections, outermost first. `cmd[p]` is what process `p` still
has to run, `fds[p]` its descriptors, `pfd[p]` the array `p[2]`.

| Code | Actions |
| --- | --- |
| `getcmd()`, `fork1()` in `main()` | `GetCmd`, `GetCmdNoFork`, `MainExit` at end of file |
| `wait(&r)` | `MainReap`, `MainNoChild` |
| `runcmd()`: exec | `RunExec`, `RunExit` (no argument, or `execvp()` fails) |
| `runcmd()`: redirection | `RunRedir` (`close()` and `open()`, which may fail) |
| `runcmd()`: pipe | `RunPipe`, `RunFork` or `RunNoFork`, then `RunLeft` in the child and `RunRight` in the parent, at the same time |

The calls of `close()` and `dup()` are one step per process: they touch nothing
but the process's own table, except that other processes notice the last
`close()` of a pipe end, and those see the ends of two processes closed in
either order anyway.
Descriptors are chosen as the kernel chooses them, lowest first, since this is
what the code relies on. A table has six of them, `NOFILE` stands for the lack of
one; that a chain of pipes of any length never needs more, because `runcmd()`
closes both ends it does not use, is part of `TypeOK`.

Not the shell's code, and modelled from how it uses them: pipes of `CAPACITY`
items, SIGPIPE, init's adoption of orphans, and the programs (a source writes
`ITEMS` items, a filter copies, a head copies one item, and "none" cannot be
run). All redirections name one file, whose permissions are kept in `perm`.
Left out: `cd`, which only changes the directory of the shell; a failing
`pipe()`, after which the code reads an uninitialised array; the buffers of the
C library.

### ShellParser

A line is a sequence of character classes (white space, the three symbols,
anything else), a pointer is a position, a copied word is the position it starts
at. `gettoken()` and `peek()` are operators. The parsers share `ps`, and a step is
one round of one of their loops:

| Code | Actions |
| --- | --- |
| `parseredirs()` | `parseredirs` (a redirection and its file), `RedirsEnd` |
| `parseexec()` | `parseexec` (an argument, up to the call of `parseredirs()`) |
| `parsepipe()`, `pipecmd()` | `parsepipe` (a "\|", and the call for the next stage) |
| the returns, `parsecmd()` | `parsecmd` |

`parsepipe()` calls itself last, so its calls only stack up finished commands,
which `stages` holds; they become one tree when all of them return. A parse
error ends the process with a message (`Fail`). The reference defines the
language by sets of token positions, with no scanning state, so that the two
definitions share nothing but the classes.

### Uniq

A file is a sequence of characters, a line lacks the newline that `myreadline()`
puts at its end. `string_compare()` yields the set of answers that it can give:
with `-i` the copies are not terminated, without it the null of a copy is
written behind the array, where it does harm if the array fills its place on the
stack (`Defined`). All eight settings of the options are initial states. A line
number 0 in `output` stands for a line printed without a number. `FirstLine` is
the read of `uniq()`, `Round` and `DuplicateRound` are rounds of the loops of the
two modes, with the answer of the comparison as a parameter. The reference names
a line by the position of its first byte: `RunStarts` are the lines that differ
from the one before, `RunOf` the lines of a run, and `Lists` (of `Order`) says
that the output has one item for each of a set of positions, in their order.

### Syscall and syscall.c

One process makes system calls with arbitrary registers and arguments; an action
is one call, from the fetching of its arguments to its return. `sz` is
`proc->sz`, `mapped` the user memory that really has pages, `touched` the
addresses that the last call read or wrote for the user. Addresses are taken
modulo `2 * KERNBASE`, as in C they are modulo 2^32. `Inside` is the comparison
that `fetchint()` and `argptr()` share; a handler is what it fetches: nothing, an
int (`sys_kill`, `sys_sleep`, `sys_settickets`), a pointer to a date
(`sys_gettime`), a string (the file system calls), or the int of `sys_sbrk()`.
What the other calls do is the subject of `ProcTable`.

External: `allocuvm()` and `deallocuvm()`, from the results that `growproc()`
tests, and the page fault that ends a process whose memory is gone (`Faulted`).
Callers of `argptr()` with other sizes are in `sysfile.c`, which is empty here.
Left out: the values that `growproc()` returns, and `switchuvm()`, which reloads
the page table and changes nothing that is modelled. A process that has shrunk to
0 has no page left to execute and no stack, so the page fault comes before any
further call; this is an assumption about `trap.c` (the guard `Running`), and
neither `SizeAccounted` nor `AccessesMapped` says anything of the stale `proc->sz`
of such a process.

### LotteryTest

A fork that fails returns -1, which is not 0, so `main()` goes on as the parent;
`wait()` returns -1 at once without children; that it also does so for a killed
process does not matter, as nothing kills here. The program is stated over the
three operations of `ProcTree`, which `ProcTable` is proved to implement. What
the children do before they exit does not change the tree.

### Disk and final_project

The programs are run one after the other on one file, with any arguments. The
file is its length and the permission of its owner. A word is the offset of its
first byte, and a xor is the set of the words in it: xoring a word a second time
removes it, which is what the real operation does. `read()` is one step, and so
is a `pread()` with the xor of its words into the thread's own `xor`; `Join`
reads that after the thread has ended.

| Code | Actions |
| --- | --- |
| `main()` and `open()` of each program | `Main`, `FastMain`, `MultithreadedMain` |
| `disk_write()` | `Write` |
| `disk_read()` of `run`, `run_blocksize`, `fast` | `RunRead`, `BlocksizeRead`, `FastRead` |
| `disk_read()` of `part_4_lseek_run` | `Seek` |
| `disk_read()` and `thread_read()` of `run_multithreaded` | `Create`, `ThreadRead`, `Join` |

ints are `ToInt` with `INTLIMIT` for 2^31; overflow wraps around, as in the
unoptimised build of `build.sh`. A mode other than `r` and `w` does nothing and
has no action. Left out: wrong numbers of arguments, after which the code reads
past `argv`; block sizes below 1; `pthread_create()`, `malloc()` and `write()`
that fail.

## 3. Runs

| Run | Question | Result |
| --- | --- | --- |
| `proc_lifecycle` | Do fork, exit and wait, with failing allocations, conserve memory and implement the tree? `TypeOK`, `PagesConserved`, `OrphansAdopted`, `FilesReleased`, `ImplementsTree` | holds |
| `proc_kill` | With kill and settickets at any moment, negative tickets included: are stacks exclusive, exits and kills never missed by `wait()`, does the lottery's search find the winner, and has every process its share? `StackExclusive`, `NoLostChildExit`, `LotteryPicks`, `LotteryShares` | holds |
| `proc_sleep` | Is a tick ever lost, across the wrap-around of `ticks`, and does a killed process exit when it runs or sleeps in `sys_sleep()`, with the kill at any moment on another CPU? `NoLostTick`, `KilledExits` | holds |
| `proc_wait_liveness` | Does a `wait()` with a zombie child return, and does a process that is killed in `wait()` exit while its child lives on? `WaitCompletes`, `KilledExits` | holds |
| `proc_kill_target` | Is only the process with the given pid killed? `KillHitsTarget` | **violated**, finding 1 |
| `hash_locked` | Do the mutex and the spinlock program keep and retrieve all keys, and do they end? `TypeOK`, `LinkFresh`, `NoKeyLost`, `AllRetrieved`, `GetReadOnly`, `Terminates` | holds |
| `hash_unlocked` | Without locks: is the reported number true, and does the program end? `ReportExact`, `Terminates` | holds |
| `shell_lines` | Are pipe ends private, is `wait()` always for the right child, is the output complete at the prompt, and does every line and every program of it end, although forks and opens fail? `TypeOK`, `EndsPrivate`, `NoStrayChild`, `Composition`, `PromptReturns`, `ProgramsEnd` | holds |
| `shell_redir` | Is a file at the descriptor its redirection names? `RedirectionHits` | **violated**, finding 2 |
| `programs` | Do system calls stay inside mapped memory? `TypeOK`, `SizeAccounted`, `AccessesMapped`. Does the parser accept and build what the language says, and does `argv` fit? `ParserCorrect`, `ArgvFits`. Does `uniq` print each run of lines, do its counts add up, does `-d` find every run? `RunsPrinted`, `CountsAddUp`, `DuplicatesFound`. Do the readers of `final_project` cover every word once, stop where they should, and stop? `XorComplete`, `Position`, `Ends`. Does `lotterytest` collect its children and end? `NoChildLeft`, `TestEnds` | holds |
| `disk_write` | Has a written file the size that was asked for? `WriteSize` | **violated**, finding 4 |
| `uniq_dup` | Does `uniq -d` print a repeated line once? `DuplicatesOnce` | **violated**, finding 3 |

`hash_locked` and `programs` put programs that have nothing to do with each
other into one state space: the initial state chooses which of them runs.

Of the runs of `ProcTable`, `proc_kill` and `proc_kill_target` permute the
CPUs, which the specification never tells apart.

### Bounds

* `CPUS` has two members except in `proc_wait_liveness`: every race in this code
  is between two parties, and the lock is handed over between two.
* `NPROC = 4`, `MAXPID = 4` in `proc_lifecycle`: init, a child, a grandchild
  whose parent dies (so reparenting happens, of live and of zombie children),
  and one more fork at the same time. `NPAGES = 6` is less than the 8 pages that
  four processes need, so that both failures of fork happen, also while another
  fork is half done. `NPROC = 3` and `NPAGES = 5` in `proc_kill` give the same
  for three processes.
* `MAXPID` bounds the number of forks; slots are reused after a reap, since
  `MAXPID` forks fit into fewer slots when earlier children have been reaped.
* `TICKMOD = 2` with sleeps of 0 and 1 ticks in `proc_sleep`: a sleep starts at
  either value of `ticks`, so the difference wraps around, a sleeper that is
  scheduled too late sees no time elapsed and sleeps again, and a sleep of 0
  returns at once. A sleep of 1 may miss its only moment for ever, as a sleep of
  2^32 - 1 ticks may: a killed process is not saved by the end of its sleep and
  has to notice the kill. `TICKMOD = 1` elsewhere removes the clock's value from
  the state.
* `TicketArgs = {-1, 0, 2}` against one ticket of a new process in `proc_kill`:
  tickets grow, shrink, vanish and become negative between sum and search, and so
  do sums; `StrayDraws = {-1, 1}` has a number on either side of 0. `NPAGES = 5`
  allows two processes at a time; three with tickets like 20, -5 and 10, of which
  the last wins 5 numbers only, are left to the theorem.
* `TicketArgs = {}` in `proc_sleep` and `proc_wait_liveness`: with more tickets the
  temporal check takes too long. A process without tickets behind a runnable one
  is never drawn, killed or not, and neither is one behind a process with enough
  negative tickets. `WaitCompletes` and `KilledExits` exclude both (`tickets[p] > 0`,
  `InDebt`): they promise nothing to a process that has given up its tickets.
* `KillArgs` holds 0 and pids in use, stale and not yet in use.
* Hash table: four keys over two or three threads, so that some threads have
  two and the stride ends unevenly; two buckets and the key values 0, 1, 2, so
  that equal keys and different keys collide in a bucket.
* `Shell`: pipelines of one to three stages, so that a process is a reader, a
  writer and the parent of another; two lines over `NPROCS = 4`, so that `fork()`
  also fails because stages of the first line still run. `ITEMS = 2` with
  `CAPACITY = 1`: a source blocks when nobody reads, and a head leaves an item
  unread.
* `ShellParser`: all lines of up to `LINELEN = 6` of the five classes; six
  characters hold two redirections and an argument, or three stages.
  `MAXARGS = 3` stands for 10, so that the limit is met.
* `Uniq`: all files of up to `FILELEN = 5` characters over `a`, `A`, `b` and
  newline, which hold a run of five empty lines or of three lines with a letter,
  the last without a newline. `ALIGN = 3` stands for 16: lines of two letters are
  the ones whose comparison is undefined.
* `Syscall`: `KERNBASE = 8` with pages of four bytes, which hold the saved program
  counter and an argument of two bytes, and a date of three bytes: every stack
  pointer and every argument of the sixteen addresses, so every sum that wraps
  around; `sbrk()` reaches every size, in both pages, and zero.
* `LotteryTest`: init, the program and both children, `Slots` of four.
* `Disk`: words of two bytes, and files of 5 and 13 bytes or of what a first
  program writes, so that the last block is cut in a word and between words;
  blocks of 1, 2 and 5 bytes, so a block without a word, of one word, and of a size
  that is not a multiple of a word; one to three threads; 0, 3 and 11 blocks. An int
  has four bits (`INTLIMIT = 8`): 3 times 5 becomes negative, 2 times 11 becomes
  the positive 6 and 5 times 11 becomes 7, so that the loops have a wrong bound
  and the `sum` of `part_4_lseek_run`, which grows by 5, wraps around before it
  ends. `MAXRUNS = 2`: one program after another.

Deadlock is checked in every run; the end of a program and the halted machine
are explicit stuttering steps (`Ended`, `Over`, `Halted`).

### Fairness

`ProcTable!FairSpec`:

* weak fairness of the scheduler's own steps and of the steps that follow a
  `swtch()`: a CPU that is not halted executes, and interrupts end `hlt`;
* strong fairness of `DrawnBy(c, p)` for each process, over all CPUs: the number
  drawn by `random_at_most` has a positive chance for every value, so a process
  that can win infinitely many draws wins infinitely many, with probability 1.
  It does not hold for a process that can win no draw, and the formula does not
  assume it: `DrawnBy` is not enabled then, as for a process without tickets
  behind a runnable one;
* strong fairness of each process's steps inside the kernel, which are enabled
  only while it is on a CPU and the spinlock it wants is free (xv6's spinlocks
  are assumed to be starvation free);
* strong fairness of the clock's steps and of preemption.

No fairness is assumed of a user program: it need never call `wait()` or
`exit()`, unless it was killed.

`HashTable!FairSpec`: weak fairness of `main()` and of each thread, which is the
operating system's scheduling. Acquiring a lock needs no more: each thread inserts
finitely many keys, so a waiting thread's lock is eventually free for good.

`Shell!FairSpec`: weak fairness of each process and of the shell's `wait()`, which
is again the operating system's scheduling. Nobody has to type a line.

`DiskFairness`: weak fairness of `main()` and of each thread, the operating
system's scheduling. `LotteryTest!TestFairness`: weak fairness of `main()` and of
each child, whose `spin()` is a finite loop; on xv6 it rests on the tickets, of
which both children have some.

### Findings

1. `kill()` compares the pid of every slot, whatever its state
   (`proc.c:456`), and `killed` is only reset in `wait()`. `kill(0)` finds a free
   slot, marks it and reports success, and the next process that `fork()` puts
   into this slot exits at its first trap although nobody killed it. After a
   failed `fork()` a free slot even keeps the pid it had.
2. `runcmd()` does not test `open()` (`shell.c:80`). With an input redirection
   around an output redirection, a failed input leaves descriptor 0 free and the
   output file becomes standard input.
3. `uniq -d` clears its flag on the third of equal lines and prints the run again
   on the fourth (`uniq.c:94` to `:101`).
4. `disk_write()` does not truncate the file (`run.c:22` and its copies), so that a
   longer file keeps its size; and the mode 777 is decimal, so that a user who is
   not root cannot write a second time to a file that these programs created.
   `final_project/README.md:58` promises a file of `block_size * block_count`.

More disagreements can be read off the model and have no run of their own:

* `insert()` without a lock loses entries that were inserted
  (`parallel_hashtable.c:37` and `:40`): `AllRetrieved` and `NoKeyLost` fail with
  `Locking = "none"`; `hash_unlocked` shows what still holds then.
* `fork1()` does not exit on failure as its declaration says (`shell.c:40`): it
  returns -1, its callers take that for the parent's side (`GetCmdNoFork`,
  `RunNoFork`), and the right side of a pipe runs without the left.
* The mode 777 of `open()` in `shell.c:80` is decimal too (`CreateMode`), contrary
  to the comment at `shell.c:79`: a second redirection into the file fails.
* `final_project/README.md:48` says that the block size does not matter to
  `run_multithreaded` in read mode. With fewer than 4 bytes a block has no word and
  nothing is read, and when `thread_num * block_size` overflows an int, a thread
  starts at a wrong offset; `XorComplete` excludes both.
* `growproc()` (`proc.c:115`: "Return 0 on success, -1 on failure") returns 0 and
  does nothing when it should shrink by more than the size, since the sum wraps
  around; and it returns -1 after it has freed everything when it should shrink to
  0, with the old size still in `proc->sz`. The second is harmless to the kernel
  only if the process cannot make another system call, which the model assumes
  (section 2, Syscall) and no property checks.

## 4. Proofs

The theorems hold for every value of the constants that the modules' assumptions
allow: any number of slots, CPUs, pages, threads, buckets and keys, any contents
of `keys[]`, any command lines, any size of addresses, files, lines, blocks and words.
The assumptions stand in the modules that declare the constants, and TLC
evaluates them on every instance:

* `ConstantsAssumption` (`ProcTable`), `HashAssumption`, `SyscallAssumption`,
  `ParserAssumption`, `UniqAssumption`: the sizes are positive numbers, the longest
  line and the longest file may also be empty; the arguments of `settickets()` and
  the stray draws are any integers;
* `ShellAssumption`: the command lines are sequences of stages, each with a
  program and a sequence of redirections of 0 and 1;
* `TestAssumption` (`LotteryTest`): init and the program have different slots;
* `DiskAssumption`: words, ints and blocks have a positive size, a block of
  `fast` holds a word, and the numbers of threads have a maximum.

### The process table

**`ProcTableProofs!TypeCorrect`**: `TypeOK` is inductive by itself. The work is
in `Exit`, whose new states come from up to two calls of `Wakeup1`.

**`ProcTableProofs!StacksAreExclusive`**: `StackExclusive` is not inductive: it
says nothing of states and locks. The inductive invariant `Inv` adds

* `OnCpu`: which control points of a CPU imply that it holds `ptable.lock`, and
  which states the process on it can be in. In particular a CPU that still
  stands on the stack of a process that is no longer RUNNING holds the lock.
  This is why neither `Dispatch` nor `WaitReap`, which need the lock, can touch
  a stack in use;
* `OneCpu`: two CPUs never have the same process;
* `Forking`: a slot that a fork is filling in is an EMBRYO that belongs to one
  process, has its stack from "copyuvm" on and its parent from "publish" on;
* `StackOwned`: what is neither UNUSED nor EMBRYO has a stack;
* `InitStays`: init does not get past the panic in `exit()`.

The other theorems about the table start from `Inv`.

**`ProcTableProofs!Refinement`**: `Spec => ImplementsTree`. `ForkPublish`
maps to `Spawn` (needs `Forking`: the parent field is the caller, the slot is an
EMBRYO), `Exit` to `Die` (needs `InitStays`), `WaitReap` to `Collect`, and every
other step leaves status and parent unchanged.

**`ProcTableProofs!OrphansAreAdopted`, `ChildExitsAreSeen`**:
`OrphansAdopted` and `NoLostChildExit`. They need each other and the pids, so
`FamilyInv` has both, and

* `InitLives`: init is alive with pid 1, so that `exit()` gives children to a
  live parent that is older than they are;
* `PidsBelow`: `nextpid` is larger than every pid;
* `EmbryoYounger`: the slot of a fork in progress is younger than the caller, and
  has no parent until `copyuvm()` has succeeded. Without this a failing fork
  would leave a free slot that is somebody's child.

That the parent of a process is alive is also why `exit()` wakes up a process
that can be asleep in `wait()`: the sleeper that `NoLostChildExit` speaks of is
the one whose channel the exiting child passes to `Wakeup1`. A new child is made
by a process that runs, so it takes nothing from a sleeper.

**`ProcTableResourceProofs!PagesAreConserved`, `FilesAreReleased`**:
`PagesConserved` speaks of free slots only; that it stays true when a fork fails
needs what the slot in progress owns at each of its points (`EmbryoOwns`), that
a process has its page directory until it is reaped (`SlotOwns`), and, for the
files, that `exit()` has closed them from its control point "exit" on
(`ExitClosed`). The balance itself is about cardinalities: each step that takes
or frees a page adds one slot to, or removes one from, one of two finite sets.

**`ProcTableResourceProofs!TicksAreSeen`**: `NoLostTick`. `TickHeld`: between
the test in `sys_sleep()`'s loop and `sched()` the process holds `tickslock`, so
that the tick cannot change between the test and the sleep. A process that comes
back from `sched()` must not be taken for one that is in that part, which needs
`Saved`: a process that was preempted in user mode, or that never ran, has its
context in `yield()` or `forkret()` and is outside.

**`ProcTableResourceProofs!SharesAreFair`, `DrawsAreFound`**: `LotteryShares` and
`LotteryPicks`. Both are about sums over the table, which the model computes with
a fold. The induction theorems of the library cannot be used, since they take an
operator as parameter. The proofs state induction with sets instead: a set of
numbers with 0 and all successors is `Nat`, a family of sets of slots that has
every set whose smaller sets it has is all sets (`NumberInduction` of
`OrderProofs`, `SlotInduction`, from the well-foundedness of <). This gives the equations of the
fold of a sum, and from them: the second loop's running sum before a slot differs
from that at the slot by the tickets of the slot (`CounterBefore`), whatever the
signs. The numbers won by a slot lie between the two (`WonWithin`), so there are no
more of them than tickets (plus 1 for the first slot, because the draw counts from
0 and the comparison is >=), and none if the tickets are negative. Where no tickets
are negative the running sum never falls (`CounterGrows`), and the slot wins all the
numbers in between (`WonAll`). `SharesAreFair` needs only type
correctness. `DrawsAreFound` needs `Drawn`: a number that is drawn is at most the
sum of the tickets until the search is over, if that sum is not negative. Steps of other CPUs in between keep
it because what enters or leaves the RUNNABLE processes does so under
`ptable.lock`, and `settickets()`, which takes no lock, changes the tickets of a
RUNNING process.

### The hash tables

**`HashTableProofs!HeadsAreFresh`, `KeysAreKept`, `KeysAreRetrieved`**: with
either lock, `LinkFresh`, `NoKeyLost` and `AllRetrieved`. The inductive invariant
adds the lock that each thread inside `insert()` holds (`LockHeld`), the indexes a
thread owns by the stride of its loop (`OwnIndex`) and which of them it has
inserted so far (`Progress`), that the inserted entries are closed under `next`
(`InsertedClosed`), where threads can be in each of `main()`'s loops (`Phases`),
and that the key a walking thread looks for is still ahead of it (`Walking`).
Reachability along `next` is defined through closed sets (`OnChain`) and not by
recursion, so that what a store does to it is a lemma about sets; the stride
needs four lemmas about `%`.

**`HashTableProofs!TypeCorrect`, `GetPhaseReadsOnly`, `ReportIsExact`**: `TypeOK`,
`GetReadOnly` and `ReportExact` for all three programs, the one without locks
too. `BaseInv` is the part of the invariant that needs no lock (`TypeOK`,
`OwnIndex`, `Phases`). `ReportInv` adds that a thread of the get phase has counted
the lost keys among the indexes of its stride that are behind it (`Counted`), that
from where it stands it finds its key iff that is not lost (`Searching`), and that
`main()` has the sum over the threads it has joined (`AddedUp`). The counts are
cardinalities of disjoint sets, and their union over all threads is the set of
lost keys because every index is in one stride. So the unlocked program may lose
keys, but what it reports is the truth.

### The shell

**`ShellProofs!NoStrayChildren`**: `NoStrayChild` for any command lines and any
number of processes, with failing forks and opens. The inductive invariant
`ChildInv` adds that the shell never has two children, that it has none unless
it is in `wait()`, and that the parents are in range; this is why `wait()`
returns the child of the current line, and returns at once when `fork()`
failed.

**`ShellProofs!TypeCorrect`, `EndsArePrivate`**: `TypeOK` and `EndsPrivate` for
pipelines of any length. Type correctness needs that `pipe()` finds two free
descriptors, so it needs the shape of every table (`Shape`): which of the
descriptors 0 to 4 are open at each control point, and that an end of a pipe is
at 0, at 1 or, while a pipe is set up, at 3 and 4. Several processes hold the
same end between `fork()` and `close()`. `OneEach` therefore says who
*will* use it: an end is the future stdin or stdout of exactly one process
(`Reader`, `Writer`), counting for a process about to fork what it is about to
give to its children.

**`ShellProofs!OutputIsComposed`**: `Composition`, for any command lines and any
interleaving of the stages. That the output is complete when `main()` prompts
says nothing about the steps before, and what a pipe holds at a moment depends on
how far the stages on both sides are. `FlowInv` therefore speaks of the future:
there is a `flow`, a number for each pipe of the items still to be read from it,
those not yet written included. `PipeFlow` determines it: a pipe that will be read
carries what it holds and what its writer, after its own input, will still write.
`MainFlow` then says what the child of `main()` owes: until it starts its program
its input will carry what the stages on its left compose to, and from then on the
terminal has, with what it will still write, the output of the whole line. The
invariant needs `OneEach`, since a flow must not be counted twice and a pipe with
a second writer would carry more, and `Roles`: only the child of `main()` writes
to the terminal, all others to a pipe or a file. A process that ends early (a
head, a program killed by SIGPIPE) leaves items that nobody reads: the flow
constrains only the pipes that somebody is meant to read.
`Written` is a recursive function; that it exists is shown by induction.

### The parser of the shell

**`ParserProofs!ParserIsCorrect`**: `ParserCorrect`, for lines of every length.
It speaks of the end of a parse. `ParseInv` says what has been done at a position:
the position is not inside a word (`Border`), none of the tokens before it
(`Done`) is an error, the finished stages have exactly the arguments and files of
their numbers, the current command those before the position (`Made`). It also
says that no redirection is the last token done, since it is read together with
its file: without this the next word could be the file of a redirection, and
`parseexec()` takes it for an argument. And `parseexec()` starts where no
redirection follows, so its "syntax error" cannot happen, as the proof shows, and
neither can "leftovers". Each step is a lemma on constants (`RedirStep`,
`RedirFails`, `ArgStep`, `ArgFails`, `PipeStep`, `EndStep`), from what `gettoken()`
finds (`Token`, `Advance`). That an argument is one too many in the parser's count
iff it is in the language's is a fact about ranks (`ArgRank`).

**`ParserProofs!ArgvAlwaysFits`**: `ArgvFits`, which is inductive with the types
of the commands.

### uniq

**`UniqProofs!AllLinesCounted`**: `CountsAddUp`, also where the comparison is
undefined. `ReaderInv` says that the offset is always the first byte of a line or
the end of the file, so that each call of `myreadline()` adds one line to those
read. The total of the printed counts is a recursive function on the output; that
it exists and what `Append` does to it is shown by induction (`Sums`).

**`UniqProofs!RunsArePrinted`, `DuplicatesAreFound`**: `RunsPrinted` and
`DuplicatesFound`, where the comparison is defined. `RunInv`: there is a run that
is being read, all of its lines so far equal `last_line`, and no run starts after
it among the lines read (`InRun`). Without `-d` the runs before it have been
printed, and `dupe_count` is the number of its lines so far (`RunsSoFar`); with
`-d` the second lines read so far have been printed, and `dupe_found` is the parity
of the number of lines of the run (`SecondsSoFar`). The last is what finding 3 rests
on.

### The smaller programs

**`ProgramsProofs!TypeCorrect`, `SizesAreAccounted`, `AccessesAreMapped`**:
`TypeOK`, `SizeAccounted` and `AccessesMapped` of `Syscall`, for every `KERNBASE`, page size and size of the arguments. The inductive invariant
`SizeInv` adds that the size is between 1 and `KERNBASE - 1`. This is why the
checks suffice: an address below the size plus at most `KERNBASE` bytes does not
reach `2 * KERNBASE`, so the sum is not reduced. The size stays there because
`growproc()` ignores the result 0, and memory stays accounted for because rounding
up gives 0 only for 0.

**`ProgramsProofs!NoChildIsLeft`**: `NoChildLeft`. `KidsInv` bounds the number of
children at each point of `main()`: at most two before the first `wait()`, at most
one before the second. A `wait()` that returns -1 had none.

**`ProgramsProofs!XorIsComplete`, `PositionsAreRight`**: `XorComplete` and
`Position`, for every length of the file. The invariant `DiskInv` says of each
program what it has xored so far: the words before the file offset, which is at
the border of a word until the end of the file (`FastXor`, `CountXor`); for each
thread of `run_multithreaded` the words of the blocks of its stride that it has
read (`ThreadXor`), and for `main()` the union of the threads it has joined. Xor
is a symmetric difference, so it equals the union only because these sets are
disjoint; that is a lemma about strides. `SeekPos` relates the counter of
the lseek loop to the offset modulo the size of an int. The proofs need that
conversion to int is additive (`ToIntSum`) and the identity in its range
(`ToIntSame`).

### Only model-checked

Every invariant and action property that a passing run checks, and the refinement
of `ProcTree`, is also proved. What rests on TLC alone are the liveness properties
`WaitCompletes`, `KilledExits`, `Terminates`, `PromptReturns`, `ProgramsEnd`, `Ends`
and `TestEnds`: they depend on fairness and on when actions are enabled, which is
out of the prover's reach. `WaitCompletes` and `KilledExits` are checked with the
tickets that processes are born with. So does everything that the runs with a violation show,
which are counterexamples.

## 5. Plan

Every program of the repository has a module, and every safety property of the
passing runs a proof. What a later extension could add is listed in section 6: the
behaviour of the C library under the shell, and the failures of `pipe()` and
`pthread_create()`.

## 6. Not modelled

* `hw3/sysfile.c` is empty. `procdump()`, `sys_getpid()` and `sys_uptime()` read
  without effect. The headers and `usys.S` are declarations and stubs.
* Sums of tickets over INT_MAX. `random_at_most()` of a negative sum is outside its
  domain, `rand.h` is not in the repository, and its result is any of `StrayDraws`.
* Undefined behaviour that has no bounded set of outcomes: lines longer than
  `uniq`'s buffers, `uniq` without a file name, `p[]` after a failing `pipe()`,
  joining a thread that was not created.
* The C library under the shell: `fgets()` splitting a line of 100 characters,
  and the offset of a seekable standard input that `exit()` moves. `cd` changes
  only the directory of the shell.
* The benchmark scripts start and time other programs, and
  `benchmark_extra_cred.cpp` times the loops of `run.c`.
