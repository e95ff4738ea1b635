-------------------------------- MODULE Disk --------------------------------
(***************************************************************************)
(* The programs of final_project, run one after the other on one file:     *)
(* run, run_blocksize, fast, part_4_lseek_run and run_multithreaded.  A    *)
(* file is its length, and a word of it is the offset of its first byte.   *)
(* The xor of words is the set of those it contains, so that a word xored  *)
(* twice disappears, as it does in C.  read() and pread() return less than *)
(* a block at the end of the file only.                                    *)
(***************************************************************************)
EXTENDS Integers, FiniteSetsExt

CONSTANTS
  WORD,              \* sizeof(unsigned int), reduced
  INTLIMIT,          \* INT_MAX + 1, reduced
  FASTBLOCK,         \* the block size of fast.c, 4096 there
  Lengths,           \* lengths of the file before the first run
  BlockSizes, BlockCounts, ThreadCounts,      \* the arguments
  MAXRUNS            \* bound: how many programs are run

\* Words and ints have a size, a block of fast holds a word, blocks are not
\* empty, and one of the numbers of threads is the largest.
ASSUME DiskAssumption ==
  /\ WORD \in Nat \ {0} /\ INTLIMIT \in Nat \ {0}
  /\ FASTBLOCK \in Nat /\ FASTBLOCK >= WORD
  /\ Lengths \subseteq Nat
  /\ BlockSizes \subseteq Nat \ {0} /\ BlockCounts \subseteq Nat
  /\ ThreadCounts \subseteq Nat
  /\ \E m \in ThreadCounts : \A n \in ThreadCounts : m >= n

Threads  == 0..(Max(ThreadCounts) - 1)
NoFile   == -1

VARIABLES
  file,        \* the length of the file, or NoFile
  writable,    \* its mode lets its owner write to it
  root,        \* the user may write to every file
  prog, mode, block_size, block_count, num_threads,
  fd,          \* open() succeeded
  pos,         \* the file offset
  count,       \* blocks counted; the bytes "sum" of lseek; i of main's loops
  xor,
  tpc, tcount, txor,      \* the threads: where, count, t_arg->xor
  pc, runs

arguments  == <<prog, mode, block_size, block_count, num_threads>>
fileVars   == <<file, writable, root>>
threadVars == <<tpc, tcount, txor>>
diskVars == <<fileVars, arguments, fd, pos, count, xor, threadVars, pc, runs>>

ToInt(x) == ((x + INTLIMIT) % (2 * INTLIMIT)) - INTLIMIT
Xor(s, t) == (s \ t) \cup (t \ s)

\* What read() or pread() of n bytes at offset i returns.
Read(n, i) ==
  IF ~fd \/ i < 0 THEN -1 ELSE Max({0, Min({n, file - i})})

\* xorbuf() of the whole words among the r bytes that were read at offset i.
xorbuf(i, r) == {i + WORD * k : k \in 0..(r \div WORD - 1)}

DiskInit ==
  /\ file \in Lengths \cup {NoFile} /\ writable = TRUE /\ root \in BOOLEAN
  /\ prog = "run" /\ mode = "r" /\ block_size = 0 /\ block_count = 0
  /\ num_threads = 0
  /\ fd = FALSE /\ pos = 0 /\ count = 0 /\ xor = {}
  /\ tpc = [t \in Threads |-> "none"] /\ tcount = [t \in Threads |-> 0]
  /\ txor = [t \in Threads |-> {}]
  /\ pc = "exit" /\ runs = 0

\* open() in disk_read() or disk_write(), and the locals of a program that
\* starts at point start.  The mode 777 is decimal: the owner of a new file may
\* read it only.
Open(p, m, start) ==
  /\ pc = "exit" /\ runs < MAXRUNS /\ runs' = runs + 1
  /\ prog' = p /\ mode' = m /\ pc' = start
  /\ fd' = IF m = "r" THEN file # NoFile ELSE file = NoFile \/ writable \/ root
  /\ IF m = "w" /\ file = NoFile THEN file' = 0 /\ writable' = FALSE
                                 ELSE UNCHANGED <<file, writable>>
  /\ pos' = 0 /\ count' = 0 /\ xor' = {}
  /\ tpc' = [t \in Threads |-> "none"] /\ tcount' = [t \in Threads |-> 0]
  /\ txor' = [t \in Threads |-> {}]
  /\ UNCHANGED root

Arguments(bs, bc, n) == block_size' = bs /\ block_count' = bc /\ num_threads' = n

\* main() of run, run_blocksize and part_4_lseek_run.
Main(p, m, bs, bc) ==
  /\ Open(p, m, IF m = "w" THEN "write" ELSE p)
  /\ Arguments(bs, bc, 0)

\* main() of fast, which only reads.
FastMain == Open("fast", "r", "fast") /\ Arguments(FASTBLOCK, 0, 0)

\* main() of run_multithreaded.
MultithreadedMain(m, bs, bc, n) ==
  /\ Open("multithreaded", m, IF m = "w" THEN "write" ELSE "create")
  /\ Arguments(bs, bc, n)

\* disk_write(): one round of the loop.  Nothing is truncated, and the result
\* of write() is not looked at.
Write ==
  /\ pc = "write"
  /\ IF count < block_count
     THEN /\ file' = IF fd THEN Max({file, pos + block_size}) ELSE file
          /\ pos' = IF fd THEN pos + block_size ELSE pos
          /\ count' = count + 1 /\ UNCHANGED pc
     ELSE pc' = "exit" /\ UNCHANGED <<file, pos, count>>
  /\ UNCHANGED <<writable, root, arguments, fd, xor, threadVars, runs>>

\* The bytes of a block where words are xored: whole words.
BlockBytes == (block_size \div WORD) * WORD

\* The condition of a reader's loop reads n bytes; with a result of r bytes the
\* loop goes on if more holds.
HasRead_Nothing(r) == r >= 0
HasRead(r) == r > 0
ReadLoop(n, more) ==
  LET r == Read(n, pos)
  IN /\ pos' = IF r > 0 THEN pos + r ELSE pos
     /\ pc' = IF HasRead(r) /\ more THEN pc ELSE "exit"
     /\ UNCHANGED <<fileVars, arguments, fd, threadVars, runs>>

\* xor ^= xorbuf(buf, read_size) in the body, if the loop goes on.
XorBlock ==
  xor' = IF pc' = pc THEN Xor(xor, xorbuf(pos, Read(BlockBytes, pos))) ELSE xor

\* disk_read() of run.
RunRead ==
  pc = "run" /\ ReadLoop(block_size, TRUE) /\ UNCHANGED <<count, xor>>

\* disk_read() of fast.
FastRead ==
  pc = "fast" /\ ReadLoop(BlockBytes, TRUE) /\ XorBlock /\ UNCHANGED count

\* disk_read() of run_blocksize, which reads a block before it looks at count.
MoreBlocks_OneTooMany == count <= block_count
MoreBlocks == count < block_count
BlocksizeRead ==
  /\ pc = "run_blocksize" /\ ReadLoop(BlockBytes, MoreBlocks) /\ XorBlock
  /\ count' = IF pc' = pc THEN count + 1 ELSE count

\* disk_read() of part_4_lseek_run: one round; the condition is in ints.
SeekMore_Equal(sum) == sum <= ToInt(block_count * block_size)
SeekMore(sum) == sum < ToInt(block_count * block_size)
Seek ==
  /\ pc = "lseek"
  /\ IF SeekMore(count)
     THEN /\ pos' = IF fd THEN pos + block_size ELSE pos
          /\ count' = ToInt(count + block_size) /\ UNCHANGED pc
     ELSE pc' = "exit" /\ UNCHANGED <<pos, count>>
  /\ UNCHANGED <<fileVars, arguments, fd, xor, threadVars, runs>>

-----------------------------------------------------------------------------
\* disk_read() of run_multithreaded: the threads are created in order.
Create ==
  /\ pc = "create"
  /\ IF count < num_threads
     THEN /\ tpc' = [tpc EXCEPT ![count] = "pread"] /\ count' = count + 1
          /\ UNCHANGED pc
     ELSE pc' = "join" /\ count' = 0 /\ UNCHANGED tpc
  /\ UNCHANGED <<fileVars, arguments, fd, pos, xor, tcount, txor, runs>>

\* The offset of a thread: an int product at first, in unsigned longs later.
Offset_NoStride(t) == (tcount[t] + t) * BlockBytes
Offset(t) ==
  IF tcount[t] = 0 THEN ToInt(t * BlockBytes)
                   ELSE (num_threads * tcount[t] + t) * BlockBytes

\* thread_read(): one pread() and the xor of its words.
ThreadRead(t) ==
  /\ tpc[t] = "pread"
  /\ LET r == Read(BlockBytes, Offset(t))
     IN IF r > 0
        THEN /\ txor' = [txor EXCEPT ![t] = Xor(@, xorbuf(Offset(t), r))]
             /\ tcount' = [tcount EXCEPT ![t] = @ + 1]
             /\ UNCHANGED tpc
        ELSE /\ tpc' = [tpc EXCEPT ![t] = "done"]
             /\ UNCHANGED <<tcount, txor>>
  /\ UNCHANGED <<fileVars, arguments, fd, pos, count, xor, pc, runs>>

\* pthread_join() of the next thread, and its part of the xor.
Join ==
  /\ pc = "join"
  /\ IF count < num_threads
     THEN /\ tpc[count] = "done"
          /\ xor' = Xor(xor, txor[count]) /\ count' = count + 1 /\ UNCHANGED pc
     ELSE pc' = "exit" /\ UNCHANGED <<xor, count>>
  /\ UNCHANGED <<fileVars, arguments, fd, pos, threadVars, runs>>

Over == pc = "exit" /\ runs = MAXRUNS /\ UNCHANGED diskVars

Step == Write \/ RunRead \/ FastRead \/ BlocksizeRead \/ Seek \/ Create \/ Join

DiskNext ==
  \/ FastMain
  \/ \E m \in {"r", "w"}, bs \in BlockSizes, bc \in BlockCounts :
       \/ \E p \in {"run", "run_blocksize", "lseek"} : Main(p, m, bs, bc)
       \/ \E n \in ThreadCounts : MultithreadedMain(m, bs, bc, n)
  \/ Step
  \/ \E t \in Threads : ThreadRead(t)
  \/ Over

DiskSpec == DiskInit /\ [][DiskNext]_diskVars

\* The operating system runs the program and each of its threads.
DiskFairness ==
  WF_diskVars(Step) /\ \A t \in Threads : WF_diskVars(ThreadRead(t))

-----------------------------------------------------------------------------
Done  == pc = "exit" /\ runs > 0 /\ fd
Words == xorbuf(0, file)

\* Each word of the file is in the result exactly once: of the whole file for
\* fast and, however the threads interleave, for run_multithreaded, if a block
\* has a word and the first offsets fit into an int; of the first block_count
\* blocks for run_blocksize, which reads one block more than it counts.
XorComplete ==
  Done /\ mode = "r" =>
    /\ prog = "fast" => xor = Words
    /\ prog = "run_blocksize" =>
         xor = {w \in Words : w < block_count * BlockBytes}
    /\ /\ prog = "multithreaded" /\ num_threads > 0 /\ BlockBytes > 0
       /\ (num_threads - 1) * BlockBytes < INTLIMIT
       => xor = Words

\* run ends at the end of the file, and the lseek loop behind the last block
\* unless the size overflows an int; it never goes further.
Position ==
  Done /\ mode = "r" =>
    /\ prog = "run" => pos = file
    /\ prog = "lseek" =>
         /\ pos <= block_count * block_size
         /\ block_count * block_size < INTLIMIT => pos = block_count * block_size

\* Every program that is started ends, also when the sizes overflow.
Ends == pc # "exit" ~> pc = "exit"

\* "We will write pre-defined repeated characters to a file of size block_size *
\* block_count", also when the file is there already.
WriteSize ==
  pc = "exit" /\ runs > 0 /\ mode = "w" => file = block_size * block_count
=============================================================================
