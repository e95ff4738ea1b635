----------------------------- MODULE ShellProofs -----------------------------
(***************************************************************************)
(* main() of the shell is never out of step with its children, no program  *)
(* is given a stray end of a pipe, and when main() prompts the terminal    *)
(* has what the stages of the line compose to: for every set of command    *)
(* lines, every number of processes and every size of a pipe.              *)
(***************************************************************************)
EXTENDS Shell, OrderProofs

\* main() has at most one child, and only while it waits.
ChildInv ==
  /\ parent \in [Procs -> Procs \cup {Main, InitP}]
  /\ \A p, q \in Procs : parent[p] = Main /\ parent[q] = Main => p = q
  /\ main_pc # "wait" => \A p \in Procs : parent[p] # Main

\* The shell and init are not among the processes.
LEMMA Outsiders == Main \notin Procs /\ InitP \notin Procs /\ Main # InitP
  BY ShellAssumption DEF Main, InitP, Procs

\* The shell starts without children.
LEMMA InitChild == Init => ChildInv
  BY Outsiders DEF Init, ChildInv

\* A step in which every process keeps its parent or is given one other than
\* main() preserves the invariant.
LEMMA KeepsChild ==
  ASSUME ChildInv, UNCHANGED main_pc,
         parent' \in [Procs -> Procs \cup {Main, InitP}],
         \A q \in Procs : parent'[q] = Main => parent[q] = Main
  PROVE  ChildInv'
  BY DEF ChildInv

\* exit() gives children away to init.
LEMMA ExitChild ==
  ASSUME ChildInv, NEW p \in Procs, Exit(p)
  PROVE  ChildInv'
<1>1. parent' = [q \in Procs |-> IF parent[q] = p THEN InitP ELSE parent[q]]
  BY DEF Exit
<1>2. UNCHANGED main_pc
  BY DEF Exit, shellVars
<1>3. parent' \in [Procs -> Procs \cup {Main, InitP}]
  BY <1>1 DEF ChildInv
<1>4. ASSUME NEW q \in Procs, parent'[q] = Main PROVE parent[q] = Main
  BY <1>1, <1>4, Outsiders
<1> QED BY <1>2, <1>3, <1>4, KeepsChild

\* A child that runcmd() forks is the child of a process, not of main().
LEMMA ForkChild ==
  ASSUME ChildInv, NEW p \in Procs, NEW q \in Procs, RunFork(p, q)
  PROVE  ChildInv'
<1>1. parent' = [parent EXCEPT ![q] = p]
  BY DEF RunFork, Child
<1>2. UNCHANGED main_pc
  BY DEF RunFork, shellVars
<1>3. parent' \in [Procs -> Procs \cup {Main, InitP}]
  BY <1>1 DEF ChildInv
<1>4. ASSUME NEW r \in Procs, parent'[r] = Main PROVE parent[r] = Main
  BY <1>1, <1>4, Outsiders DEF ChildInv
<1> QED BY <1>2, <1>3, <1>4, KeepsChild

\* Every step of a process preserves the invariant.
LEMMA ProcChild ==
  ASSUME ChildInv, NEW p \in Procs, ProcStep(p)
  PROVE  ChildInv'
<1>1. CASE RunExit(p) \/ ProgExit(p) \/ ProgKilled(p)
  BY <1>1, ExitChild DEF RunExit, ProgExit, ProgKilled
<1>2. CASE \E q \in Procs : RunFork(p, q)
  BY <1>2, ForkChild
<1>3. CASE \/ RunExec(p) \/ RunNoFork(p) \/ RunLeft(p) \/ RunRight(p)
           \/ \E ok \in BOOLEAN : RunRedir(p, ok)
           \/ \E k \in Pipes : RunPipe(p, k)
           \/ ProgRead(p) \/ ProgWrite(p)
  <2>1. UNCHANGED <<parent, main_pc>>
    BY <1>3 DEF RunExec, RunNoFork, RunLeft, RunRight, RunRedir, RunPipe,
                ProgRead, ProgWrite, shellVars
  <2> QED BY <2>1 DEF ChildInv
<1> QED BY <1>1, <1>2, <1>3 DEF ProcStep

\* Every step of main() preserves the invariant: it forks only when it has no
\* child, and prompts only when wait() has returned the one it had.
LEMMA MainChild ==
  ASSUME ChildInv, MainStep
  PROVE  ChildInv'
<1>1. ASSUME NEW l \in Lines, NEW q \in Procs, GetCmd(l, q) PROVE ChildInv'
  <2>1. parent' = [parent EXCEPT ![q] = Main] /\ main_pc = "prompt"
        /\ main_pc' = "wait"
    BY <1>1 DEF GetCmd, Child
  <2> QED BY <2>1 DEF ChildInv
<1>2. ASSUME NEW l \in Lines, GetCmdNoFork(l) PROVE ChildInv'
  BY <1>2 DEF GetCmdNoFork, ChildInv
<1>3. ASSUME NEW p \in Procs, MainReap(p) PROVE ChildInv'
  <2>1. parent' = [parent EXCEPT ![p] = InitP] /\ parent[p] = Main
    BY <1>3 DEF MainReap
  <2>2. \A q \in Procs : parent'[q] # Main
    BY <2>1, Outsiders DEF ChildInv
  <2>3. parent' \in [Procs -> Procs \cup {Main, InitP}]
    BY <2>1 DEF ChildInv
  <2> QED BY <2>2, <2>3 DEF ChildInv
<1>4. CASE MainNoChild
  BY <1>4 DEF MainNoChild, NoChild, ChildInv
<1>5. CASE MainExit
  BY <1>5 DEF MainExit, ChildInv
<1> QED BY <1>1, <1>2, <1>3, <1>4, <1>5 DEF MainStep, MainWait

\* When main() prompts, wait() has returned the child of the last line: no
\* failure of fork() or open() makes it wait for the wrong one later.
THEOREM NoStrayChildren == Spec => []NoStrayChild
<1>1. ChildInv /\ [Next]_vars => ChildInv'
  <2> SUFFICES ASSUME ChildInv, [Next]_vars PROVE ChildInv'
    OBVIOUS
  <2>1. CASE Ended \/ UNCHANGED vars
    BY <2>1 DEF Ended, vars, shellVars, ChildInv
  <2> QED BY <2>1, ProcChild, MainChild DEF Next
<1>2. ChildInv => NoStrayChild
  BY DEF ChildInv, NoStrayChild
<1> QED BY <1>1, <1>2, InitChild, PTL DEF Spec
-----------------------------------------------------------------------------
(***************************************************************************)
(* The descriptors.                                                        *)
(***************************************************************************)

\* The commands are what is left of the line.
CmdType == cmd \in [Procs -> Seq(Stages)]

\* The three standard descriptors are open, as they are before redirections.
AllOpen(f) == f[0] # Closed /\ f[1] # Closed /\ f[2] # Closed

\* The table f of a process at point at, with command c and pipe array pf.  A
\* pipe is at 3 and 4 while it is being set up; an end of one is else only at
\* 0 (to read) and at 1 (to write).
ShapeOf(at, f, c, pf) ==
  /\ f[0].end # "w" /\ f[1].end # "r" /\ f[2].end \notin {"r", "w"}
  /\ f[5] = Closed
  /\ at \in {"free", "zombie"} => \A d \in FD : f[d] = Closed
  /\ at \in {"runcmd", "program"} => f[3] = Closed /\ f[4] = Closed
  /\ at = "runcmd" /\ Len(c) > 1 => AllOpen(f)
  /\ at \in {"fork", "left", "right"} =>
       /\ AllOpen(f) /\ pf = <<3, 4>>
       /\ f[3].end = "r" /\ f[4].end = "w"
  /\ at \in {"fork", "right"} => Len(c) > 1
  /\ at \in {"left", "program"} => Len(c) = 1
  /\ at = "fork" => f[0] # f[3] /\ f[1] # f[4]

Shape == \A p \in Procs : ShapeOf(pc[p], fds[p], cmd[p], pfd[p])

\* The read end and the write end that a process at point at will have as its
\* stdin and its stdout, or give to its child for that; the others it holds
\* are about to be closed.
Reader(at, f, e) ==
  \/ at \in {"runcmd", "program", "fork", "left"} /\ f[0] = e
  \/ at \in {"fork", "right"} /\ f[3] = e
Writer(at, f, e) ==
  \/ at \in {"runcmd", "program", "fork", "right"} /\ f[1] = e
  \/ at \in {"fork", "left"} /\ f[4] = e

\* Every end is meant for one process.
OneEach ==
  \A p, q \in Procs, e \in Ends :
    /\ e.end = "r" /\ Reader(pc[p], fds[p], e) /\ Reader(pc[q], fds[q], e) => p = q
    /\ e.end = "w" /\ Writer(pc[p], fds[p], e) /\ Writer(pc[q], fds[q], e) => p = q

ShellInv == TypeOK /\ CmdType /\ Shape /\ OneEach

\* What can be in a table.
LEMMA EndTypes ==
  /\ Closed \in Ends /\ Tty \in Ends /\ Closed.end = "closed" /\ Tty.end = "tty"
  /\ \A d \in {0, 1} : File(d) \in Ends /\ File(d).end = "file"
  /\ \A k \in Pipes : /\ ReadEnd(k) \in Ends /\ ReadEnd(k).end = "r"
                      /\ WriteEnd(k) \in Ends /\ WriteEnd(k).end = "w"
  BY DEF Ends, Closed, Tty, File, ReadEnd, WriteEnd, FD

\* The lowest free descriptor.
LEMMA LowestIs ==
  ASSUME NEW f, NEW d \in FD, f[d] = Closed,
         \A x \in FD : x < d => f[x] # Closed
  PROVE  LowestFree(f) = d
<1> DEFINE S == {x \in FD : f[x] = Closed} \cup {NOFILE}
<1>1. d \in S /\ \A x \in S : x \in Int /\ d <= x
  BY DEF FD, NOFILE
<1>2. \A x \in S : (\A y \in S : x <= y) => x = d
  BY <1>1
<1>3. Min(S) = d
  BY <1>1, <1>2 DEF Min
<1> QED BY <1>3 DEF LowestFree

\* A redirection closes 0 or 1 and opens a file at 0 or 1.
LEMMA RedirFds ==
  ASSUME NEW f \in [FD -> Ends], NEW d \in {0, 1}
  PROVE  /\ Close(f, d) \in [FD -> Ends]
         /\ Open(Close(f, d), File(d)) \in [FD -> Ends]
         /\ \A x \in FD :
              /\ Close(f, d)[x] \in {f[x], Closed}
              /\ Open(Close(f, d), File(d))[x] \in {f[x], Closed, File(d)}
              /\ x >= 2 => /\ Close(f, d)[x] = f[x]
                           /\ Open(Close(f, d), File(d))[x] = f[x]
<1> DEFINE g == Close(f, d)
<1>0. d \in FD
  BY DEF FD
<1>1. /\ g \in [FD -> Ends] /\ g[d] = Closed
      /\ \A x \in FD : g[x] = IF x = d THEN Closed ELSE f[x]
  BY <1>0, EndTypes DEF Close
<1>2. LowestFree(g) \in {0, 1}
  <2>1. 0 \in FD /\ 1 \in FD /\ \A x \in FD : x < 1 => x = 0
    BY DEF FD
  <2>2. \A x \in FD : ~(x < 0)
    BY DEF FD
  <2> HIDE DEF g
  <2>3. CASE g[0] = Closed
    BY <2>1, <2>2, <2>3, LowestIs
  <2>4. CASE g[0] # Closed
    <3>1. g[1] = Closed
      BY <1>1, <2>4
    <3> QED BY <2>1, <2>4, <3>1, LowestIs
  <2> QED BY <2>3, <2>4
<1>3. LowestFree(g) \in FD /\ File(d) \in Ends
  BY <1>2, EndTypes DEF FD
<1> HIDE DEF g
<1>4. /\ Open(g, File(d)) \in [FD -> Ends]
      /\ \A x \in FD : Open(g, File(d))[x] =
                         IF x = LowestFree(g) THEN File(d) ELSE g[x]
  BY <1>1, <1>3 DEF Open
<1>5. \A x \in FD : x >= 2 => x # d /\ x # LowestFree(g)
  BY <1>2 DEF FD
<1>6. \A x \in FD : g[x] \in {f[x], Closed} /\ (x >= 2 => g[x] = f[x])
  BY <1>1, <1>5
<1>7. \A x \in FD : /\ Open(g, File(d))[x] \in {f[x], Closed, File(d)}
                    /\ x >= 2 => Open(g, File(d))[x] = f[x]
  BY <1>4, <1>5, <1>6
<1> QED BY <1>1, <1>4, <1>6, <1>7 DEF g

\* pipe() takes 3 and 4 when the standard descriptors are open.
LEMMA PipeFds ==
  ASSUME NEW f \in [FD -> Ends], NEW k \in Pipes, AllOpen(f),
         f[3] = Closed, f[4] = Closed
  PROVE  /\ LowestFree(f) = 3
         /\ LowestFree(Open(f, ReadEnd(k))) = 4
         /\ Open(Open(f, ReadEnd(k)), WriteEnd(k)) =
              [x \in FD |-> IF x = 3 THEN ReadEnd(k)
                            ELSE IF x = 4 THEN WriteEnd(k) ELSE f[x]]
<1>1. \A x \in FD : x = 0 \/ x = 1 \/ x = 2 \/ x = 3 \/ x = 4 \/ x = 5
  BY DEF FD
<1>2. 3 \in FD /\ 4 \in FD
  BY DEF FD
<1>3. LowestFree(f) = 3
  <2>1. \A x \in FD : x < 3 => f[x] # Closed
    BY <1>1 DEF AllOpen
  <2> QED BY <1>2, <2>1, LowestIs
<1> DEFINE g == Open(f, ReadEnd(k))
<1>4. g = [x \in FD |-> IF x = 3 THEN ReadEnd(k) ELSE f[x]]
  BY <1>2, <1>3 DEF Open
<1>5. LowestFree(g) = 4
  <2>1. ReadEnd(k) # Closed
    BY EndTypes
  <2>2. g[4] = Closed /\ \A x \in FD : x < 4 => g[x] # Closed
    <3> HIDE DEF g
    <3> QED BY <1>1, <1>2, <1>4, <2>1 DEF AllOpen
  <2> HIDE DEF g
  <2> QED BY <1>2, <2>2, LowestIs
<1> HIDE DEF g
<1>6. Open(g, WriteEnd(k)) = [x \in FD |-> IF x = 3 THEN ReadEnd(k)
                                ELSE IF x = 4 THEN WriteEnd(k) ELSE f[x]]
  BY <1>2, <1>4, <1>5 DEF Open
<1> QED BY <1>3, <1>5, <1>6 DEF g

\* The child's stdout becomes the write end, the parent's stdin the read end,
\* and 3 and 4 are closed.
LEMMA SideFds ==
  ASSUME NEW f \in [FD -> Ends], AllOpen(f), f[3] # Closed, f[4] # Closed
  PROVE  /\ LeftFds(f, 3, 4) =
              [x \in FD |-> IF x = 1 THEN f[4]
                            ELSE IF x \in {3, 4} THEN Closed ELSE f[x]]
         /\ RightFds(f, 3, 4) =
              [x \in FD |-> IF x = 0 THEN f[3]
                            ELSE IF x \in {3, 4} THEN Closed ELSE f[x]]
<1>1. 0 \in FD /\ 1 \in FD /\ 3 \in FD /\ 4 \in FD
  BY DEF FD
<1>2. \A x \in FD : (x < 1 => x = 0) /\ ~(x < 0)
  BY DEF FD
<1> DEFINE l == Close(f, 1)
           r == Close(f, 0)
<1>3. /\ l = [x \in FD |-> IF x = 1 THEN Closed ELSE f[x]]
      /\ r = [x \in FD |-> IF x = 0 THEN Closed ELSE f[x]]
  BY <1>1 DEF Close
<1> HIDE DEF l, r
<1>4. LowestFree(l) = 1
  <2>1. l[1] = Closed /\ \A x \in FD : x < 1 => l[x] # Closed
    BY <1>1, <1>2, <1>3 DEF AllOpen
  <2> QED BY <1>1, <2>1, LowestIs
<1>5. LowestFree(r) = 0
  <2>1. r[0] = Closed
    BY <1>1, <1>3
  <2> QED BY <1>1, <1>2, <2>1, LowestIs
<1>6. Dup(l, 4) = [x \in FD |-> IF x = 1 THEN f[4] ELSE f[x]]
  BY <1>1, <1>3, <1>4 DEF Dup, Open
<1>7. Dup(r, 3) = [x \in FD |-> IF x = 0 THEN f[3] ELSE f[x]]
  BY <1>1, <1>3, <1>5 DEF Dup, Open
<1>8. Close(Close(Dup(l, 4), 3), 4) =
        [x \in FD |-> IF x = 1 THEN f[4]
                      ELSE IF x \in {3, 4} THEN Closed ELSE f[x]]
  BY <1>1, <1>6 DEF Close
<1>9. Close(Close(Dup(r, 3), 4), 3) =
        [x \in FD |-> IF x = 0 THEN f[3]
                      ELSE IF x \in {3, 4} THEN Closed ELSE f[x]]
  BY <1>1, <1>7 DEF Close
<1> QED BY <1>8, <1>9 DEF LeftFds, RightFds, l, r
-----------------------------------------------------------------------------
(***************************************************************************)
(* Each step preserves the invariant of the descriptors.                   *)
(***************************************************************************)

\* A step after which nobody is meant to have an end that was not before.
LEMMA OneFrame ==
  ASSUME OneEach,
         \A q \in Procs, e \in Ends :
           /\ e.end = "r" /\ Reader(pc'[q], fds'[q], e) => Reader(pc[q], fds[q], e)
           /\ e.end = "w" /\ Writer(pc'[q], fds'[q], e) => Writer(pc[q], fds[q], e)
  PROVE  OneEach'
<1>1. ASSUME NEW p \in Procs, NEW q \in Procs, NEW e \in Ends,
             e.end = "r", Reader(pc'[p], fds'[p], e), Reader(pc'[q], fds'[q], e)
      PROVE  p = q
  BY <1>1 DEF OneEach
<1>2. ASSUME NEW p \in Procs, NEW q \in Procs, NEW e \in Ends,
             e.end = "w", Writer(pc'[p], fds'[p], e), Writer(pc'[q], fds'[q], e)
      PROVE  p = q
  BY <1>2 DEF OneEach
<1> QED BY <1>1, <1>2 DEF OneEach, Reader, Writer, Ends

\* A step of process p alone.
LEMMA MoveOne ==
  ASSUME ShellInv, NEW p \in Procs, TypeOK', CmdType',
         \A q \in Procs \ {p} : /\ pc'[q] = pc[q] /\ fds'[q] = fds[q]
                                /\ cmd'[q] = cmd[q] /\ pfd'[q] = pfd[q],
         ShapeOf(pc'[p], fds'[p], cmd'[p], pfd'[p]),
         \A e \in Ends :
           /\ e.end = "r" /\ Reader(pc'[p], fds'[p], e) => Reader(pc[p], fds[p], e)
           /\ e.end = "w" /\ Writer(pc'[p], fds'[p], e) => Writer(pc[p], fds[p], e)
  PROVE  ShellInv'
<1>1. ASSUME NEW q \in Procs PROVE ShapeOf(pc'[q], fds'[q], cmd'[q], pfd'[q])
  BY DEF ShellInv, Shape
<1>2. Shape'
  BY <1>1 DEF Shape, ShapeOf, AllOpen
<1>3. ASSUME NEW q \in Procs, NEW e \in Ends
      PROVE
        /\ e.end = "r" /\ Reader(pc'[q], fds'[q], e) => Reader(pc[q], fds[q], e)
        /\ e.end = "w" /\ Writer(pc'[q], fds'[q], e) => Writer(pc[q], fds[q], e)
  <2>1. CASE q = p
    BY <2>1
  <2>2. CASE q # p
    BY <2>2
  <2> QED BY <2>1, <2>2
<1>4. OneEach'
  BY <1>3, OneFrame DEF ShellInv
<1> QED BY <1>2, <1>4 DEF ShellInv

\* exit(), or the end of a program: the descriptors are closed.
LEMMA ExitStep ==
  ASSUME ShellInv, NEW p \in Procs, Exit(p)
  PROVE  ShellInv'
<1> DEFINE Z == [d \in FD |-> Closed]
<1>0. TypeOK /\ CmdType
  BY DEF ShellInv
<1>1. /\ fds' = [fds EXCEPT ![p] = Z] /\ Z \in [FD -> Ends]
      /\ cmd' = [cmd EXCEPT ![p] = <<>>] /\ pfd' = pfd
      /\ fds'[p] = Z /\ cmd'[p] = <<>>
      /\ \A q \in Procs \ {p} : fds'[q] = fds[q] /\ cmd'[q] = cmd[q]
  BY <1>0, EndTypes DEF Exit, TypeOK, CmdType
<1>2. /\ pc' \in [Procs -> Points] /\ pc'[p] \in {"free", "zombie"}
      /\ \A q \in Procs \ {p} : \/ pc'[q] = pc[q]
                                \/ pc[q] = "zombie" /\ pc'[q] = "free"
  BY <1>0 DEF Exit, TypeOK, Points
<1>3. parent' \in [Procs -> Procs \cup {Main, InitP}]
  BY <1>0 DEF Exit, TypeOK
<1>4. TypeOK'
  BY <1>0, <1>1, <1>2, <1>3 DEF Exit, shellVars, TypeOK
<1>5. CmdType'
  BY <1>0, <1>1, EmptySeq DEF CmdType
<1>6. ASSUME NEW q \in Procs PROVE ShapeOf(pc'[q], fds'[q], cmd'[q], pfd'[q])
  <2>0. ShapeOf(pc[q], fds[q], cmd[q], pfd[q])
    BY DEF ShellInv, Shape
  <2>1. CASE q = p
    BY <1>1, <1>2, <2>1, EndTypes DEF ShapeOf, FD
  <2>2. CASE q # p
    BY <1>1, <1>2, <2>0, <2>2 DEF ShapeOf
  <2> QED BY <2>1, <2>2
<1>7. ASSUME NEW q \in Procs, NEW e \in Ends
      PROVE
        /\ e.end = "r" /\ Reader(pc'[q], fds'[q], e) => Reader(pc[q], fds[q], e)
        /\ e.end = "w" /\ Writer(pc'[q], fds'[q], e) => Writer(pc[q], fds[q], e)
  <2>1. CASE q = p
    BY <1>2, <2>1 DEF Reader, Writer
  <2>2. CASE q # p
    BY <1>1, <1>2, <2>2 DEF Reader, Writer
  <2> QED BY <2>1, <2>2
<1>8. Shape'
  BY <1>6 DEF Shape, ShapeOf, AllOpen
<1>9. OneEach'
  BY <1>7, OneFrame DEF ShellInv
<1> QED BY <1>4, <1>5, <1>8, <1>9 DEF ShellInv

\* execvp() keeps the table.
LEMMA ExecStep ==
  ASSUME ShellInv, NEW p \in Procs, RunExec(p)
  PROVE  ShellInv'
<1>0. TypeOK /\ CmdType /\ ShapeOf(pc[p], fds[p], cmd[p], pfd[p])
  BY DEF ShellInv, Shape
<1>1. /\ pc[p] = "runcmd" /\ Len(cmd[p]) = 1
      /\ UNCHANGED <<shellVars, cmd, parent, pfd, fds, buffer, out, failed, perm>>
      /\ pc' \in [Procs -> Points] /\ pc'[p] = "program"
      /\ \A q \in Procs \ {p} : pc'[q] = pc[q]
  BY <1>0 DEF RunExec, TypeOK, Points
<1>2. todo' \in [Procs -> Nat]
  BY <1>0, ShellAssumption DEF RunExec, TypeOK
<1>3. TypeOK' /\ CmdType'
  BY <1>0, <1>1, <1>2 DEF TypeOK, shellVars, CmdType
<1>4. ShapeOf(pc'[p], fds'[p], cmd'[p], pfd'[p])
  BY <1>0, <1>1 DEF ShapeOf
<1> QED BY <1>1, <1>3, <1>4, MoveOne DEF Reader, Writer

\* fork1() fails in a pipe: the parent goes on.
LEMMA NoForkStep ==
  ASSUME ShellInv, NEW p \in Procs, RunNoFork(p)
  PROVE  ShellInv'
<1>0. TypeOK /\ CmdType /\ ShapeOf(pc[p], fds[p], cmd[p], pfd[p])
  BY DEF ShellInv, Shape
<1>1. /\ pc[p] = "fork"
      /\ UNCHANGED <<shellVars, cmd, parent, pfd, fds, todo, buffer, out, perm>>
      /\ pc' \in [Procs -> Points] /\ pc'[p] = "right"
      /\ \A q \in Procs \ {p} : pc'[q] = pc[q]
  BY <1>0 DEF RunNoFork, TypeOK, Points
<1>2. failed' \subseteq Procs \cup {Main}
  BY <1>0 DEF RunNoFork, TypeOK
<1>3. TypeOK' /\ CmdType'
  BY <1>0, <1>1, <1>2 DEF TypeOK, shellVars, CmdType
<1>4. ShapeOf(pc'[p], fds'[p], cmd'[p], pfd'[p])
  BY <1>0, <1>1 DEF ShapeOf
<1> QED BY <1>1, <1>3, <1>4, MoveOne DEF Reader, Writer

\* The child goes on with the write end and its own stage.
LEMMA LeftStep ==
  ASSUME ShellInv, NEW p \in Procs, RunLeft(p)
  PROVE  ShellInv'
<1> DEFINE f == fds[p]
           g == [x \in FD |-> IF x = 1 THEN f[4]
                              ELSE IF x \in {3, 4} THEN Closed ELSE f[x]]
<1>0. /\ TypeOK /\ CmdType /\ ShapeOf(pc[p], f, cmd[p], pfd[p])
      /\ f \in [FD -> Ends] /\ pc[p] = "left"
  BY DEF ShellInv, Shape, TypeOK, RunLeft
<1>1. AllOpen(f) /\ pfd[p] = <<3, 4>> /\ f[3] # Closed /\ f[4] # Closed
  BY <1>0, EndTypes DEF ShapeOf
<1>2. LeftFds(f, 3, 4) = g
  BY <1>0, <1>1, SideFds
<1>3. 0 \in FD /\ 1 \in FD /\ 2 \in FD /\ 3 \in FD /\ 4 \in FD /\ 5 \in FD
  BY DEF FD
<1>4. /\ g \in [FD -> Ends] /\ g[0] = f[0] /\ g[1] = f[4] /\ g[2] = f[2]
      /\ g[3] = Closed /\ g[4] = Closed /\ g[5] = f[5]
  BY <1>0, <1>3, EndTypes
<1> HIDE DEF g
<1>5. /\ UNCHANGED <<shellVars, cmd, parent, pfd, todo, buffer, out, failed, perm>>
      /\ pc' \in [Procs -> Points] /\ pc'[p] = "runcmd"
      /\ fds' \in [Procs -> [FD -> Ends]] /\ fds'[p] = g
      /\ \A q \in Procs \ {p} : pc'[q] = pc[q] /\ fds'[q] = fds[q]
  BY <1>0, <1>1, <1>2, <1>4 DEF RunLeft, TypeOK, Points
<1>6. TypeOK' /\ CmdType'
  BY <1>0, <1>5 DEF TypeOK, shellVars, CmdType
<1>7. ShapeOf(pc'[p], fds'[p], cmd'[p], pfd'[p])
  BY <1>0, <1>1, <1>4, <1>5 DEF ShapeOf, AllOpen
<1>8. ASSUME NEW e \in Ends
      PROVE /\ Reader("runcmd", g, e) => Reader("left", f, e)
            /\ Writer("runcmd", g, e) => Writer("left", f, e)
  BY <1>4 DEF Reader, Writer
<1> QED BY <1>0, <1>5, <1>6, <1>7, <1>8, MoveOne

\* The parent goes on with the read end and the rest of the command.
LEMMA RightStep ==
  ASSUME ShellInv, NEW p \in Procs, RunRight(p)
  PROVE  ShellInv'
<1> DEFINE f == fds[p]
           g == [x \in FD |-> IF x = 0 THEN f[3]
                              ELSE IF x \in {3, 4} THEN Closed ELSE f[x]]
<1>0. /\ TypeOK /\ CmdType /\ ShapeOf(pc[p], f, cmd[p], pfd[p])
      /\ f \in [FD -> Ends] /\ pc[p] = "right" /\ cmd[p] \in Seq(Stages)
  BY DEF ShellInv, Shape, TypeOK, CmdType, RunRight
<1>1. /\ AllOpen(f) /\ pfd[p] = <<3, 4>> /\ f[3] # Closed /\ f[4] # Closed
      /\ Len(cmd[p]) > 1
  BY <1>0, EndTypes DEF ShapeOf
<1>2. RightFds(f, 3, 4) = g
  BY <1>0, <1>1, SideFds
<1>3. 0 \in FD /\ 1 \in FD /\ 2 \in FD /\ 3 \in FD /\ 4 \in FD /\ 5 \in FD
  BY DEF FD
<1>4. /\ g \in [FD -> Ends] /\ g[0] = f[3] /\ g[1] = f[1] /\ g[2] = f[2]
      /\ g[3] = Closed /\ g[4] = Closed /\ g[5] = f[5]
  BY <1>0, <1>3, EndTypes
<1> HIDE DEF g
<1>5. /\ UNCHANGED <<shellVars, parent, pfd, todo, buffer, out, failed, perm>>
      /\ pc' \in [Procs -> Points] /\ pc'[p] = "runcmd"
      /\ fds' \in [Procs -> [FD -> Ends]] /\ fds'[p] = g
      /\ \A q \in Procs \ {p} : pc'[q] = pc[q] /\ fds'[q] = fds[q]
  BY <1>0, <1>1, <1>2, <1>4 DEF RunRight, TypeOK, Points
<1>6. cmd[p] # <<>> /\ Tail(cmd[p]) \in Seq(Stages)
  <2>1. cmd[p] # <<>>
    BY <1>1, EmptySeq
  <2> QED BY <1>0, <2>1, HeadTailProperties
<1>7. cmd' = [cmd EXCEPT ![p] = Tail(cmd[p])]
  BY DEF RunRight
<1>8. TypeOK' /\ CmdType' /\ \A q \in Procs \ {p} : cmd'[q] = cmd[q]
  BY <1>0, <1>5, <1>6, <1>7 DEF TypeOK, shellVars, CmdType
<1>9. ShapeOf(pc'[p], fds'[p], cmd'[p], pfd'[p])
  BY <1>0, <1>1, <1>4, <1>5 DEF ShapeOf, AllOpen
<1>10. ASSUME NEW e \in Ends
       PROVE /\ Reader("runcmd", g, e) => Reader("right", f, e)
             /\ Writer("runcmd", g, e) => Writer("right", f, e)
  BY <1>4 DEF Reader, Writer
<1> QED BY <1>0, <1>5, <1>8, <1>9, <1>10, MoveOne

\* A stage of which one field changes is a stage, and the command stays as long.
LEMMA FirstStage ==
  ASSUME CmdType, NEW p \in Procs, Len(cmd[p]) = 1, NEW s \in Stages
  PROVE  /\ [cmd EXCEPT ![p] = [cmd[p] EXCEPT ![1] = s]] \in [Procs -> Seq(Stages)]
         /\ Len([cmd EXCEPT ![p] = [cmd[p] EXCEPT ![1] = s]][p]) = 1
<1>1. cmd[p] \in Seq(Stages) /\ 1 \in 1..Len(cmd[p])
  BY DEF CmdType
<1> DEFINE c == [cmd[p] EXCEPT ![1] = s]
<1>2. c \in Seq(Stages) /\ Len(c) = 1
  <2>1. \A q \in Seq(Stages) : \A j \in 1..Len(q) :
          /\ [q EXCEPT ![j] = s] \in Seq(Stages)
          /\ Len([q EXCEPT ![j] = s]) = Len(q)
    BY ExceptSeq
  <2>2. c \in Seq(Stages) /\ Len(c) = Len(cmd[p])
    BY <1>1, <2>1, Zenon
  <2> QED BY <2>2
<1> HIDE DEF c
<1>3. [cmd EXCEPT ![p] = c] \in [Procs -> Seq(Stages)]
  BY <1>2 DEF CmdType
<1>4. [cmd EXCEPT ![p] = c][p] = c
  BY DEF CmdType
<1> QED BY <1>2, <1>3, <1>4 DEF c

\* A redirection takes an end of a pipe away at most.
LEMMA RedirStep ==
  ASSUME ShellInv, NEW p \in Procs, NEW ok \in BOOLEAN, RunRedir(p, ok)
  PROVE  ShellInv'
<1> DEFINE f == fds[p]
           s == cmd[p][1]
           d == s.redirs[1]
           g == IF ok THEN Open(Close(f, d), File(d)) ELSE Close(f, d)
           t == [s EXCEPT !.redirs = Tail(s.redirs)]
<1>0. /\ TypeOK /\ CmdType /\ ShapeOf(pc[p], f, cmd[p], pfd[p])
      /\ f \in [FD -> Ends] /\ cmd[p] \in Seq(Stages)
      /\ pc[p] = "runcmd" /\ Len(cmd[p]) = 1 /\ s.redirs # <<>>
  BY DEF ShellInv, Shape, TypeOK, CmdType, RunRedir
<1>1. s \in Stages
  <2>1. 1 \in 1..Len(cmd[p])
    BY <1>0
  <2> QED BY <1>0, <2>1, ElementOfSeq
<1>2. s.redirs \in Seq({0, 1})
  BY <1>1 DEF Stages
<1>3. d \in {0, 1} /\ Tail(s.redirs) \in Seq({0, 1})
  <2>1. 1 \in 1..Len(s.redirs)
    BY <1>0, <1>2, EmptySeq
  <2>2. d \in {0, 1}
    BY <1>2, <2>1, ElementOfSeq
  <2> QED BY <1>0, <1>2, <2>2, HeadTailProperties
<1>4. t \in Stages
  BY <1>1, <1>3 DEF Stages
<1>5. /\ g \in [FD -> Ends]
      /\ \A x \in FD : /\ g[x] \in {f[x], Closed, File(d)}
                       /\ x >= 2 => g[x] = f[x]
  BY <1>0, <1>3, RedirFds
<1>6. cmd' = [cmd EXCEPT ![p] = [cmd[p] EXCEPT ![1] = t]]
  BY DEF RunRedir
<1>7. fds' = [fds EXCEPT ![p] = g]
  BY DEF RunRedir
<1>8. failed' \subseteq Procs \cup {Main} /\ perm' \in Int
  BY <1>0 DEF RunRedir, TypeOK, CreateMode
<1>9. UNCHANGED <<shellVars, pc, parent, pfd, todo, buffer, out>>
  BY DEF RunRedir
<1> HIDE DEF t
<1>10. CmdType' /\ Len(cmd'[p]) = 1 /\ \A q \in Procs \ {p} : cmd'[q] = cmd[q]
  BY <1>0, <1>4, <1>6, FirstStage DEF CmdType
<1> HIDE DEF g
<1>11. /\ fds' \in [Procs -> [FD -> Ends]] /\ fds'[p] = g
       /\ \A q \in Procs \ {p} : fds'[q] = fds[q]
  BY <1>0, <1>5, <1>7 DEF TypeOK
<1>12. TypeOK'
  BY <1>0, <1>8, <1>9, <1>11 DEF TypeOK, shellVars
<1>13. 0 \in FD /\ 1 \in FD /\ 2 \in FD /\ 3 \in FD /\ 4 \in FD /\ 5 \in FD
  BY DEF FD
<1>14. /\ g[2] = f[2] /\ g[3] = f[3] /\ g[4] = f[4] /\ g[5] = f[5]
       /\ g[0].end \in {f[0].end, "closed", "file"}
       /\ g[1].end \in {f[1].end, "closed", "file"}
  <2>1. g[2] = f[2] /\ g[3] = f[3] /\ g[4] = f[4] /\ g[5] = f[5]
    BY <1>5, <1>13
  <2>2. g[0] \in {f[0], Closed, File(d)} /\ g[1] \in {f[1], Closed, File(d)}
    BY <1>5, <1>13
  <2>3. File(d).end = "file" /\ Closed.end = "closed"
    BY <1>3, EndTypes
  <2> QED BY <2>1, <2>2, <2>3
<1>15. ShapeOf(pc'[p], fds'[p], cmd'[p], pfd'[p])
  BY <1>0, <1>9, <1>10, <1>11, <1>14 DEF ShapeOf
<1>16. ASSUME NEW e \in Ends
       PROVE /\ e.end = "r" /\ Reader("runcmd", g, e) => Reader("runcmd", f, e)
             /\ e.end = "w" /\ Writer("runcmd", g, e) => Writer("runcmd", f, e)
  <2>1. File(d).end = "file" /\ Closed.end = "closed"
    BY <1>3, EndTypes
  <2> QED BY <1>5, <1>13, <2>1 DEF Reader, Writer
<1> QED BY <1>0, <1>9, <1>10, <1>11, <1>12, <1>15, <1>16, MoveOne

\* What a process is meant to have, it holds.
LEMMA MeantHeld ==
  ASSUME NEW q, NEW e, Reader(pc[q], fds[q], e) \/ Writer(pc[q], fds[q], e)
  PROVE  Holds(q, e)
<1>1. 0 \in FD /\ 1 \in FD /\ 3 \in FD /\ 4 \in FD
  BY DEF FD
<1> QED BY <1>1 DEF Reader, Writer, Holds

\* The ends of a new pipe are meant for nobody else.
LEMMA PipeStep ==
  ASSUME ShellInv, NEW p \in Procs, NEW k \in Pipes, RunPipe(p, k)
  PROVE  ShellInv'
<1> DEFINE f == fds[p]
           g == [x \in FD |-> IF x = 3 THEN ReadEnd(k)
                              ELSE IF x = 4 THEN WriteEnd(k) ELSE f[x]]
<1>0. /\ TypeOK /\ CmdType /\ ShapeOf(pc[p], f, cmd[p], pfd[p])
      /\ f \in [FD -> Ends] /\ pc[p] = "runcmd" /\ Len(cmd[p]) > 1
  BY DEF ShellInv, Shape, TypeOK, RunPipe
<1>1. /\ AllOpen(f) /\ f[3] = Closed /\ f[4] = Closed /\ f[5] = Closed
      /\ f[0].end # "w" /\ f[1].end # "r" /\ f[2].end \notin {"r", "w"}
  BY <1>0 DEF ShapeOf
<1>2. /\ LowestFree(f) = 3 /\ LowestFree(Open(f, ReadEnd(k))) = 4
      /\ Open(Open(f, ReadEnd(k)), WriteEnd(k)) = g
  BY <1>0, <1>1, PipeFds
<1>3. 0 \in FD /\ 1 \in FD /\ 2 \in FD /\ 3 \in FD /\ 4 \in FD /\ 5 \in FD
  BY DEF FD
<1>4. /\ g \in [FD -> Ends] /\ g[0] = f[0] /\ g[1] = f[1] /\ g[2] = f[2]
      /\ g[3] = ReadEnd(k) /\ g[4] = WriteEnd(k) /\ g[5] = f[5]
  BY <1>0, <1>3, EndTypes
<1> HIDE DEF g
<1>5. /\ fds' = [fds EXCEPT ![p] = g] /\ pfd' = [pfd EXCEPT ![p] = <<3, 4>>]
      /\ buffer' = [buffer EXCEPT ![k] = 0] /\ pc' = [pc EXCEPT ![p] = "fork"]
      /\ UNCHANGED <<shellVars, cmd, parent, todo, out, failed, perm>>
  BY <1>2 DEF RunPipe
<1>6. /\ pc' \in [Procs -> Points] /\ pc'[p] = "fork"
      /\ fds' \in [Procs -> [FD -> Ends]] /\ fds'[p] = g
      /\ pfd' \in [Procs -> FD \X FD] /\ pfd'[p] = <<3, 4>>
      /\ \A q \in Procs \ {p} :
           pc'[q] = pc[q] /\ fds'[q] = fds[q] /\ pfd'[q] = pfd[q]
  BY <1>0, <1>3, <1>4, <1>5 DEF TypeOK, Points
<1>7. buffer' \in [Pipes -> 0..CAPACITY]
  BY <1>0, <1>5, ShellAssumption DEF TypeOK
<1>8. TypeOK' /\ CmdType'
  BY <1>0, <1>5, <1>6, <1>7 DEF TypeOK, shellVars, CmdType
<1>9. \A q \in Procs : ~Holds(q, ReadEnd(k)) /\ ~Holds(q, WriteEnd(k))
  BY DEF RunPipe, HasReader, HasWriter
<1>10. f[0] # ReadEnd(k) /\ f[1] # WriteEnd(k)
  BY <1>3, <1>9 DEF Holds
<1>11. ShapeOf("fork", g, cmd[p], <<3, 4>>)
  BY <1>0, <1>1, <1>4, <1>10, EndTypes DEF ShapeOf, AllOpen
<1>12. ASSUME NEW q \in Procs PROVE ShapeOf(pc'[q], fds'[q], cmd'[q], pfd'[q])
  <2>1. CASE q = p
    BY <1>5, <1>6, <1>11, <2>1
  <2>2. CASE q # p
    BY <1>5, <1>6, <2>2 DEF ShellInv, Shape
  <2> QED BY <2>1, <2>2
<1>13. Shape'
  BY <1>12 DEF Shape, ShapeOf, AllOpen
<1>14. ASSUME NEW q \in Procs, NEW e \in Ends
       PROVE  /\ Reader(pc'[q], fds'[q], e) =>
                   Reader(pc[q], fds[q], e) \/ (q = p /\ e = ReadEnd(k))
              /\ Writer(pc'[q], fds'[q], e) =>
                   Writer(pc[q], fds[q], e) \/ (q = p /\ e = WriteEnd(k))
  <2>1. CASE q = p
    BY <1>0, <1>4, <1>6, <2>1 DEF Reader, Writer
  <2>2. CASE q # p
    BY <1>6, <2>2
  <2> QED BY <2>1, <2>2
<1>15. ASSUME NEW q \in Procs
       PROVE  /\ ~Reader(pc[q], fds[q], ReadEnd(k))
              /\ ~Writer(pc[q], fds[q], WriteEnd(k))
  BY <1>9, MeantHeld
<1>16. ASSUME NEW q \in Procs, NEW r \in Procs, NEW e \in Ends
       PROVE
    /\ e.end = "r" /\ Reader(pc'[q], fds'[q], e) /\ Reader(pc'[r], fds'[r], e)
         => q = r
    /\ e.end = "w" /\ Writer(pc'[q], fds'[q], e) /\ Writer(pc'[r], fds'[r], e)
         => q = r
  BY <1>14, <1>15 DEF ShellInv, OneEach
<1>17. OneEach'
  BY <1>16 DEF OneEach, Reader, Writer, Ends
<1> QED BY <1>8, <1>13, <1>17 DEF ShellInv

\* fork1() in a pipe: the child is meant to have the write end and the stdin
\* of its parent, which is left with the read end and its stdout.
LEMMA ForkStep ==
  ASSUME ShellInv, NEW p \in Procs, NEW q \in Procs, RunFork(p, q)
  PROVE  ShellInv'
<1> DEFINE f == fds[p]
           c == <<cmd[p][1]>>
<1>0. /\ TypeOK /\ CmdType /\ ShapeOf(pc[p], f, cmd[p], pfd[p])
      /\ f \in [FD -> Ends] /\ cmd[p] \in Seq(Stages)
      /\ pc[p] = "fork" /\ pc[q] = "free" /\ p # q
  BY DEF ShellInv, Shape, TypeOK, CmdType, RunFork, Child, FreeProc
<1>1. Len(cmd[p]) > 1 /\ f[0] # f[3] /\ f[1] # f[4] /\ pfd[p] = <<3, 4>>
  BY <1>0 DEF ShapeOf
<1>2. c \in Seq(Stages) /\ Len(c) = 1
  <2>1. 1 \in 1..Len(cmd[p])
    BY <1>0, <1>1, LenProperties
  <2>2. cmd[p][1] \in Stages
    BY <1>0, <2>1, ElementOfSeq
  <2> QED BY <2>2
<1> HIDE DEF c
<1>3. /\ fds' = [fds EXCEPT ![q] = f] /\ parent' = [parent EXCEPT ![q] = p]
      /\ cmd' = [cmd EXCEPT ![q] = c] /\ pfd' = [pfd EXCEPT ![q] = pfd[p]]
      /\ pc' = [pc EXCEPT ![p] = "right", ![q] = "left"]
      /\ UNCHANGED <<shellVars, todo, buffer, out, failed, perm>>
  BY DEF RunFork, Child, c
<1>4. /\ pc' \in [Procs -> Points] /\ pc'[p] = "right" /\ pc'[q] = "left"
      /\ fds' \in [Procs -> [FD -> Ends]] /\ fds'[p] = f /\ fds'[q] = f
      /\ pfd' \in [Procs -> FD \X FD] /\ pfd'[p] = <<3, 4>> /\ pfd'[q] = <<3, 4>>
      /\ cmd'[p] = cmd[p] /\ cmd'[q] = c
      /\ \A r \in Procs \ {p, q} : /\ pc'[r] = pc[r] /\ fds'[r] = fds[r]
                                   /\ pfd'[r] = pfd[r] /\ cmd'[r] = cmd[r]
  BY <1>0, <1>1, <1>3 DEF TypeOK, CmdType, Points
<1>5. parent' \in [Procs -> Procs \cup {Main, InitP}] /\ CmdType'
  BY <1>0, <1>2, <1>3 DEF TypeOK, CmdType
<1>6. TypeOK'
  BY <1>0, <1>3, <1>4, <1>5 DEF TypeOK, shellVars
<1>7. ASSUME NEW r \in Procs PROVE ShapeOf(pc'[r], fds'[r], cmd'[r], pfd'[r])
  <2>1. CASE r = p
    BY <1>0, <1>1, <1>4, <2>1 DEF ShapeOf
  <2>2. CASE r = q
    BY <1>0, <1>1, <1>2, <1>4, <2>2 DEF ShapeOf
  <2>3. CASE r # p /\ r # q
    BY <1>4, <2>3 DEF ShellInv, Shape
  <2> QED BY <2>1, <2>2, <2>3
<1>8. Shape'
  BY <1>7 DEF Shape, ShapeOf, AllOpen
<1>9. ASSUME NEW e \in Ends
      PROVE  /\ Reader(pc'[p], fds'[p], e) <=> f[3] = e
             /\ Reader(pc'[q], fds'[q], e) <=> f[0] = e
             /\ Reader(pc[p], fds[p], e) <=> f[0] = e \/ f[3] = e
             /\ Writer(pc'[p], fds'[p], e) <=> f[1] = e
             /\ Writer(pc'[q], fds'[q], e) <=> f[4] = e
             /\ Writer(pc[p], fds[p], e) <=> f[1] = e \/ f[4] = e
  BY <1>0, <1>4 DEF Reader, Writer
<1>10. ASSUME NEW r \in Procs \ {p, q}, NEW e \in Ends
       PROVE  /\ Reader(pc'[r], fds'[r], e) <=> Reader(pc[r], fds[r], e)
              /\ Writer(pc'[r], fds'[r], e) <=> Writer(pc[r], fds[r], e)
  BY <1>4
<1>11. ASSUME NEW r \in Procs, NEW s \in Procs, NEW e \in Ends, e.end = "r",
              Reader(pc'[r], fds'[r], e), Reader(pc'[s], fds'[s], e)
       PROVE  r = s
  <2>1. \A x, y \in Procs :
          Reader(pc[x], fds[x], e) /\ Reader(pc[y], fds[y], e) => x = y
    BY <1>11 DEF ShellInv, OneEach
  <2> QED BY <1>1, <1>9, <1>10, <1>11, <2>1
<1>12. ASSUME NEW r \in Procs, NEW s \in Procs, NEW e \in Ends, e.end = "w",
              Writer(pc'[r], fds'[r], e), Writer(pc'[s], fds'[s], e)
       PROVE  r = s
  <2>1. \A x, y \in Procs :
          Writer(pc[x], fds[x], e) /\ Writer(pc[y], fds[y], e) => x = y
    BY <1>12 DEF ShellInv, OneEach
  <2> QED BY <1>1, <1>9, <1>10, <1>12, <2>1
<1>13. OneEach'
  BY <1>11, <1>12 DEF OneEach, Reader, Writer, Ends
<1> QED BY <1>5, <1>6, <1>8, <1>13 DEF ShellInv

\* A program reads an item: no table changes.
LEMMA ReadStep ==
  ASSUME ShellInv, NEW p \in Procs, ProgRead(p)
  PROVE  ShellInv'
<1> DEFINE s == cmd[p][1]
           t == [s EXCEPT !.prog = IF s.prog = "head" THEN "source" ELSE s.prog]
           k == fds[p][0].id
<1>0. /\ TypeOK /\ CmdType /\ ShapeOf(pc[p], fds[p], cmd[p], pfd[p])
      /\ cmd[p] \in Seq(Stages) /\ pc[p] = "program" /\ buffer[k] > 0
  BY DEF ShellInv, Shape, TypeOK, CmdType, ProgRead, Reads, Stdin
<1>1. Len(cmd[p]) = 1
  BY <1>0 DEF ShapeOf
<1>2. s \in Stages
  <2>1. 1 \in 1..Len(cmd[p])
    BY <1>1
  <2> QED BY <1>0, <2>1, ElementOfSeq
<1>3. t \in Stages
  BY <1>2 DEF Stages, Programs
<1>4. cmd' = [cmd EXCEPT ![p] = [cmd[p] EXCEPT ![1] = t]]
  BY DEF ProgRead
<1> HIDE DEF t
<1>5. CmdType' /\ Len(cmd'[p]) = 1 /\ \A q \in Procs \ {p} : cmd'[q] = cmd[q]
  BY <1>0, <1>1, <1>3, <1>4, FirstStage DEF CmdType
<1>6. /\ UNCHANGED <<shellVars, pc, parent, pfd, fds, out, failed, perm>>
      /\ buffer' = [buffer EXCEPT ![k] = buffer[k] - 1]
      /\ todo' = [todo EXCEPT ![p] = 1]
  BY DEF ProgRead, Stdin
<1> HIDE DEF k
<1>7. /\ buffer' \in [Pipes -> 0..CAPACITY] /\ todo' \in [Procs -> Nat]
  <2>1. k \in Pipes => buffer[k] - 1 \in 0..CAPACITY
    BY <1>0, ShellAssumption DEF TypeOK
  <2>2. buffer' \in [Pipes -> 0..CAPACITY]
    BY <1>0, <1>6, <2>1 DEF TypeOK
  <2>3. todo' \in [Procs -> Nat]
    BY <1>0, <1>6 DEF TypeOK
  <2> QED BY <2>2, <2>3
<1>8. TypeOK'
  BY <1>0, <1>6, <1>7 DEF TypeOK, shellVars
<1>9. ShapeOf(pc'[p], fds'[p], cmd'[p], pfd'[p])
  BY <1>0, <1>5, <1>6 DEF ShapeOf
<1> QED BY <1>5, <1>6, <1>8, <1>9, MoveOne

\* A step that changes no table, no command and no control point.
LEMMA KeepsTables ==
  ASSUME ShellInv, TypeOK', UNCHANGED <<pc, cmd, pfd, fds>>
  PROVE  ShellInv'
<1>1. CmdType' /\ Shape'
  BY DEF ShellInv, CmdType, Shape, ShapeOf, AllOpen
<1>2. OneEach'
  BY OneFrame DEF ShellInv
<1> QED BY <1>1, <1>2 DEF ShellInv

\* A program writes an item.
LEMMA WriteStep ==
  ASSUME ShellInv, NEW p \in Procs, ProgWrite(p)
  PROVE  ShellInv'
<1> DEFINE k == fds[p][1].id
<1>0. TypeOK /\ todo[p] \in Nat /\ todo[p] > 0
  BY DEF ShellInv, TypeOK, ProgWrite
<1>1. UNCHANGED <<shellVars, pc, cmd, parent, pfd, fds, failed, perm>>
  BY DEF ProgWrite
<1>2. todo' \in [Procs -> Nat] /\ out' \in Nat
  BY <1>0 DEF ProgWrite, TypeOK
<1>3. \/ buffer' = buffer
      \/ buffer[k] < CAPACITY /\ buffer' = [buffer EXCEPT ![k] = buffer[k] + 1]
  BY DEF ProgWrite, Stdout, HasRoom
<1> HIDE DEF k
<1>4. buffer' \in [Pipes -> 0..CAPACITY]
  BY <1>0, <1>3, ShellAssumption DEF TypeOK
<1>5. TypeOK'
  BY <1>0, <1>1, <1>2, <1>4 DEF TypeOK, shellVars
<1> QED BY <1>1, <1>5, KeepsTables

\* Every step of a process.
LEMMA ProcInv ==
  ASSUME ShellInv, NEW p \in Procs, ProcStep(p)
  PROVE  ShellInv'
<1>1. CASE RunExit(p) \/ ProgExit(p) \/ ProgKilled(p)
  BY <1>1, ExitStep DEF RunExit, ProgExit, ProgKilled
<1>2. CASE RunExec(p) \/ RunNoFork(p) \/ RunLeft(p) \/ RunRight(p)
  BY <1>2, ExecStep, NoForkStep, LeftStep, RightStep
<1>3. CASE \/ \E ok \in BOOLEAN : RunRedir(p, ok)
           \/ \E k \in Pipes : RunPipe(p, k)
           \/ \E q \in Procs : RunFork(p, q)
  BY <1>3, RedirStep, PipeStep, ForkStep
<1>4. CASE ProgRead(p) \/ ProgWrite(p)
  BY <1>4, ReadStep, WriteStep
<1> QED BY <1>1, <1>2, <1>3, <1>4 DEF ProcStep

\* Every step of main().
LEMMA MainInv ==
  ASSUME ShellInv, MainStep
  PROVE  ShellInv'
<1>0. TypeOK /\ CmdType
  BY DEF ShellInv
<1>1. ASSUME NEW l \in Lines, NEW q \in Procs, GetCmd(l, q) PROVE ShellInv'
  <2>1. /\ l \in Seq(Stages) /\ TtyFds \in [FD -> Ends] /\ NLINES \in Nat
        /\ 0 \in FD /\ 1 \in FD /\ 2 \in FD /\ 3 \in FD /\ 4 \in FD /\ 5 \in FD
    BY EndTypes, ShellAssumption DEF TtyFds, FD
  <2>2. /\ pc' = [pc EXCEPT ![q] = "runcmd"] /\ fds' = [fds EXCEPT ![q] = TtyFds]
        /\ parent' = [parent EXCEPT ![q] = Main] /\ cmd' = [cmd EXCEPT ![q] = l]
        /\ main_pc' = "wait" /\ typed' = typed + 1 /\ line' = l
        /\ typed < NLINES /\ out' = 0 /\ failed' = {}
        /\ UNCHANGED <<pfd, todo, buffer, perm>>
    BY <1>1 DEF GetCmd, Child
  <2>3. /\ pc' \in [Procs -> Points] /\ pc'[q] = "runcmd"
        /\ fds' \in [Procs -> [FD -> Ends]] /\ fds'[q] = TtyFds
        /\ \A p \in Procs \ {q} :
             pc'[p] = pc[p] /\ fds'[p] = fds[p] /\ cmd'[p] = cmd[p]
    BY <1>0, <2>1, <2>2 DEF TypeOK, CmdType, Points
  <2>4. parent' \in [Procs -> Procs \cup {Main, InitP}] /\ CmdType'
        /\ typed' \in 0..NLINES
    BY <1>0, <2>1, <2>2 DEF TypeOK, CmdType
  <2>5. TypeOK'
    BY <1>0, <2>2, <2>3, <2>4 DEF TypeOK
  <2>6. /\ TtyFds[0] = Tty /\ TtyFds[1] = Tty /\ TtyFds[2] = Tty
        /\ TtyFds[3] = Closed /\ TtyFds[4] = Closed /\ TtyFds[5] = Closed
    BY <2>1 DEF TtyFds
  <2>7. Tty # Closed
    BY EndTypes
  <2>8. ShapeOf(pc'[q], fds'[q], cmd'[q], pfd'[q])
    BY <2>3, <2>6, <2>7, EndTypes DEF ShapeOf, AllOpen
  <2>9. ASSUME NEW e \in Ends
        PROVE  /\ e.end = "r" => ~Reader("runcmd", TtyFds, e)
               /\ e.end = "w" => ~Writer("runcmd", TtyFds, e)
    BY <2>6, EndTypes DEF Reader, Writer
  <2> QED BY <2>2, <2>3, <2>4, <2>5, <2>8, <2>9, MoveOne
<1>2. ASSUME NEW l \in Lines, GetCmdNoFork(l) PROVE ShellInv'
  <2>1. TypeOK'
    BY <1>0, <1>2, ShellAssumption DEF GetCmdNoFork, TypeOK
  <2> QED BY <1>2, <2>1, KeepsTables DEF GetCmdNoFork
<1>3. ASSUME NEW p \in Procs, MainReap(p) PROVE ShellInv'
  <2>1. /\ pc[p] = "zombie" /\ UNCHANGED <<cmd, pfd, fds>>
        /\ pc' \in [Procs -> Points] /\ pc'[p] = "free"
        /\ \A q \in Procs \ {p} : pc'[q] = pc[q]
    BY <1>0, <1>3 DEF MainReap, TypeOK, Points
  <2>2. parent' \in [Procs -> Procs \cup {Main, InitP}]
    BY <1>0, <1>3 DEF MainReap, TypeOK
  <2>3. TypeOK' /\ CmdType'
    BY <1>0, <1>3, <2>1, <2>2 DEF MainReap, TypeOK, CmdType
  <2>4. ShapeOf(pc[p], fds[p], cmd[p], pfd[p])
    BY DEF ShellInv, Shape
  <2>5. ShapeOf(pc'[p], fds'[p], cmd'[p], pfd'[p])
    BY <2>1, <2>4 DEF ShapeOf
  <2>6. \A e : ~Reader("free", fds[p], e) /\ ~Writer("free", fds[p], e)
    BY DEF Reader, Writer
  <2> QED BY <2>1, <2>3, <2>5, <2>6, MoveOne
<1>4. CASE MainNoChild \/ MainExit
  <2>1. TypeOK' /\ UNCHANGED <<pc, cmd, pfd, fds>>
    BY <1>0, <1>4 DEF MainNoChild, MainExit, TypeOK
  <2> QED BY <2>1, KeepsTables
<1> QED BY <1>1, <1>2, <1>3, <1>4 DEF MainStep, MainWait

\* No process has a descriptor before the first line.
LEMMA ShellInvInit ==
  ASSUME Init
  PROVE  ShellInv
<1>1. TypeOK
  BY ShellAssumption, EndTypes DEF Init, TypeOK, Points, NoFile, FD
<1>2. CmdType
  BY EmptySeq DEF Init, CmdType
<1>3. Shape
  BY EndTypes DEF Init, Shape, ShapeOf, FD
<1>4. OneEach
  BY DEF Init, OneEach, Reader, Writer
<1> QED BY <1>1, <1>2, <1>3, <1>4 DEF ShellInv

\* The invariant of the descriptors holds for every set of lines.
THEOREM ShellInvariance == Spec => []ShellInv
<1>1. Init => ShellInv
  BY ShellInvInit
<1>2. ShellInv /\ [Next]_vars => ShellInv'
  <2> SUFFICES ASSUME ShellInv, [Next]_vars PROVE ShellInv'
    OBVIOUS
  <2>1. CASE Ended \/ UNCHANGED vars
    <3>1. TypeOK' /\ UNCHANGED <<pc, cmd, pfd, fds>>
      BY <2>1 DEF Ended, vars, shellVars, ShellInv, TypeOK
    <3> QED BY <3>1, KeepsTables
  <2> QED BY <2>1, ProcInv, MainInv DEF Next
<1> QED BY <1>1, <1>2, PTL DEF Spec

\* Every variable of the shell keeps its type: no redirection and no pipe runs
\* out of the six descriptors, and no pipe holds more than it has room for.
THEOREM TypeCorrect == Spec => []TypeOK
<1>1. ShellInv => TypeOK
  BY DEF ShellInv
<1> QED BY <1>1, ShellInvariance, PTL

\* However long the pipeline and whatever fails, a program that runcmd() starts
\* has an end of a pipe only as its stdin or stdout, and alone.
THEOREM EndsArePrivate == Spec => []EndsPrivate
<1>1. ShellInv => EndsPrivate
  <2> SUFFICES ASSUME ShellInv, NEW p \in Procs, pc[p] = "program", NEW d \in FD
               PROVE  /\ fds[p][d].end = "r" => d = 0
                      /\ fds[p][d].end = "w" => d = 1
                      /\ fds[p][d].end \in {"r", "w"} =>
                           \A q \in Procs \ {p} :
                             pc[q] = "program" => ~Holds(q, fds[p][d])
    BY DEF EndsPrivate
  <2>1. ASSUME NEW q \in Procs, pc[q] = "program", NEW x \in FD
        PROVE  /\ fds[q][x].end = "r" => x = 0
               /\ fds[q][x].end = "w" => x = 1
    <3>1. ShapeOf(pc[q], fds[q], cmd[q], pfd[q])
      BY DEF ShellInv, Shape
    <3>2. x = 0 \/ x = 1 \/ x = 2 \/ x = 3 \/ x = 4 \/ x = 5
      BY DEF FD
    <3> QED BY <2>1, <3>1, <3>2, EndTypes DEF ShapeOf
  <2> DEFINE e == fds[p][d]
  <2>2. e \in Ends
    BY DEF ShellInv, TypeOK
  <2>3. ASSUME e.end \in {"r", "w"}, NEW q \in Procs \ {p}, pc[q] = "program",
               NEW x \in FD, fds[q][x] = e
        PROVE  FALSE
    <3>1. CASE e.end = "r"
      <4>1. d = 0 /\ x = 0
        BY <2>1, <2>3, <3>1
      <4>2. Reader(pc[p], fds[p], e) /\ Reader(pc[q], fds[q], e)
        BY <2>3, <4>1 DEF Reader
      <4> QED BY <2>2, <3>1, <4>2 DEF ShellInv, OneEach
    <3>2. CASE e.end = "w"
      <4>1. d = 1 /\ x = 1
        BY <2>1, <2>3, <3>2
      <4>2. Writer(pc[p], fds[p], e) /\ Writer(pc[q], fds[q], e)
        BY <2>3, <4>1 DEF Writer
      <4> QED BY <2>2, <3>2, <4>2 DEF ShellInv, OneEach
    <3> QED BY <2>3, <3>1, <3>2
  <2> QED BY <2>1, <2>3 DEF Holds
<1> QED BY <1>1, ShellInvariance, PTL
-----------------------------------------------------------------------------
(***************************************************************************)
(* The output of a line.  What its stages compose to is defined by         *)
(* recursion over the places of the line; that there is such a function is *)
(* shown by induction first.                                               *)
(***************************************************************************)

\* What is written is counted in natural numbers.
LEMMA OutputType ==
  ASSUME NEW n \in Nat
  PROVE  /\ \A prog \in Programs : Output(prog, n) \in Nat
         /\ \A s \in Stages : StageOutput(s, n) \in Nat
<1>1. ASSUME NEW prog \in Programs, NEW m \in Nat PROVE Output(prog, m) \in Nat
  BY ShellAssumption DEF Output, Programs
<1>2. ASSUME NEW s \in Stages PROVE StageOutput(s, n) \in Nat
  <2>1. s.prog \in Programs
    BY DEF Stages
  <2> QED BY <1>1, <2>1 DEF StageOutput
<1> QED BY <1>1, <1>2

\* g is what the stages of l before and at each place write.
Tells(g, l, n) ==
  /\ g \in [0..n -> Nat] /\ g[0] = 0
  /\ \A k \in 1..n : g[k] = StageOutput(l[k], g[k - 1])

\* There is such a g: the recursion is defined place by place.
LEMMA WrittenExists ==
  ASSUME NEW l \in Seq(Stages)
  PROVE  \E g : Tells(g, l, Len(l))
<1> DEFINE A == {n \in Nat : n <= Len(l) => \E g : Tells(g, l, n)}
<1>1. 0 \in A
  <2>1. Tells([k \in 0..0 |-> 0], l, 0)
    BY DEF Tells
  <2> QED BY <2>1
<1>2. ASSUME NEW n \in A PROVE n + 1 \in A
  <2> SUFFICES ASSUME n + 1 <= Len(l) PROVE \E g : Tells(g, l, n + 1)
    OBVIOUS
  <2>0. n \in Nat /\ Len(l) \in Nat
    BY LenProperties
  <2>1. PICK g : Tells(g, l, n)
    BY <2>0
  <2> DEFINE v == StageOutput(l[n + 1], g[n])
             h == [k \in 0..(n + 1) |-> IF k = n + 1 THEN v ELSE g[k]]
  <2>2. v \in Nat
    <3>1. g[n] \in Nat
      BY <2>0, <2>1 DEF Tells
    <3>2. l[n + 1] \in Stages
      BY <2>0, ElementOfSeq
    <3> QED BY <3>1, <3>2, OutputType
  <2>3. /\ h \in [0..(n + 1) -> Nat] /\ h[n + 1] = v
        /\ \A k \in 0..n : h[k] = g[k]
    <3> HIDE DEF v
    <3> QED BY <2>0, <2>1, <2>2 DEF Tells
  <2> HIDE DEF h
  <2>4. h[0] = 0 /\ h[n] = g[n]
    BY <2>0, <2>1, <2>3 DEF Tells
  <2>5. ASSUME NEW k \in 1..(n + 1) PROVE h[k] = StageOutput(l[k], h[k - 1])
    <3>1. CASE k = n + 1
      <4>1. k - 1 = n
        BY <2>0, <3>1
      <4> QED BY <2>3, <2>4, <3>1, <4>1
    <3>2. CASE k # n + 1
      <4>1. k \in 1..n /\ k \in 0..n /\ k - 1 \in 0..n
        BY <2>0, <3>2
      <4>2. h[k] = g[k] /\ h[k - 1] = g[k - 1]
        BY <2>3, <4>1
      <4> QED BY <2>1, <4>1, <4>2 DEF Tells
    <3> QED BY <3>1, <3>2
  <2>6. Tells(h, l, n + 1)
    BY <2>3, <2>4, <2>5 DEF Tells
  <2> QED BY <2>6
<1>3. A = Nat
  <2> HIDE DEF A
  <2>1. A \in SUBSET Nat
    BY DEF A
  <2> QED BY <1>1, <1>2, <2>1, NumberInduction
<1> QED BY <1>3, LenProperties

\* The composition of the stages, place by place.
LEMMA WrittenIs ==
  ASSUME NEW l \in Seq(Stages)
  PROVE  Tells(Written(l), l, Len(l))
<1> DEFINE Is(g) == g = [k \in 0..Len(l) |->
                           IF k = 0 THEN 0 ELSE StageOutput(l[k], g[k - 1])]
<1>0. Len(l) \in Nat
  BY LenProperties
<1>1. Written(l) = CHOOSE g : Is(g)
  BY DEF Written
<1>2. PICK g : Tells(g, l, Len(l))
  BY WrittenExists
<1>3. Is(g)
  <2>1. ASSUME NEW k \in 0..Len(l)
        PROVE  g[k] = IF k = 0 THEN 0 ELSE StageOutput(l[k], g[k - 1])
    BY <1>0, <1>2 DEF Tells
  <2>2. g = [k \in 0..Len(l) |-> g[k]]
    BY <1>2 DEF Tells
  <2> QED BY <2>1, <2>2
<1>4. Is(Written(l))
  <2> HIDE DEF Is
  <2> QED BY <1>1, <1>3
<1> DEFINE w == Written(l)
<1>5. w = [k \in 0..Len(l) |-> IF k = 0 THEN 0 ELSE StageOutput(l[k], w[k - 1])]
  BY <1>4
<1> HIDE DEF w
<1>6. w[0] = 0 /\ \A k \in 1..Len(l) : w[k] = StageOutput(l[k], w[k - 1])
  <2>1. 0 \in 0..Len(l) /\ \A k \in 1..Len(l) : k \in 0..Len(l) /\ k # 0
    BY <1>0
  <2> DEFINE F(k) == IF k = 0 THEN 0 ELSE StageOutput(l[k], w[k - 1])
  <2>2. \A k \in 0..Len(l) : w[k] = F(k)
    <3> HIDE DEF F
    <3>1. w = [k \in 0..Len(l) |-> F(k)]
      BY <1>5 DEF F
    <3> QED BY <3>1
  <2> QED BY <2>1, <2>2
<1>7. ASSUME NEW k \in 0..Len(l) PROVE w[k] \in Nat
  <2> DEFINE A == {n \in Nat : n <= Len(l) => w[n] \in Nat}
  <2>1. 0 \in A
    BY <1>6
  <2>2. ASSUME NEW n \in A PROVE n + 1 \in A
    <3> SUFFICES ASSUME n + 1 <= Len(l) PROVE w[n + 1] \in Nat
      OBVIOUS
    <3>1. n + 1 \in 1..Len(l) /\ (n + 1) - 1 = n /\ w[n] \in Nat
      BY <1>0
    <3>2. l[n + 1] \in Stages
      BY <3>1, ElementOfSeq
    <3>3. w[n + 1] = StageOutput(l[n + 1], w[n])
      BY <1>6, <3>1
    <3> QED BY <3>1, <3>2, <3>3, OutputType
  <2>3. A = Nat
    <3> HIDE DEF A
    <3>1. A \in SUBSET Nat
      BY DEF A
    <3> QED BY <2>1, <2>2, <3>1, NumberInduction
  <2> QED BY <1>0, <2>3
<1>8. w \in [0..Len(l) -> Nat]
  <2>1. w = [k \in 0..Len(l) |-> w[k]]
    BY <1>5
  <2> QED BY <1>7, <2>1
<1> QED BY <1>6, <1>8 DEF Tells, w
-----------------------------------------------------------------------------
(***************************************************************************)
(* The part each process has in a pipeline.                                *)
(***************************************************************************)

\* A process at point at, with table f, command c and parent by.  Only the
\* child of main() meets pipes, and it keeps the terminal as its stdout; what
\* it forks writes to a pipe, or to what a redirection has put in its place.
RoleOf(at, f, c, by) ==
  /\ at \in {"fork", "right"} => by = Main /\ f[1] = Tty
  /\ at = "runcmd" /\ Len(c) # 1 => by = Main /\ f[1] = Tty
  /\ by # Main /\ at \in {"runcmd", "program"} => f[1].end # "tty"
  /\ by = Main => f[1].end # "w" /\ at \notin {"free", "left"}
  /\ at = "runcmd" /\ Len(c) = 0 => f[0] = Tty
  /\ at = "fork" => f[4].id = f[3].id
  /\ at = "program" => c[1].prog # "none"

Roles == \A p \in Procs : RoleOf(pc[p], fds[p], cmd[p], parent[p])

\* A step of process p alone, after which its role is right.
LEMMA RoleMove ==
  ASSUME Roles, NEW p \in Procs,
         \A q \in Procs \ {p} : /\ pc'[q] = pc[q] /\ fds'[q] = fds[q]
                                /\ cmd'[q] = cmd[q] /\ parent'[q] = parent[q],
         RoleOf(pc'[p], fds'[p], cmd'[p], parent'[p])
  PROVE  Roles'
<1>1. ASSUME NEW q \in Procs PROVE RoleOf(pc'[q], fds'[q], cmd'[q], parent'[q])
  BY DEF Roles
<1> QED BY <1>1 DEF Roles, RoleOf, Tty, Main

\* exit() gives the children of a process to init.
LEMMA ExitRoles ==
  ASSUME ShellInv, Roles, NEW p \in Procs, Exit(p)
  PROVE  Roles'
<1>0. TypeOK /\ CmdType
  BY DEF ShellInv
<1>1. ASSUME NEW q \in Procs PROVE RoleOf(pc'[q], fds'[q], cmd'[q], parent'[q])
  <2>0. RoleOf(pc[q], fds[q], cmd[q], parent[q])
    BY DEF Roles
  <2>1. parent'[q] = (IF parent[q] = p THEN InitP ELSE parent[q])
    BY DEF Exit
  <2>2. CASE q = p
    <3>1. fds'[p] = [d \in FD |-> Closed]
      BY <1>0 DEF Exit, TypeOK
    <3>2. fds'[p][1] = Closed
      BY <3>1 DEF FD
    <3>3. /\ pc'[p] \in {"free", "zombie"}
          /\ parent[p] # InitP /\ parent[p] # p => pc'[p] = "zombie"
      BY DEF Exit
    <3>4. parent'[p] = Main => pc'[p] = "zombie"
      BY <2>1, <2>2, <3>3, Outsiders
    <3> QED BY <2>2, <3>2, <3>3, <3>4, EndTypes DEF RoleOf
  <2>3. CASE q # p
    <3>1. fds'[q] = fds[q] /\ cmd'[q] = cmd[q]
      BY <1>0, <2>3 DEF Exit, TypeOK, CmdType
    <3>2. pc'[q] = IF parent[q] = p /\ pc[q] = "zombie" THEN "free" ELSE pc[q]
      BY <2>3 DEF Exit
    <3> QED BY <2>0, <2>1, <3>1, <3>2, Outsiders DEF RoleOf
  <2> QED BY <2>2, <2>3
<1> QED BY <1>1 DEF Roles, RoleOf, Tty, Main
-----------------------------------------------------------------------------
(***************************************************************************)
(* An end of a pipe in a table names a pipe.                               *)
(***************************************************************************)
PipeEnds == {e \in Ends : e.end \in {"r", "w"} => e.id \in Pipes}
Tables == [FD -> PipeEnds]
PipeIds == fds \in [Procs -> Tables]

\* The ends of pipes are written as pipe() made them.
LEMMA PipeEndIs ==
  ASSUME NEW e \in PipeEnds
  PROVE  /\ e.end = "r" => e.id \in Pipes /\ e = ReadEnd(e.id)
         /\ e.end = "w" => e.id \in Pipes /\ e = WriteEnd(e.id)
  BY DEF PipeEnds, Ends, ReadEnd, WriteEnd

\* close(), open(), dup() and pipe() keep that.
LEMMA TableOps ==
  /\ Closed \in PipeEnds /\ Tty \in PipeEnds /\ \A d \in {0, 1} : File(d) \in PipeEnds
  /\ \A k \in Pipes : ReadEnd(k) \in PipeEnds /\ WriteEnd(k) \in PipeEnds
  /\ \A f \in Tables : \A d : Close(f, d) \in Tables
  /\ \A f \in Tables : \A e \in PipeEnds : Open(f, e) \in Tables
  /\ \A f \in Tables : \A d \in FD : Dup(f, d) \in Tables
<1>1. /\ Closed \in PipeEnds /\ Tty \in PipeEnds
      /\ \A d \in {0, 1} : File(d) \in PipeEnds
      /\ \A k \in Pipes : ReadEnd(k) \in PipeEnds /\ WriteEnd(k) \in PipeEnds
  BY EndTypes DEF PipeEnds, Ends, ReadEnd, WriteEnd
<1>2. ASSUME NEW f \in Tables, NEW d PROVE Close(f, d) \in Tables
  BY <1>1 DEF Close, Tables
<1>3. ASSUME NEW f \in Tables, NEW e \in PipeEnds PROVE Open(f, e) \in Tables
  BY DEF Open, Tables
<1>4. ASSUME NEW f \in Tables, NEW d \in FD PROVE Dup(f, d) \in Tables
  BY <1>3 DEF Dup, Tables
<1> QED BY <1>1, <1>2, <1>3, <1>4

\* The first stage of a command.
LEMMA StageType ==
  ASSUME NEW c \in Seq(Stages), Len(c) > 0
  PROVE  c[1] \in Stages /\ c[1].redirs \in Seq({0, 1}) /\ c[1].prog \in Programs
<1>1. 1 \in 1..Len(c)
  BY LenProperties
<1>2. c[1] \in Stages
  BY <1>1, ElementOfSeq
<1> QED BY <1>2 DEF Stages

\* No step puts anything else in a table.
LEMMA ProcPipeIds ==
  ASSUME ShellInv, PipeIds, NEW p \in Procs, ProcStep(p)
  PROVE  PipeIds'
<1> DEFINE f == fds[p]
<1>0. f \in Tables
  BY DEF PipeIds
<1>1. ASSUME NEW q \in Procs, NEW g \in Tables, fds' = [fds EXCEPT ![q] = g]
      PROVE  PipeIds'
  BY <1>1 DEF PipeIds
<1>2. CASE RunExit(p) \/ ProgExit(p) \/ ProgKilled(p)
  <2>1. fds' = [fds EXCEPT ![p] = [d \in FD |-> Closed]]
    BY <1>2 DEF RunExit, ProgExit, ProgKilled, Exit
  <2>2. [d \in FD |-> Closed] \in Tables
    BY TableOps DEF Tables
  <2> QED BY <1>1, <2>1, <2>2
<1>3. CASE RunExec(p) \/ RunNoFork(p) \/ ProgRead(p) \/ ProgWrite(p)
  BY <1>3 DEF RunExec, RunNoFork, ProgRead, ProgWrite, PipeIds
<1>4. CASE RunLeft(p) \/ RunRight(p)
  <2>1. pfd[p][1] \in FD /\ pfd[p][2] \in FD
    BY DEF ShellInv, TypeOK
  <2>2. ASSUME NEW r \in FD, NEW w \in FD
        PROVE  LeftFds(f, r, w) \in Tables /\ RightFds(f, r, w) \in Tables
    BY <1>0, TableOps DEF LeftFds, RightFds
  <2> HIDE DEF f
  <2>3. \/ fds' = [fds EXCEPT ![p] = LeftFds(f, pfd[p][1], pfd[p][2])]
        \/ fds' = [fds EXCEPT ![p] = RightFds(f, pfd[p][1], pfd[p][2])]
    BY <1>4 DEF RunLeft, RunRight, f
  <2> QED BY <1>1, <2>1, <2>2, <2>3
<1>5. ASSUME NEW ok \in BOOLEAN, RunRedir(p, ok) PROVE PipeIds'
  <2> DEFINE d == cmd[p][1].redirs[1]
             g == IF ok THEN Open(Close(f, d), File(d)) ELSE Close(f, d)
  <2>1. fds' = [fds EXCEPT ![p] = g]
    BY <1>5 DEF RunRedir
  <2>2. d \in {0, 1}
    <3>1. /\ cmd[p] \in Seq(Stages) /\ Len(cmd[p]) = 1 /\ cmd[p][1].redirs # <<>>
      BY <1>5 DEF RunRedir, ShellInv, CmdType
    <3>2. cmd[p][1].redirs \in Seq({0, 1})
      BY <3>1, StageType
    <3>3. 1 \in 1..Len(cmd[p][1].redirs)
      BY <3>1, <3>2, EmptySeq
    <3> QED BY <3>2, <3>3, ElementOfSeq
  <2> HIDE DEF d, f
  <2>3. g \in Tables
    BY <1>0, <2>2, TableOps
  <2> HIDE DEF g
  <2> QED BY <1>1, <2>1, <2>3
<1>6. ASSUME NEW k \in Pipes, RunPipe(p, k) PROVE PipeIds'
  <2>1. fds' = [fds EXCEPT ![p] = Open(Open(f, ReadEnd(k)), WriteEnd(k))]
    BY <1>6 DEF RunPipe
  <2>2. Open(Open(f, ReadEnd(k)), WriteEnd(k)) \in Tables
    BY <1>0, TableOps
  <2> QED BY <1>1, <2>1, <2>2
<1>7. ASSUME NEW q \in Procs, RunFork(p, q) PROVE PipeIds'
  BY <1>0, <1>1, <1>7 DEF RunFork, Child
<1> QED BY <1>2, <1>3, <1>4, <1>5, <1>6, <1>7 DEF ProcStep

-----------------------------------------------------------------------------
(***************************************************************************)
(* What each step does to the process that takes it.                       *)
(***************************************************************************)

\* Only process p changes...
Alone(p) ==
  /\ parent' = parent
  /\ \A q \in Procs \ {p} : /\ pc'[q] = pc[q] /\ fds'[q] = fds[q]
                            /\ cmd'[q] = cmd[q] /\ todo'[q] = todo[q]

\* ... and nothing is printed, nor fails.
Quiet == line' = line /\ out' = out /\ main_pc' = main_pc /\ failed' = failed

LEMMA Numbers ==
  0 \in FD /\ 1 \in FD /\ 2 \in FD /\ 3 \in FD /\ 4 \in FD /\ 5 \in FD
  BY DEF FD

\* execvp().
LEMMA ExecDoes ==
  ASSUME ShellInv, NEW p \in Procs, RunExec(p)
  PROVE  /\ Alone(p) /\ Quiet /\ buffer' = buffer
         /\ pc[p] = "runcmd" /\ pc'[p] = "program"
         /\ Len(cmd[p]) = 1 /\ cmd'[p] = cmd[p] /\ fds'[p] = fds[p]
         /\ cmd[p][1].redirs = <<>> /\ cmd[p][1].prog # "none"
         /\ todo'[p] = IF cmd[p][1].prog = "source" THEN ITEMS ELSE 0
  BY DEF ShellInv, TypeOK, RunExec, Alone, Quiet, shellVars

\* fork1() fails in a pipe.
LEMMA NoForkDoes ==
  ASSUME ShellInv, NEW p \in Procs, RunNoFork(p)
  PROVE  /\ Alone(p) /\ buffer' = buffer
         /\ line' = line /\ out' = out /\ main_pc' = main_pc
         /\ failed' # {}
         /\ pc[p] = "fork" /\ pc'[p] = "right"
         /\ cmd'[p] = cmd[p] /\ fds'[p] = fds[p]
  BY DEF ShellInv, TypeOK, RunNoFork, Alone, shellVars

\* The child of a pipe sets up its stdout...
LEMMA LeftDoes ==
  ASSUME ShellInv, NEW p \in Procs, RunLeft(p)
  PROVE  /\ Alone(p) /\ Quiet /\ buffer' = buffer
         /\ pc[p] = "left" /\ pc'[p] = "runcmd"
         /\ cmd'[p] = cmd[p] /\ Len(cmd[p]) = 1
         /\ fds[p][4].end = "w"
         /\ fds'[p][0] = fds[p][0] /\ fds'[p][1] = fds[p][4]
<1> DEFINE f == fds[p]
<1>0. /\ TypeOK /\ ShapeOf(pc[p], f, cmd[p], pfd[p])
      /\ f \in [FD -> Ends] /\ pc[p] = "left"
  BY DEF ShellInv, Shape, TypeOK, RunLeft
<1>1. /\ AllOpen(f) /\ pfd[p] = <<3, 4>> /\ f[3] # Closed /\ f[4] # Closed
      /\ f[4].end = "w" /\ Len(cmd[p]) = 1
  BY <1>0, EndTypes DEF ShapeOf
<1>2. LeftFds(f, 3, 4)[0] = f[0] /\ LeftFds(f, 3, 4)[1] = f[4]
  BY <1>0, <1>1, Numbers, SideFds
<1>3. fds'[p] = LeftFds(f, 3, 4)
  BY <1>0, <1>1 DEF RunLeft, TypeOK
<1>4. Alone(p) /\ Quiet /\ buffer' = buffer /\ pc'[p] = "runcmd" /\ cmd'[p] = cmd[p]
  BY <1>0 DEF RunLeft, TypeOK, Alone, Quiet, shellVars
<1> QED BY <1>0, <1>1, <1>2, <1>3, <1>4

\* ... and the parent its stdin.
LEMMA RightDoes ==
  ASSUME ShellInv, NEW p \in Procs, RunRight(p)
  PROVE  /\ Alone(p) /\ Quiet /\ buffer' = buffer
         /\ pc[p] = "right" /\ pc'[p] = "runcmd"
         /\ cmd'[p] = Tail(cmd[p]) /\ Len(cmd[p]) > 1
         /\ fds'[p][0] = fds[p][3] /\ fds'[p][1] = fds[p][1]
<1> DEFINE f == fds[p]
<1>0. /\ TypeOK /\ CmdType /\ ShapeOf(pc[p], f, cmd[p], pfd[p])
      /\ f \in [FD -> Ends] /\ pc[p] = "right"
  BY DEF ShellInv, Shape, TypeOK, RunRight
<1>1. /\ AllOpen(f) /\ pfd[p] = <<3, 4>> /\ f[3] # Closed /\ f[4] # Closed
      /\ Len(cmd[p]) > 1
  BY <1>0, EndTypes DEF ShapeOf
<1>2. RightFds(f, 3, 4)[0] = f[3] /\ RightFds(f, 3, 4)[1] = f[1]
  BY <1>0, <1>1, Numbers, SideFds
<1>3. fds'[p] = RightFds(f, 3, 4)
  BY <1>0, <1>1 DEF RunRight, TypeOK
<1>4. /\ Alone(p) /\ Quiet /\ buffer' = buffer
      /\ pc'[p] = "runcmd" /\ cmd'[p] = Tail(cmd[p])
  BY <1>0 DEF RunRight, TypeOK, CmdType, Alone, Quiet, shellVars
<1> QED BY <1>0, <1>1, <1>2, <1>3, <1>4

\* pipe().
LEMMA PipeDoes ==
  ASSUME ShellInv, NEW p \in Procs, NEW k \in Pipes, RunPipe(p, k)
  PROVE  /\ Alone(p) /\ Quiet /\ buffer' = [buffer EXCEPT ![k] = 0]
         /\ pc[p] = "runcmd" /\ pc'[p] = "fork"
         /\ cmd'[p] = cmd[p] /\ Len(cmd[p]) > 1
         /\ fds'[p][0] = fds[p][0] /\ fds'[p][1] = fds[p][1]
         /\ fds'[p][3] = ReadEnd(k) /\ fds'[p][4] = WriteEnd(k)
         /\ \A q \in Procs : /\ ~Reader(pc[q], fds[q], ReadEnd(k))
                             /\ ~Writer(pc[q], fds[q], WriteEnd(k))
<1> DEFINE f == fds[p]
           g == Open(Open(f, ReadEnd(k)), WriteEnd(k))
<1>0. /\ TypeOK /\ ShapeOf(pc[p], f, cmd[p], pfd[p])
      /\ f \in [FD -> Ends] /\ pc[p] = "runcmd" /\ Len(cmd[p]) > 1
  BY DEF ShellInv, Shape, TypeOK, RunPipe
<1>1. AllOpen(f) /\ f[3] = Closed /\ f[4] = Closed
  BY <1>0 DEF ShapeOf
<1>2. g = [x \in FD |-> IF x = 3 THEN ReadEnd(k)
                        ELSE IF x = 4 THEN WriteEnd(k) ELSE f[x]]
  BY <1>0, <1>1, PipeFds
<1>3. fds' = [fds EXCEPT ![p] = g]
  BY DEF RunPipe
<1> HIDE DEF g
<1>4. /\ g[0] = f[0] /\ g[1] = f[1] /\ g[3] = ReadEnd(k) /\ g[4] = WriteEnd(k)
  BY <1>2, Numbers
<1>5. /\ pc' = [pc EXCEPT ![p] = "fork"] /\ buffer' = [buffer EXCEPT ![k] = 0]
      /\ UNCHANGED <<shellVars, cmd, parent, todo, out, failed>>
  BY DEF RunPipe
<1>6. /\ Alone(p) /\ Quiet /\ pc'[p] = "fork" /\ cmd'[p] = cmd[p] /\ fds'[p] = g
  BY <1>0, <1>3, <1>5 DEF TypeOK, Alone, Quiet, shellVars
<1>7. \A q \in Procs : ~Holds(q, ReadEnd(k)) /\ ~Holds(q, WriteEnd(k))
  BY DEF RunPipe, HasReader, HasWriter
<1>8. \A q \in Procs : /\ ~Reader(pc[q], fds[q], ReadEnd(k))
                       /\ ~Writer(pc[q], fds[q], WriteEnd(k))
  BY <1>7, MeantHeld
<1> QED BY <1>0, <1>4, <1>5, <1>6, <1>8

\* fork1() in a pipe.
LEMMA ForkDoes ==
  ASSUME ShellInv, NEW p \in Procs, NEW q \in Procs, RunFork(p, q)
  PROVE  /\ Quiet /\ buffer' = buffer /\ p # q
         /\ pc[p] = "fork" /\ pc[q] = "free"
         /\ pc'[p] = "right" /\ pc'[q] = "left"
         /\ cmd'[p] = cmd[p] /\ cmd'[q] = <<cmd[p][1]>>
         /\ fds'[p] = fds[p] /\ fds'[q] = fds[p] /\ todo' = todo
         /\ parent' = [parent EXCEPT ![q] = p]
         /\ \A r \in Procs \ {p, q} :
              pc'[r] = pc[r] /\ fds'[r] = fds[r] /\ cmd'[r] = cmd[r]
<1>0. TypeOK /\ CmdType
  BY DEF ShellInv
<1>1. pc[p] = "fork" /\ pc[q] = "free" /\ p # q
  BY DEF RunFork, Child, FreeProc
<1> DEFINE c == <<cmd[p][1]>>
<1>2. /\ fds' = [fds EXCEPT ![q] = fds[p]] /\ parent' = [parent EXCEPT ![q] = p]
      /\ cmd' = [cmd EXCEPT ![q] = c]
      /\ pc' = [pc EXCEPT ![p] = "right", ![q] = "left"]
      /\ UNCHANGED <<shellVars, todo, buffer, out, failed>>
  BY DEF RunFork, Child
<1> HIDE DEF c
<1>3. /\ pc'[p] = "right" /\ pc'[q] = "left" /\ cmd'[p] = cmd[p] /\ cmd'[q] = c
      /\ fds'[p] = fds[p] /\ fds'[q] = fds[p]
      /\ \A r \in Procs \ {p, q} :
              pc'[r] = pc[r] /\ fds'[r] = fds[r] /\ cmd'[r] = cmd[r]
  BY <1>0, <1>1, <1>2 DEF TypeOK, CmdType
<1> QED BY <1>1, <1>2, <1>3 DEF c, Quiet, shellVars

\* exit().
LEMMA ExitDoes ==
  ASSUME ShellInv, NEW p \in Procs, Exit(p)
  PROVE  /\ Quiet /\ buffer' = buffer
         /\ pc'[p] \in {"free", "zombie"}
         /\ parent' = [q \in Procs |-> IF parent[q] = p THEN InitP ELSE parent[q]]
         /\ \A q \in Procs \ {p} :
              /\ fds'[q] = fds[q] /\ cmd'[q] = cmd[q] /\ todo'[q] = todo[q]
              /\ pc'[q] = IF parent[q] = p /\ pc[q] = "zombie" THEN "free" ELSE pc[q]
  BY DEF ShellInv, TypeOK, CmdType, Exit, Quiet, shellVars

\* What a redirection leaves at 0 and 1.
LEMMA RedirEnds ==
  ASSUME NEW f \in [FD -> Ends], NEW d \in {0, 1}, NEW ok \in BOOLEAN,
         NEW g, g = IF ok THEN Open(Close(f, d), File(d)) ELSE Close(f, d)
  PROVE  /\ d = 0 => g[0].end # "r" /\ g[1] = f[1]
         /\ d = 1 => /\ g[1].end \notin {"tty", "w"}
                     /\ g[0] = f[0] \/ (f[0] = Closed /\ g[0].end = "file")
<1> DEFINE h == Close(f, d)
<1>0. d \in FD /\ File(d).end = "file" /\ Closed.end = "closed"
  BY EndTypes DEF FD
<1>1. /\ h \in [FD -> Ends] /\ h[d] = Closed
      /\ \A x \in FD : x # d => h[x] = f[x]
  BY <1>0, EndTypes DEF Close
<1> HIDE DEF h
<1>2. CASE ~ok
  BY <1>0, <1>1, <1>2, Numbers DEF h
<1>3. CASE ok
  <2>1. g = [h EXCEPT ![LowestFree(h)] = File(d)]
    BY <1>3 DEF h, Open
  <2>2. \A x \in FD : ~(x < 0) /\ (x < 1 => x = 0)
    BY DEF FD
  <2>3. CASE h[0] = Closed
    <3>1. LowestFree(h) = 0
      BY <2>2, <2>3, Numbers, LowestIs
    <3>2. g[0] = File(d) /\ g[1] = h[1]
      BY <1>1, <2>1, <3>1, Numbers
    <3> QED BY <1>0, <1>1, <2>3, <3>2, Numbers
  <2>4. CASE h[0] # Closed
    <3>1. d = 1
      BY <1>1, <2>4
    <3>2. LowestFree(h) = 1
      BY <1>1, <2>2, <2>4, <3>1, Numbers, LowestIs
    <3>3. g[1] = File(d) /\ g[0] = f[0]
      BY <1>1, <2>1, <3>1, <3>2, Numbers
    <3> QED BY <1>0, <3>1, <3>3
  <2> QED BY <2>3, <2>4
<1> QED BY <1>2, <1>3

\* open() for a redirection.
LEMMA RedirDoes ==
  ASSUME ShellInv, NEW p \in Procs, NEW ok \in BOOLEAN, RunRedir(p, ok)
  PROVE  /\ Alone(p) /\ buffer' = buffer
         /\ line' = line /\ out' = out /\ main_pc' = main_pc
         /\ failed' = {} => failed = {}
         /\ pc[p] = "runcmd" /\ pc'[p] = "runcmd"
         /\ Len(cmd[p]) = 1 /\ Len(cmd'[p]) = 1
         /\ cmd[p][1] \in Stages /\ cmd[p][1].redirs # <<>>
         /\ cmd'[p][1].redirs = Tail(cmd[p][1].redirs)
         /\ cmd'[p][1].prog = cmd[p][1].prog
         /\ LET d == cmd[p][1].redirs[1]
            IN /\ d \in {0, 1}
               /\ d = 0 => fds'[p][0].end # "r" /\ fds'[p][1] = fds[p][1]
               /\ d = 1 => /\ fds'[p][1].end \notin {"tty", "w"}
                           /\ \/ fds'[p][0] = fds[p][0]
                              \/ fds[p][0] = Closed /\ fds'[p][0].end = "file"
<1> DEFINE f == fds[p]
           s == cmd[p][1]
           d == s.redirs[1]
           g == IF ok THEN Open(Close(f, d), File(d)) ELSE Close(f, d)
           t == [s EXCEPT !.redirs = Tail(s.redirs)]
<1>0. /\ TypeOK /\ CmdType /\ f \in [FD -> Ends] /\ cmd[p] \in Seq(Stages)
      /\ pc[p] = "runcmd" /\ Len(cmd[p]) = 1 /\ s.redirs # <<>>
  BY DEF ShellInv, TypeOK, CmdType, RunRedir
<1>1. s \in Stages /\ s.redirs \in Seq({0, 1})
  BY <1>0, StageType
<1>2. d \in {0, 1}
  <2>1. 1 \in 1..Len(s.redirs)
    BY <1>0, <1>1, EmptySeq
  <2> QED BY <1>1, <2>1, ElementOfSeq
<1>3. t.redirs = Tail(s.redirs) /\ t.prog = s.prog
  BY <1>1 DEF Stages
<1>4. cmd' = [cmd EXCEPT ![p] = [cmd[p] EXCEPT ![1] = t]]
  BY DEF RunRedir
<1>5. fds' = [fds EXCEPT ![p] = g]
  BY DEF RunRedir
<1>6. UNCHANGED <<shellVars, pc, parent, pfd, todo, buffer, out>>
  BY DEF RunRedir
<1>7. failed' = {} => failed = {}
  BY DEF RunRedir
<1>8. /\ d = 0 => g[0].end # "r" /\ g[1] = f[1]
      /\ d = 1 => /\ g[1].end \notin {"tty", "w"}
                  /\ g[0] = f[0] \/ (f[0] = Closed /\ g[0].end = "file")
  <2> HIDE DEF d, f
  <2>1. g = IF ok THEN Open(Close(f, d), File(d)) ELSE Close(f, d)
    BY Zenon
  <2> HIDE DEF g
  <2> QED BY <1>0, <1>2, <2>1, RedirEnds
<1> HIDE DEF t, g
<1>9. fds'[p] = g /\ \A q \in Procs \ {p} : fds'[q] = fds[q]
  BY <1>0, <1>5 DEF TypeOK
<1>10. /\ \A q \in Procs \ {p} : cmd'[q] = cmd[q]
       /\ cmd'[p] = [cmd[p] EXCEPT ![1] = t]
  BY <1>0, <1>4 DEF CmdType
<1>11. Len(cmd'[p]) = 1 /\ cmd'[p][1] = t
  <2>1. 1 \in 1..Len(cmd[p]) /\ DOMAIN cmd[p] = 1..Len(cmd[p])
    BY <1>0, LenProperties
  <2>2. cmd'[p][1] = t
    BY <1>10, <2>1
  <2>3. DOMAIN cmd'[p] = 1..1 /\ Len(cmd'[p]) = 1
    <3>1. t \in Stages
      <4>1. Tail(s.redirs) \in Seq({0, 1})
        BY <1>0, <1>1, HeadTailProperties
      <4> QED BY <1>1, <4>1 DEF Stages, t
    <3> QED BY <1>0, <1>4, <3>1, FirstStage
  <2> QED BY <2>2, <2>3
<1> QED BY <1>0, <1>1, <1>2, <1>3, <1>6, <1>7, <1>8, <1>9, <1>10, <1>11
        DEF Alone, shellVars

\* A program reads an item; head then has all it will write.
LEMMA ReadDoes ==
  ASSUME ShellInv, PipeIds, NEW p \in Procs, ProgRead(p)
  PROVE  /\ Alone(p) /\ Quiet
         /\ pc[p] = "program" /\ pc'[p] = "program" /\ fds'[p] = fds[p]
         /\ fds[p][0].end = "r" /\ fds[p][0].id \in Pipes /\ buffer[fds[p][0].id] > 0
         /\ buffer' = [buffer EXCEPT ![fds[p][0].id] = buffer[fds[p][0].id] - 1]
         /\ todo[p] = 0 /\ todo'[p] = 1
         /\ \/ cmd[p][1].prog = "filter" /\ cmd'[p][1].prog = "filter"
            \/ cmd[p][1].prog = "head" /\ cmd'[p][1].prog = "source"
<1> DEFINE s == cmd[p][1]
           t == [s EXCEPT !.prog = IF s.prog = "head" THEN "source" ELSE s.prog]
<1>0. /\ TypeOK /\ CmdType /\ ShapeOf(pc[p], fds[p], cmd[p], pfd[p])
      /\ cmd[p] \in Seq(Stages) /\ pc[p] = "program" /\ todo[p] = 0
      /\ s.prog \in {"filter", "head"}
      /\ fds[p][0].end = "r" /\ buffer[fds[p][0].id] > 0
  BY DEF ShellInv, Shape, TypeOK, CmdType, ProgRead, Reads, Stdin
<1>1. Len(cmd[p]) = 1
  BY <1>0 DEF ShapeOf
<1>2. s \in Stages
  BY <1>0, <1>1, StageType
<1>3. t.prog = IF s.prog = "head" THEN "source" ELSE s.prog
  BY <1>2 DEF Stages
<1>4. cmd' = [cmd EXCEPT ![p] = [cmd[p] EXCEPT ![1] = t]]
  BY DEF ProgRead
<1> HIDE DEF t
<1>5. /\ \A q \in Procs \ {p} : cmd'[q] = cmd[q]
      /\ cmd'[p] = [cmd[p] EXCEPT ![1] = t]
  BY <1>0, <1>4 DEF CmdType
<1>6. cmd'[p][1] = t
  <2>1. 1 \in 1..Len(cmd[p]) /\ DOMAIN cmd[p] = 1..Len(cmd[p])
    BY <1>0, <1>1, LenProperties
  <2> QED BY <1>5, <2>1
<1>7. /\ UNCHANGED <<shellVars, pc, parent, fds, out, failed>>
      /\ buffer' = [buffer EXCEPT ![fds[p][0].id] = buffer[fds[p][0].id] - 1]
      /\ todo' = [todo EXCEPT ![p] = 1]
  BY DEF ProgRead, Stdin
<1>8. /\ todo'[p] = 1 /\ \A q \in Procs \ {p} : todo'[q] = todo[q]
  BY <1>0, <1>7 DEF TypeOK
<1>9. fds[p][0].id \in Pipes
  <2>1. fds[p][0] \in PipeEnds
    BY Numbers DEF PipeIds, Tables
  <2> QED BY <1>0, <2>1, PipeEndIs
<1> QED BY <1>0, <1>3, <1>5, <1>6, <1>7, <1>8, <1>9 DEF Alone, Quiet, shellVars

\* A program writes an item.
LEMMA WriteDoes ==
  ASSUME ShellInv, NEW p \in Procs, ProgWrite(p)
  PROVE  /\ Alone(p) /\ line' = line /\ main_pc' = main_pc /\ failed' = failed
         /\ pc[p] = "program" /\ pc'[p] = "program"
         /\ fds'[p] = fds[p] /\ cmd'[p] = cmd[p]
         /\ todo[p] > 0 /\ todo'[p] = todo[p] - 1
         /\ out' = IF fds[p][1].end = "tty" THEN out + 1 ELSE out
         /\ buffer' = IF fds[p][1].end = "w"
                      THEN [buffer EXCEPT ![fds[p][1].id] = buffer[fds[p][1].id] + 1]
                      ELSE buffer
  BY DEF ShellInv, TypeOK, ProgWrite, Stdout, Alone, shellVars

\* Every step of a process keeps the roles.
LEMMA ProcRoles ==
  ASSUME ShellInv, PipeIds, Roles, NEW p \in Procs, ProcStep(p)
  PROVE  Roles'
<1>0. /\ RoleOf(pc[p], fds[p], cmd[p], parent[p])
      /\ ShapeOf(pc[p], fds[p], cmd[p], pfd[p])
      /\ TypeOK /\ CmdType
  BY DEF Roles, ShellInv, Shape
<1>1. ASSUME Alone(p), RoleOf(pc'[p], fds'[p], cmd'[p], parent[p]) PROVE Roles'
  <2>1. \A q \in Procs \ {p} : /\ pc'[q] = pc[q] /\ fds'[q] = fds[q]
                               /\ cmd'[q] = cmd[q] /\ parent'[q] = parent[q]
    BY <1>1 DEF Alone
  <2>2. parent' = parent
    BY <1>1 DEF Alone
  <2> QED BY <1>1, <2>1, <2>2, RoleMove
<1>2. CASE RunExit(p) \/ ProgExit(p) \/ ProgKilled(p)
  BY <1>2, ExitRoles DEF RunExit, ProgExit, ProgKilled
<1>3. CASE RunExec(p)
  BY <1>0, <1>1, <1>3, ExecDoes DEF RoleOf
<1>4. CASE RunNoFork(p)
  BY <1>0, <1>1, <1>4, NoForkDoes DEF RoleOf
<1>5. CASE RunLeft(p)
  BY <1>0, <1>1, <1>5, LeftDoes DEF RoleOf
<1>6. CASE RunRight(p)
  <2>1. Len(Tail(cmd[p])) # 0
    <3>1. cmd[p] \in Seq(Stages) /\ Len(cmd[p]) > 1
      BY <1>0, <1>6, RightDoes DEF CmdType
    <3>2. cmd[p] # <<>>
      BY <3>1, EmptySeq
    <3>3. Len(Tail(cmd[p])) = Len(cmd[p]) - 1
      BY <3>1, <3>2, HeadTailProperties
    <3>4. Len(cmd[p]) \in Nat
      BY <3>1, LenProperties
    <3> DEFINE n == Len(cmd[p])
    <3>5. n \in Nat /\ n > 1
      BY <3>1, <3>4
    <3> HIDE DEF n
    <3>6. n - 1 # 0
      BY <3>5
    <3> QED BY <3>3, <3>6 DEF n
  <2> QED BY <1>0, <1>1, <1>6, <2>1, RightDoes DEF RoleOf
<1>7. ASSUME NEW ok \in BOOLEAN, RunRedir(p, ok) PROVE Roles'
  <2>1. fds'[p][1] = fds[p][1] \/ fds'[p][1].end \notin {"tty", "w"}
    BY <1>7, RedirDoes
  <2>2. /\ Alone(p) /\ pc[p] = "runcmd" /\ pc'[p] = "runcmd" /\ Len(cmd[p]) = 1
        /\ Len(cmd'[p]) = 1
    BY <1>7, RedirDoes
  <2> QED BY <1>0, <1>1, <2>1, <2>2 DEF RoleOf
<1>8. ASSUME NEW k \in Pipes, RunPipe(p, k) PROVE Roles'
  <2>1. ReadEnd(k).id = k /\ WriteEnd(k).id = k
    BY DEF ReadEnd, WriteEnd
  <2>2. /\ Alone(p) /\ pc[p] = "runcmd" /\ pc'[p] = "fork" /\ Len(cmd[p]) > 1
        /\ fds'[p][1] = fds[p][1]
        /\ fds'[p][3] = ReadEnd(k) /\ fds'[p][4] = WriteEnd(k)
    BY <1>8, PipeDoes
  <2>3. Len(cmd[p]) # 1
    <3> DEFINE n == Len(cmd[p])
    <3>1. n \in Nat /\ n > 1
      BY <1>0, <2>2, LenProperties DEF CmdType
    <3> HIDE DEF n
    <3>2. n # 1
      BY <3>1
    <3> QED BY <3>2 DEF n
  <2>4. parent[p] = Main /\ fds'[p][1] = Tty
    BY <1>0, <2>2, <2>3 DEF RoleOf
  <2> QED BY <1>1, <2>1, <2>2, <2>4, EndTypes DEF RoleOf
<1>9. ASSUME NEW q \in Procs, RunFork(p, q) PROVE Roles'
  <2>1. ASSUME NEW r \in Procs PROVE RoleOf(pc'[r], fds'[r], cmd'[r], parent'[r])
    <3>0. RoleOf(pc[r], fds[r], cmd[r], parent[r])
      BY DEF Roles
    <3>1. parent'[r] = IF r = q THEN p ELSE parent[r]
      BY <1>0, <1>9, ForkDoes DEF TypeOK
    <3>2. CASE r = q
      BY <1>9, <3>1, <3>2, ForkDoes, Outsiders DEF RoleOf
    <3>3. CASE r = p
      BY <1>0, <1>9, <3>1, <3>3, ForkDoes DEF RoleOf
    <3>4. CASE r # p /\ r # q
      BY <1>9, <3>0, <3>1, <3>4, ForkDoes
    <3> QED BY <3>2, <3>3, <3>4
  <2> QED BY <2>1 DEF Roles, RoleOf, Tty, Main
<1>10. CASE ProgRead(p)
  <2>1. /\ Alone(p) /\ pc[p] = "program" /\ pc'[p] = "program" /\ fds'[p] = fds[p]
        /\ cmd'[p][1].prog # "none"
    BY <1>10, ReadDoes
  <2> QED BY <1>0, <1>1, <2>1 DEF RoleOf
<1>11. CASE ProgWrite(p)
  BY <1>0, <1>1, <1>11, WriteDoes DEF RoleOf
<1> QED BY <1>2, <1>3, <1>4, <1>5, <1>6, <1>7, <1>8, <1>9, <1>10, <1>11 DEF ProcStep
-----------------------------------------------------------------------------
(***************************************************************************)
(* What flows through the pipes.  A flow says of every pipe how many items *)
(* are still to be read from it, those not yet written included.           *)
(***************************************************************************)
Flows == [Pipes -> Nat]

\* What can still be read at e.
Inflow(flow, e) == IF e.end = "r" THEN flow[e.id] ELSE 0

\* What a process at point at, with table f, command c and t items to write,
\* will still write to the stdout it is meant to have.
SupplyOf(flow, at, f, c, t) ==
  IF at = "program"
  THEN t + (IF c[1].prog = "source" THEN 0
            ELSE Output(c[1].prog, Inflow(flow, f[0])))
  ELSE StageOutput(c[1], Inflow(flow, f[0]))
Supply(flow, p) == SupplyOf(flow, pc[p], fds[p], cmd[p], todo[p])

IsRead(k) == \E r \in Procs : Reader(pc[r], fds[r], ReadEnd(k))
Writes(p, k) == Writer(pc[p], fds[p], WriteEnd(k))

\* What a pipe that somebody is meant to read will carry is what it holds and
\* what the process that is meant to write to it will still write.
PipeFlow(flow) ==
  \A k \in Pipes : IsRead(k) =>
    /\ \A p \in Procs : Writes(p, k) => flow[k] = buffer[k] + Supply(flow, p)
    /\ (\A p \in Procs : ~Writes(p, k)) => flow[k] = buffer[k]

\* All of this is counted in natural numbers.
LEMMA InflowType ==
  ASSUME NEW flow \in Flows, NEW e \in PipeEnds
  PROVE  Inflow(flow, e) \in Nat
  BY PipeEndIs DEF Flows, Inflow

\* So is what a process will still write.
LEMMA SupplyType ==
  ASSUME NEW flow \in Flows, NEW at, NEW f \in Tables, NEW c \in Seq(Stages),
         Len(c) > 0, NEW t \in Nat
  PROVE  SupplyOf(flow, at, f, c, t) \in Nat
<1>1. Inflow(flow, f[0]) \in Nat
  BY InflowType, Numbers DEF Tables
<1>2. c[1] \in Stages /\ c[1].prog \in Programs
  BY StageType
<1>3. /\ Output(c[1].prog, Inflow(flow, f[0])) \in Nat
      /\ StageOutput(c[1], Inflow(flow, f[0])) \in Nat
  BY <1>1, <1>2, OutputType
<1> QED BY <1>3 DEF SupplyOf

\* A process that is meant to write to a pipe is meant to read what is its
\* stdin now.
LEMMA WriterReads ==
  ASSUME PipeIds, Roles, NEW q \in Procs, NEW k, Writes(q, k), fds[q][0].end = "r"
  PROVE  /\ fds[q][0].id \in Pipes
         /\ Reader(pc[q], fds[q], ReadEnd(fds[q][0].id))
<1>1. fds[q][0] \in PipeEnds
  BY Numbers DEF PipeIds, Tables
<1>2. fds[q][0].id \in Pipes /\ fds[q][0] = ReadEnd(fds[q][0].id)
  BY <1>1, PipeEndIs
<1>3. pc[q] # "right"
  <2> SUFFICES ASSUME pc[q] = "right" PROVE FALSE
    OBVIOUS
  <2>1. fds[q][1] = Tty
    BY DEF Roles, RoleOf
  <2>2. fds[q][1] = WriteEnd(k)
    BY DEF Writes, Writer
  <2> QED BY <2>1, <2>2 DEF Tty, WriteEnd
<1> QED BY <1>2, <1>3 DEF Writes, Writer, Reader

\* A step of process p, with the flow before and after it.  Where p writes or
\* wrote, the flow is right afterwards; elsewhere as much has gone from the
\* flow as from the pipe; and what others read has not changed.
LEMMA PipeMove ==
  ASSUME ShellInv, ShellInv', PipeIds, Roles, NEW p \in Procs,
         NEW flow \in Flows, NEW flow2 \in Flows, PipeFlow(flow),
         \A q \in Procs \ {p} :
           /\ fds'[q] = fds[q] /\ cmd'[q] = cmd[q] /\ todo'[q] = todo[q]
           /\ pc'[q] = pc[q] \/ (pc[q] = "zombie" /\ pc'[q] = "free"),
         \A q \in Procs \ {p}, k \in Pipes :
           Reader(pc[q], fds[q], ReadEnd(k)) => flow2[k] = flow[k],
         \A k \in Pipes :
           (\E r \in Procs : Reader(pc'[r], fds'[r], ReadEnd(k))) =>
             LET now == Writer(pc'[p], fds'[p], WriteEnd(k))
             IN /\ now => flow2[k] = buffer'[k] +
                            SupplyOf(flow2, pc'[p], fds'[p], cmd'[p], todo'[p])
                /\ ~now /\ Writes(p, k) => flow2[k] = buffer'[k]
                /\ ~now /\ ~Writes(p, k) =>
                     /\ IsRead(k)
                     /\ flow2[k] - buffer'[k] = flow[k] - buffer[k]
  PROVE  PipeFlow(flow2)'
<1>0. /\ buffer \in [Pipes -> Nat] /\ buffer' \in [Pipes -> Nat]
      /\ todo \in [Procs -> Nat]
  BY ShellAssumption DEF ShellInv, TypeOK
<1>1. ASSUME NEW q \in Procs \ {p}, NEW k \in Pipes
      PROVE  Writer(pc'[q], fds'[q], WriteEnd(k)) <=> Writes(q, k)
  BY DEF Writes, Writer
<1>2. ASSUME NEW q \in Procs \ {p}, NEW k \in Pipes, Writes(q, k)
      PROVE  SupplyOf(flow2, pc'[q], fds'[q], cmd'[q], todo'[q]) = Supply(flow, q)
  <2>1. pc'[q] = pc[q]
    BY <1>2 DEF Writes, Writer
  <2>2. Inflow(flow2, fds[q][0]) = Inflow(flow, fds[q][0])
    <3>1. CASE fds[q][0].end = "r"
      BY <1>2, <3>1, WriterReads DEF Inflow
    <3>2. CASE fds[q][0].end # "r"
      BY <3>2 DEF Inflow
    <3> QED BY <3>1, <3>2
  <2> QED BY <2>1, <2>2 DEF Supply, SupplyOf
<1>3. \A q, r \in Procs, k \in Pipes : Writes(q, k) /\ Writes(r, k) => q = r
  BY EndTypes DEF ShellInv, OneEach, Writes
<1>4. ASSUME NEW q \in Procs, NEW r \in Procs, NEW k \in Pipes,
             Writer(pc'[q], fds'[q], WriteEnd(k)), Writer(pc'[r], fds'[r], WriteEnd(k))
      PROVE  q = r
  <2>1. \A x, y \in Procs, e \in Ends :
          e.end = "w" /\ Writer(pc'[x], fds'[x], e) /\ Writer(pc'[y], fds'[y], e) => x = y
    BY DEF ShellInv, OneEach, Reader, Writer, Ends
  <2> QED BY <1>4, <2>1, EndTypes
<1>5. ASSUME NEW k \in Pipes, NEW r \in Procs, Reader(pc'[r], fds'[r], ReadEnd(k))
      PROVE
        /\ \A q \in Procs : Writer(pc'[q], fds'[q], WriteEnd(k)) =>
             flow2[k] = buffer'[k] +
                          SupplyOf(flow2, pc'[q], fds'[q], cmd'[q], todo'[q])
        /\ (\A q \in Procs : ~Writer(pc'[q], fds'[q], WriteEnd(k))) =>
             flow2[k] = buffer'[k]
  <2>1. CASE Writer(pc'[p], fds'[p], WriteEnd(k))
    BY <1>4, <1>5, <2>1
  <2>2. CASE ~Writer(pc'[p], fds'[p], WriteEnd(k)) /\ Writes(p, k)
    BY <1>1, <1>3, <1>5, <2>2
  <2>3. CASE ~Writer(pc'[p], fds'[p], WriteEnd(k)) /\ ~Writes(p, k)
    <3>1. IsRead(k) /\ flow2[k] - buffer'[k] = flow[k] - buffer[k]
      BY <1>5, <2>3
    <3>2. /\ flow2[k] \in Nat /\ flow[k] \in Nat /\ buffer[k] \in Nat
          /\ buffer'[k] \in Nat
      BY <1>0 DEF Flows
    <3>3. ASSUME NEW q \in Procs, Writer(pc'[q], fds'[q], WriteEnd(k))
          PROVE  flow2[k] = buffer'[k] +
                   SupplyOf(flow2, pc'[q], fds'[q], cmd'[q], todo'[q])
      <4>1. q # p
        BY <2>3, <3>3
      <4>2. Writes(q, k)
        BY <1>1, <3>3, <4>1
      <4>3. flow[k] = buffer[k] + Supply(flow, q)
        BY <3>1, <4>2 DEF PipeFlow
      <4>4. SupplyOf(flow2, pc'[q], fds'[q], cmd'[q], todo'[q]) = Supply(flow, q)
        BY <1>2, <4>1, <4>2
      <4>5. Supply(flow, q) \in Nat
        <5>1. Len(cmd[q]) > 0
          <6>1. ShapeOf(pc[q], fds[q], cmd[q], pfd[q])
            BY DEF ShellInv, Shape
          <6>2. RoleOf(pc[q], fds[q], cmd[q], parent[q])
            BY DEF Roles
          <6>3. fds[q][1] = Tty => pc[q] \in {"fork", "left"}
            BY <4>2 DEF Writes, Writer, Tty, WriteEnd
          <6> QED BY <4>2, <6>1, <6>2, <6>3 DEF ShapeOf, RoleOf, Writes, Writer
        <5> QED BY <1>0, <5>1, SupplyType DEF Supply, PipeIds, ShellInv, CmdType
      <4> HIDE DEF Supply
      <4> QED BY <3>1, <3>2, <4>3, <4>4, <4>5
    <3>4. ASSUME \A q \in Procs : ~Writer(pc'[q], fds'[q], WriteEnd(k))
          PROVE  flow2[k] = buffer'[k]
      <4>1. \A q \in Procs : ~Writes(q, k)
        BY <1>1, <2>3, <3>4
      <4>2. flow[k] = buffer[k]
        BY <3>1, <4>1 DEF PipeFlow
      <4> QED BY <3>1, <3>2, <4>2
    <3> QED BY <3>3, <3>4
  <2> QED BY <2>1, <2>2, <2>3
<1>6. ASSUME NEW q \in Procs
      PROVE  /\ Supply(flow2, q)' =
                  SupplyOf(flow2, pc'[q], fds'[q], cmd'[q], todo'[q])
             /\ \A k : /\ Writes(q, k)' <=> Writer(pc'[q], fds'[q], WriteEnd(k))
  BY DEF Supply, SupplyOf, Inflow, Output, StageOutput, Contains, Writes, Writer,
         WriteEnd
<1>7. ASSUME NEW k
      PROVE  IsRead(k)' <=> \E r \in Procs : Reader(pc'[r], fds'[r], ReadEnd(k))
  BY DEF IsRead, Reader, ReadEnd
<1> QED BY <1>5, <1>6, <1>7 DEF PipeFlow
-----------------------------------------------------------------------------
(***************************************************************************)
(* Every step has a flow after it when there is one before it.             *)
(***************************************************************************)
Flowing(flow) ==
  ShellInv /\ PipeIds /\ Roles /\ flow \in Flows /\ PipeFlow(flow)

\* What the others are meant to read has not changed.
Undisturbed(p, flow, flow2) ==
  \A q \in Procs \ {p}, k \in Pipes :
    Reader(pc[q], fds[q], ReadEnd(k)) => flow2[k] = flow[k]

\* A stage without redirections, and what one redirection changes.
LEMMA NoRedirs ==
  ASSUME NEW s, s.redirs = <<>>, NEW n
  PROVE  StageOutput(s, n) = Output(s.prog, n)
<1>1. ASSUME NEW x PROVE ~Contains(s.redirs, x)
  BY EmptySeq DEF Contains
<1> QED BY <1>1 DEF StageOutput

LEMMA FirstRedir ==
  ASSUME NEW s \in Stages, NEW t, s.redirs # <<>>, t.redirs = Tail(s.redirs),
         t.prog = s.prog
  PROVE  /\ s.redirs[1] = 1 => \A n : StageOutput(s, n) = 0
         /\ s.redirs[1] = 0 => \A n : StageOutput(t, 0) = StageOutput(s, n)
<1> DEFINE r == s.redirs
<1>1. r \in Seq({0, 1})
  BY DEF Stages
<1>2. Len(r) \in Nat /\ Len(r) > 0 /\ Tail(r) \in Seq({0, 1}) /\ Len(Tail(r)) = Len(r) - 1
      /\ \A i \in 1..Len(Tail(r)) : Tail(r)[i] = r[i + 1]
  BY <1>1, EmptySeq, HeadTailProperties
<1>3. 1 \in 1..Len(r)
  BY <1>2
<1>4. Contains(r, r[1])
  BY <1>3 DEF Contains
<1>5. ASSUME NEW x, x # r[1] PROVE Contains(Tail(r), x) <=> Contains(r, x)
  <2>1. ASSUME Contains(Tail(r), x) PROVE Contains(r, x)
    <3>1. PICK i \in 1..Len(Tail(r)) : Tail(r)[i] = x
      BY <2>1 DEF Contains
    <3>2. i + 1 \in 1..Len(r) /\ r[i + 1] = x
      BY <1>2, <3>1
    <3> QED BY <3>2 DEF Contains
  <2>2. ASSUME Contains(r, x) PROVE Contains(Tail(r), x)
    <3>1. PICK i \in 1..Len(r) : r[i] = x
      BY <2>2 DEF Contains
    <3>2. i # 1
      BY <1>5, <3>1
    <3>3. i - 1 \in 1..Len(Tail(r)) /\ (i - 1) + 1 = i
      BY <1>2, <3>2
    <3>4. Tail(r)[i - 1] = x
      BY <1>2, <3>1, <3>3
    <3> QED BY <3>3, <3>4 DEF Contains
  <2> QED BY <2>1, <2>2
<1> HIDE DEF r
<1>6. CASE r[1] = 1
  BY <1>4, <1>6 DEF r, StageOutput
<1>7. CASE r[1] = 0
  <2>1. Contains(t.redirs, 1) <=> Contains(s.redirs, 1)
    BY <1>5, <1>7 DEF r
  <2>2. Contains(s.redirs, 0)
    BY <1>4, <1>7 DEF r
  <2> QED BY <1>7, <2>1, <2>2 DEF r, StageOutput
<1> QED BY <1>6, <1>7 DEF r

\* A process that exits by itself has written all that it had to.
LEMMA LastSupply ==
  ASSUME NEW flow, Flowing(flow), NEW p \in Procs,
         (RunExit(p) /\ Len(cmd[p]) = 1) \/ ProgExit(p)
  PROVE  Supply(flow, p) = 0
<1>1. CASE RunExit(p) /\ Len(cmd[p]) = 1
  <2>1. cmd[p] # <<>>
    BY <1>1, EmptySeq
  <2>2. pc[p] = "runcmd" /\ cmd[p][1].redirs = <<>> /\ cmd[p][1].prog = "none"
    BY <1>1, <2>1 DEF RunExit
  <2>3. Supply(flow, p) = Output("none", Inflow(flow, fds[p][0]))
    BY <2>2, NoRedirs DEF Supply, SupplyOf
  <2> QED BY <2>3 DEF Output
<1>2. CASE ProgExit(p)
  <2>1. pc[p] = "program" /\ todo[p] = 0
    BY <1>2 DEF ProgExit, Reads
  <2>2. CASE cmd[p][1].prog = "source"
    BY <2>1, <2>2 DEF Supply, SupplyOf
  <2>3. CASE cmd[p][1].prog # "source"
    <3>1. cmd[p][1].prog \in {"filter", "head"}
      BY <1>2, <2>3 DEF ProgExit, Reads
    <3>2. Inflow(flow, fds[p][0]) = 0
      <4>1. CASE fds[p][0].end # "r"
        BY <4>1 DEF Inflow
      <4>2. CASE fds[p][0].end = "r"
        <5> DEFINE k == fds[p][0].id
        <5>1. buffer[k] = 0 /\ ~HasWriter(k)
          BY <1>2, <2>3, <4>2 DEF ProgExit, Stdin
        <5>2. fds[p][0] \in PipeEnds
          BY Numbers DEF Flowing, PipeIds, Tables
        <5>3. k \in Pipes /\ fds[p][0] = ReadEnd(k)
          BY <4>2, <5>2, PipeEndIs
        <5>4. IsRead(k)
          BY <2>1, <5>3 DEF IsRead, Reader
        <5>5. \A q \in Procs : ~Writes(q, k)
          BY <5>1, MeantHeld DEF HasWriter, Writes
        <5>6. flow[k] = 0
          BY <5>1, <5>3, <5>4, <5>5 DEF Flowing, PipeFlow
        <5> QED BY <4>2, <5>6 DEF Inflow
      <4> QED BY <4>1, <4>2
    <3>3. Output(cmd[p][1].prog, 0) = 0
      BY <3>1 DEF Output
    <3> QED BY <2>1, <2>3, <3>2, <3>3 DEF Supply, SupplyOf
  <2> QED BY <2>2, <2>3
<1> QED BY <1>1, <1>2

\* exit(): the flow is the same, and the pipe that the process wrote to has no
\* more to come.
LEMMA ExitFlow ==
  ASSUME NEW flow, Flowing(flow), ShellInv', NEW p \in Procs, Exit(p),
         \A k \in Pipes : Writes(p, k) /\ HasReader(k) /\ IsRead(k) => flow[k] = buffer[k]
  PROVE  PipeFlow(flow)'
<1>1. \A q \in Procs \ {p} :
           /\ fds'[q] = fds[q] /\ cmd'[q] = cmd[q] /\ todo'[q] = todo[q]
           /\ pc'[q] = pc[q] \/ (pc[q] = "zombie" /\ pc'[q] = "free")
  BY ExitDoes DEF Flowing
<1>2. pc'[p] \in {"free", "zombie"} /\ buffer' = buffer
  BY ExitDoes DEF Flowing
<1>3. ASSUME NEW k \in Pipes, NEW r \in Procs, Reader(pc'[r], fds'[r], ReadEnd(k))
      PROVE  /\ ~Writer(pc'[p], fds'[p], WriteEnd(k))
             /\ IsRead(k)
             /\ Writes(p, k) => flow[k] = buffer'[k]
  <2>1. r # p
    BY <1>2, <1>3 DEF Reader
  <2>2. Reader(pc[r], fds[r], ReadEnd(k))
    BY <1>1, <1>3, <2>1 DEF Reader
  <2>3. HasReader(k) /\ IsRead(k)
    BY <2>2, MeantHeld DEF HasReader, IsRead
  <2>4. ~Writer(pc'[p], fds'[p], WriteEnd(k))
    BY <1>2 DEF Writer
  <2> QED BY <1>2, <2>3, <2>4
<1> QED BY <1>1, <1>2, <1>3, PipeMove DEF Flowing

\* A process exits, by itself or by SIGPIPE.
LEMMA EndFlow ==
  ASSUME NEW flow, Flowing(flow), ShellInv', NEW p \in Procs,
         RunExit(p) \/ ProgExit(p) \/ ProgKilled(p)
  PROVE  PipeFlow(flow)'
<1>0. Exit(p)
  BY DEF RunExit, ProgExit, ProgKilled
<1>1. ASSUME NEW k \in Pipes, Writes(p, k), HasReader(k), IsRead(k)
      PROVE  flow[k] = buffer[k]
  <2>1. CASE ProgKilled(p)
    <3>1. fds[p][1] = WriteEnd(k)
      BY <1>1, <2>1 DEF Writes, Writer, ProgKilled
    <3> QED BY <1>1, <2>1, <3>1 DEF ProgKilled, Stdout, WriteEnd
  <2>2. CASE RunExit(p) /\ Len(cmd[p]) # 1
    <3>1. pc[p] = "runcmd"
      BY <2>2 DEF RunExit
    <3>2. fds[p][1] = Tty
      BY <2>2, <3>1 DEF Flowing, Roles, RoleOf
    <3> QED BY <1>1, <3>1, <3>2 DEF Writes, Writer, Tty, WriteEnd
  <2>3. CASE (RunExit(p) /\ Len(cmd[p]) = 1) \/ ProgExit(p)
    <3>1. Supply(flow, p) = 0
      BY <2>3, LastSupply
    <3>2. flow[k] = buffer[k] + Supply(flow, p) /\ buffer[k] \in 0..CAPACITY
      BY <1>1 DEF Flowing, PipeFlow, ShellInv, TypeOK
    <3> QED BY <3>1, <3>2, ShellAssumption
  <2> QED BY <2>1, <2>2, <2>3
<1> QED BY <1>0, <1>1, ExitFlow

\* A step of one process with the flow unchanged: what it is meant to read and
\* write and what it will write to a pipe are unchanged too, except that it
\* may write no more when it had nothing left.
LEMMA SameFlow ==
  ASSUME NEW flow, Flowing(flow), ShellInv', NEW p \in Procs, Alone(p),
         buffer' = buffer,
         \A k \in Pipes :
           /\ Reader(pc'[p], fds'[p], ReadEnd(k)) => Reader(pc[p], fds[p], ReadEnd(k))
           /\ Writer(pc'[p], fds'[p], WriteEnd(k)) =>
                /\ Writes(p, k)
                /\ SupplyOf(flow, pc'[p], fds'[p], cmd'[p], todo'[p]) = Supply(flow, p)
           /\ Writes(p, k) =>
                Writer(pc'[p], fds'[p], WriteEnd(k)) \/ Supply(flow, p) = 0
  PROVE  PipeFlow(flow)'
<1>1. \A q \in Procs \ {p} :
           /\ fds'[q] = fds[q] /\ cmd'[q] = cmd[q] /\ todo'[q] = todo[q]
           /\ pc'[q] = pc[q]
  BY DEF Alone
<1>2. ASSUME NEW k \in Pipes, NEW r \in Procs, Reader(pc'[r], fds'[r], ReadEnd(k))
      PROVE  LET now == Writer(pc'[p], fds'[p], WriteEnd(k))
             IN /\ now => flow[k] = buffer'[k] +
                            SupplyOf(flow, pc'[p], fds'[p], cmd'[p], todo'[p])
                /\ ~now /\ Writes(p, k) => flow[k] = buffer'[k]
                /\ ~now /\ ~Writes(p, k) =>
                     /\ IsRead(k)
                     /\ flow[k] - buffer'[k] = flow[k] - buffer[k]
  <2>1. IsRead(k)
    <3>1. Reader(pc[r], fds[r], ReadEnd(k))
      <4>1. CASE r = p
        BY <1>2, <4>1
      <4>2. CASE r # p
        BY <1>1, <1>2, <4>2
      <4> QED BY <4>1, <4>2
    <3> QED BY <3>1 DEF IsRead
  <2>2. Writes(p, k) => flow[k] = buffer[k] + Supply(flow, p)
    BY <2>1 DEF Flowing, PipeFlow
  <2>3. buffer[k] \in Nat
    BY ShellAssumption DEF Flowing, ShellInv, TypeOK
  <2> QED BY <2>1, <2>2, <2>3
<1> QED BY <1>1, <1>2, PipeMove DEF Flowing

\* execvp(): what the stage was to write, the program will write.
LEMMA ExecSupply ==
  ASSUME NEW flow, Flowing(flow), NEW p \in Procs, RunExec(p)
  PROVE  SupplyOf(flow, pc'[p], fds'[p], cmd'[p], todo'[p]) = Supply(flow, p)
<1>1. /\ pc[p] = "runcmd" /\ pc'[p] = "program"
      /\ Len(cmd[p]) = 1 /\ cmd'[p] = cmd[p] /\ fds'[p] = fds[p]
      /\ cmd[p][1].redirs = <<>> /\ cmd[p][1].prog # "none"
      /\ todo'[p] = IF cmd[p][1].prog = "source" THEN ITEMS ELSE 0
  BY ExecDoes DEF Flowing
<1>2. cmd[p] \in Seq(Stages)
  BY DEF Flowing, ShellInv, CmdType
<1>3. cmd[p][1].prog \in Programs
  BY <1>1, <1>2, StageType
<1> DEFINE n == Inflow(flow, fds[p][0])
<1>4. n \in Nat
  BY InflowType, Numbers DEF Flowing, PipeIds, Tables
<1>5. Supply(flow, p) = Output(cmd[p][1].prog, n)
  BY <1>1, NoRedirs DEF Supply, SupplyOf
<1>6. Output(cmd[p][1].prog, n) \in Nat
  BY <1>3, <1>4, OutputType
<1>7. SupplyOf(flow, pc'[p], fds'[p], cmd'[p], todo'[p])
        = todo'[p] + (IF cmd[p][1].prog = "source" THEN 0 ELSE Output(cmd[p][1].prog, n))
  BY <1>1 DEF SupplyOf
<1>8. CASE cmd[p][1].prog = "source"
  <2>1. Output(cmd[p][1].prog, n) = ITEMS
    BY <1>8 DEF Output
  <2> QED BY <1>1, <1>5, <1>7, <1>8, <2>1, ShellAssumption
<1>9. CASE cmd[p][1].prog # "source"
  BY <1>1, <1>5, <1>6, <1>7, <1>9
<1> QED BY <1>8, <1>9

LEMMA ExecFlow ==
  ASSUME NEW flow, Flowing(flow), ShellInv', NEW p \in Procs, RunExec(p)
  PROVE  PipeFlow(flow)'
<1>1. /\ Alone(p) /\ buffer' = buffer /\ pc[p] = "runcmd" /\ pc'[p] = "program"
      /\ fds'[p] = fds[p]
  BY ExecDoes DEF Flowing
<1>2. SupplyOf(flow, pc'[p], fds'[p], cmd'[p], todo'[p]) = Supply(flow, p)
  BY ExecSupply
<1>3. ASSUME NEW e
      PROVE  /\ Reader(pc'[p], fds'[p], e) <=> Reader(pc[p], fds[p], e)
             /\ Writer(pc'[p], fds'[p], e) <=> Writer(pc[p], fds[p], e)
  BY <1>1 DEF Reader, Writer
<1> QED BY <1>1, <1>2, <1>3, SameFlow DEF Writes

LEMMA LeftFlow ==
  ASSUME NEW flow, Flowing(flow), ShellInv', NEW p \in Procs, RunLeft(p)
  PROVE  PipeFlow(flow)'
<1>1. /\ Alone(p) /\ buffer' = buffer
      /\ pc[p] = "left" /\ pc'[p] = "runcmd" /\ cmd'[p] = cmd[p]
      /\ fds'[p][0] = fds[p][0] /\ fds'[p][1] = fds[p][4]
  BY LeftDoes DEF Flowing
<1>2. SupplyOf(flow, pc'[p], fds'[p], cmd'[p], todo'[p]) = Supply(flow, p)
  BY <1>1 DEF Supply, SupplyOf
<1>3. ASSUME NEW e
      PROVE  /\ Reader(pc'[p], fds'[p], e) <=> Reader(pc[p], fds[p], e)
             /\ Writer(pc'[p], fds'[p], e) <=> Writer(pc[p], fds[p], e)
  BY <1>1 DEF Reader, Writer
<1> QED BY <1>1, <1>2, <1>3, SameFlow DEF Writes

LEMMA RightFlow ==
  ASSUME NEW flow, Flowing(flow), ShellInv', NEW p \in Procs, RunRight(p)
  PROVE  PipeFlow(flow)'
<1>1. /\ Alone(p) /\ buffer' = buffer
      /\ pc[p] = "right" /\ pc'[p] = "runcmd"
      /\ fds'[p][0] = fds[p][3] /\ fds'[p][1] = fds[p][1]
  BY RightDoes DEF Flowing
<1>2. fds[p][1] = Tty
  BY <1>1 DEF Flowing, Roles, RoleOf
<1>3. ASSUME NEW k \in Pipes
      PROVE  /\ Reader(pc'[p], fds'[p], ReadEnd(k)) => Reader(pc[p], fds[p], ReadEnd(k))
             /\ ~Writer(pc'[p], fds'[p], WriteEnd(k)) /\ ~Writes(p, k)
  BY <1>1, <1>2 DEF Reader, Writer, Writes, Tty, WriteEnd
<1> QED BY <1>1, <1>3, SameFlow

\* A redirection: of stdin, the stage reads nothing any more; of stdout, it
\* writes nothing to the pipe.
LEMMA RedirSupply ==
  ASSUME NEW flow, Flowing(flow), NEW p \in Procs, NEW ok \in BOOLEAN, RunRedir(p, ok)
  PROVE  \/ /\ fds'[p][1] = fds[p][1]
            /\ SupplyOf(flow, pc'[p], fds'[p], cmd'[p], todo'[p]) = Supply(flow, p)
         \/ fds'[p][1].end \notin {"tty", "w"} /\ Supply(flow, p) = 0
<1> DEFINE s == cmd[p][1]
           t == cmd'[p][1]
<1>1. /\ pc[p] = "runcmd" /\ pc'[p] = "runcmd" /\ s \in Stages /\ s.redirs # <<>>
      /\ t.redirs = Tail(s.redirs) /\ t.prog = s.prog /\ s.redirs[1] \in {0, 1}
      /\ s.redirs[1] = 0 => fds'[p][0].end # "r" /\ fds'[p][1] = fds[p][1]
      /\ s.redirs[1] = 1 => fds'[p][1].end \notin {"tty", "w"}
  BY RedirDoes DEF Flowing
<1>2. /\ Supply(flow, p) = StageOutput(s, Inflow(flow, fds[p][0]))
      /\ SupplyOf(flow, pc'[p], fds'[p], cmd'[p], todo'[p])
           = StageOutput(t, Inflow(flow, fds'[p][0]))
  BY <1>1 DEF Supply, SupplyOf
<1> HIDE DEF s, t
<1>3. CASE s.redirs[1] = 0
  <2>1. Inflow(flow, fds'[p][0]) = 0
    BY <1>1, <1>3 DEF Inflow
  <2>2. StageOutput(t, 0) = StageOutput(s, Inflow(flow, fds[p][0]))
    BY <1>1, <1>3, FirstRedir
  <2> QED BY <1>1, <1>2, <1>3, <2>1, <2>2
<1>4. CASE s.redirs[1] = 1
  <2>1. StageOutput(s, Inflow(flow, fds[p][0])) = 0
    BY <1>1, <1>4, FirstRedir
  <2> QED BY <1>1, <1>2, <1>4, <2>1
<1> QED BY <1>1, <1>3, <1>4

LEMMA RedirFlow ==
  ASSUME NEW flow, Flowing(flow), ShellInv', NEW p \in Procs, NEW ok \in BOOLEAN,
         RunRedir(p, ok)
  PROVE  PipeFlow(flow)'
<1>1. /\ Alone(p) /\ buffer' = buffer /\ pc[p] = "runcmd" /\ pc'[p] = "runcmd"
      /\ \/ fds'[p][0].end \in {"file"} \/ fds'[p][0] = fds[p][0]
         \/ fds'[p][0].end # "r"
  BY RedirDoes DEF Flowing
<1>2. ASSUME NEW k \in Pipes
      PROVE  /\ Reader(pc'[p], fds'[p], ReadEnd(k)) => Reader(pc[p], fds[p], ReadEnd(k))
             /\ Writer(pc'[p], fds'[p], WriteEnd(k)) <=> fds'[p][1] = WriteEnd(k)
             /\ Writes(p, k) <=> fds[p][1] = WriteEnd(k)
             /\ WriteEnd(k).end = "w"
  BY <1>1 DEF Reader, Writer, Writes, ReadEnd, WriteEnd
<1>3. \/ /\ fds'[p][1] = fds[p][1]
         /\ SupplyOf(flow, pc'[p], fds'[p], cmd'[p], todo'[p]) = Supply(flow, p)
      \/ fds'[p][1].end \notin {"tty", "w"} /\ Supply(flow, p) = 0
  BY RedirSupply
<1>4. ASSUME NEW k \in Pipes
      PROVE  /\ Writer(pc'[p], fds'[p], WriteEnd(k)) =>
                  /\ Writes(p, k)
                  /\ SupplyOf(flow, pc'[p], fds'[p], cmd'[p], todo'[p]) = Supply(flow, p)
             /\ Writes(p, k) =>
                  Writer(pc'[p], fds'[p], WriteEnd(k)) \/ Supply(flow, p) = 0
  BY <1>2, <1>3
<1> QED BY <1>1, <1>2, <1>4, SameFlow

\* fork1() fails in a pipe: nobody will write to it any more.
LEMMA NoForkFlow ==
  ASSUME NEW flow, Flowing(flow), ShellInv', NEW p \in Procs, RunNoFork(p)
  PROVE  \E flow2 \in Flows : PipeFlow(flow2)' /\ Undisturbed(p, flow, flow2)
<1> DEFINE j == fds[p][3].id
<1>1. /\ Alone(p) /\ buffer' = buffer /\ pc[p] = "fork" /\ pc'[p] = "right"
      /\ fds'[p] = fds[p] /\ cmd'[p] = cmd[p]
  BY NoForkDoes DEF Flowing
<1>2. /\ fds[p][3].end = "r" /\ fds[p][4].end = "w" /\ fds[p][4].id = j
      /\ fds[p][1] = Tty
  <2>1. ShapeOf(pc[p], fds[p], cmd[p], pfd[p])
        /\ RoleOf(pc[p], fds[p], cmd[p], parent[p])
    BY DEF Flowing, ShellInv, Shape, Roles
  <2> QED BY <1>1, <2>1 DEF ShapeOf, RoleOf
<1>3. j \in Pipes /\ fds[p][3] = ReadEnd(j) /\ fds[p][4] = WriteEnd(j)
  <2>1. fds[p][3] \in PipeEnds /\ fds[p][4] \in PipeEnds
    BY Numbers DEF Flowing, PipeIds, Tables
  <2> QED BY <1>2, <2>1, PipeEndIs
<1>4. buffer \in [Pipes -> Nat] /\ flow \in [Pipes -> Nat]
  BY ShellAssumption DEF Flowing, ShellInv, TypeOK, Flows
<1>5. PICK flow2 \in Flows : /\ flow2[j] = buffer[j]
                            /\ \A k \in Pipes : k # j => flow2[k] = flow[k]
  <2> DEFINE g == [flow EXCEPT ![j] = buffer[j]]
  <2>1. g \in Flows /\ g[j] = buffer[j] /\ \A k \in Pipes : k # j => g[k] = flow[k]
    BY <1>3, <1>4 DEF Flows
  <2> QED BY <2>1
<1> HIDE DEF j
<1>6. Undisturbed(p, flow, flow2)
  <2> SUFFICES ASSUME NEW q \in Procs \ {p}, NEW k \in Pipes,
                      Reader(pc[q], fds[q], ReadEnd(k))
               PROVE  flow2[k] = flow[k]
    BY DEF Undisturbed
  <2>1. Reader(pc[p], fds[p], ReadEnd(j))
    BY <1>1, <1>3 DEF Reader
  <2>2. k # j
    BY <1>3, <2>1, EndTypes DEF Flowing, ShellInv, OneEach
  <2> QED BY <1>5, <2>2
<1>7. \A k \in Pipes : WriteEnd(k) = WriteEnd(j) => k = j
  BY DEF WriteEnd
<1>8. ASSUME NEW k \in Pipes, NEW r \in Procs, Reader(pc'[r], fds'[r], ReadEnd(k))
      PROVE  /\ ~Writer(pc'[p], fds'[p], WriteEnd(k))
             /\ Writes(p, k) => flow2[k] = buffer'[k]
             /\ ~Writes(p, k) => /\ IsRead(k)
                                 /\ flow2[k] - buffer'[k] = flow[k] - buffer[k]
  <2>1. Reader(pc[r], fds[r], ReadEnd(k))
    <3>1. CASE r = p
      BY <1>1, <1>8, <3>1 DEF Reader
    <3>2. CASE r # p
      BY <1>1, <1>8, <3>2 DEF Alone
    <3> QED BY <3>1, <3>2
  <2>2. ~Writer(pc'[p], fds'[p], WriteEnd(k))
    BY <1>1, <1>2 DEF Writer, Tty, WriteEnd
  <2>3. Writes(p, k) <=> k = j
    BY <1>1, <1>2, <1>3, <1>7 DEF Writes, Writer, Tty, WriteEnd
  <2>4. IsRead(k)
    BY <2>1 DEF IsRead
  <2> QED BY <1>1, <1>5, <2>2, <2>3, <2>4
<1>9. \A q \in Procs \ {p} :
           /\ fds'[q] = fds[q] /\ cmd'[q] = cmd[q] /\ todo'[q] = todo[q]
           /\ pc'[q] = pc[q]
  BY <1>1 DEF Alone
<1>10. PipeFlow(flow2)'
  BY <1>5, <1>6, <1>8, <1>9, PipeMove DEF Flowing, Undisturbed
<1> QED BY <1>5, <1>6, <1>10

\* pipe(): it will carry what the stage on its left will write.
LEMMA NewPipeFlow ==
  ASSUME NEW flow, Flowing(flow), ShellInv', NEW p \in Procs, NEW j \in Pipes,
         RunPipe(p, j)
  PROVE  \E flow2 \in Flows :
           /\ PipeFlow(flow2)' /\ Undisturbed(p, flow, flow2)
           /\ flow2[j] = StageOutput(cmd[p][1], Inflow(flow, fds[p][0]))
<1> DEFINE v == StageOutput(cmd[p][1], Inflow(flow, fds[p][0]))
<1>1. /\ Alone(p) /\ buffer' = [buffer EXCEPT ![j] = 0]
      /\ pc[p] = "runcmd" /\ pc'[p] = "fork"
      /\ cmd'[p] = cmd[p] /\ Len(cmd[p]) > 1
      /\ fds'[p][0] = fds[p][0] /\ fds'[p][1] = fds[p][1]
      /\ fds'[p][3] = ReadEnd(j) /\ fds'[p][4] = WriteEnd(j)
      /\ \A q \in Procs : /\ ~Reader(pc[q], fds[q], ReadEnd(j))
                          /\ ~Writer(pc[q], fds[q], WriteEnd(j))
  BY PipeDoes DEF Flowing
<1>2. buffer \in [Pipes -> Nat] /\ flow \in [Pipes -> Nat]
  BY ShellAssumption DEF Flowing, ShellInv, TypeOK, Flows
<1>3. v \in Nat /\ Len(cmd[p]) # 1
  <2> DEFINE n == Len(cmd[p])
  <2>1. cmd[p] \in Seq(Stages) /\ n \in Nat /\ n > 1
    BY <1>1, LenProperties DEF Flowing, ShellInv, CmdType
  <2>2. n > 0 /\ n # 1
    <3> HIDE DEF n
    <3> QED BY <2>1
  <2>3. cmd[p][1] \in Stages
    BY <2>1, <2>2, StageType
  <2>4. Inflow(flow, fds[p][0]) \in Nat
    BY InflowType, Numbers DEF Flowing, PipeIds, Tables
  <2> QED BY <2>2, <2>3, <2>4, OutputType
<1>4. fds[p][1] = Tty
  BY <1>1, <1>3 DEF Flowing, Roles, RoleOf
<1> HIDE DEF v
<1>5. PICK flow2 \in Flows :
        /\ flow2[j] = v /\ buffer'[j] = 0
        /\ \A k \in Pipes : k # j => flow2[k] = flow[k] /\ buffer'[k] = buffer[k]
  <2> DEFINE g == [flow EXCEPT ![j] = v]
  <2>1. /\ g \in Flows /\ g[j] = v /\ buffer'[j] = 0
        /\ \A k \in Pipes : k # j => g[k] = flow[k] /\ buffer'[k] = buffer[k]
    BY <1>1, <1>2, <1>3 DEF Flows
  <2> HIDE DEF g
  <2> QED BY <2>1
<1>6. Undisturbed(p, flow, flow2)
  BY <1>1, <1>5 DEF Undisturbed
<1>7. Inflow(flow2, fds[p][0]) = Inflow(flow, fds[p][0])
  <2>1. CASE fds[p][0].end = "r"
    <3>1. fds[p][0] \in PipeEnds
      BY Numbers DEF Flowing, PipeIds, Tables
    <3>2. fds[p][0].id \in Pipes /\ fds[p][0] = ReadEnd(fds[p][0].id)
      BY <2>1, <3>1, PipeEndIs
    <3>3. fds[p][0] # ReadEnd(j)
      BY <1>1 DEF Reader
    <3> QED BY <1>5, <3>2, <3>3 DEF Inflow
  <2>2. CASE fds[p][0].end # "r"
    BY <2>2 DEF Inflow
  <2> QED BY <2>1, <2>2
<1>8. SupplyOf(flow2, pc'[p], fds'[p], cmd'[p], todo'[p]) = v
  BY <1>1, <1>7 DEF SupplyOf, v
<1>9. ASSUME NEW k \in Pipes, NEW r \in Procs, Reader(pc'[r], fds'[r], ReadEnd(k))
      PROVE  LET now == Writer(pc'[p], fds'[p], WriteEnd(k))
             IN /\ now => flow2[k] = buffer'[k] +
                            SupplyOf(flow2, pc'[p], fds'[p], cmd'[p], todo'[p])
                /\ ~now /\ Writes(p, k) => flow2[k] = buffer'[k]
                /\ ~now /\ ~Writes(p, k) =>
                     /\ IsRead(k)
                     /\ flow2[k] - buffer'[k] = flow[k] - buffer[k]
  <2>1. /\ Writer(pc'[p], fds'[p], WriteEnd(k)) <=> k = j
        /\ ~Writes(p, k)
    BY <1>1, <1>4 DEF Writes, Writer, Tty, WriteEnd
  <2>2. CASE k = j
    BY <1>3, <1>5, <1>8, <2>1, <2>2
  <2>3. CASE k # j
    <3>1. Reader(pc[r], fds[r], ReadEnd(k))
      <4>1. CASE r = p
        BY <1>1, <1>9, <2>3, <4>1 DEF Reader, ReadEnd
      <4>2. CASE r # p
        BY <1>1, <1>9, <4>2 DEF Alone
      <4> QED BY <4>1, <4>2
    <3>2. IsRead(k)
      BY <3>1 DEF IsRead
    <3> QED BY <1>5, <2>1, <2>3, <3>2
  <2> QED BY <2>2, <2>3
<1>10. \A q \in Procs \ {p} :
           /\ fds'[q] = fds[q] /\ cmd'[q] = cmd[q] /\ todo'[q] = todo[q]
           /\ pc'[q] = pc[q]
  BY <1>1 DEF Alone
<1>11. PipeFlow(flow2)'
  BY <1>5, <1>6, <1>9, <1>10, PipeMove DEF Flowing, Undisturbed
<1> QED BY <1>5, <1>6, <1>11 DEF v

\* A program has one stage.
LEMMA ProgramStage ==
  ASSUME ShellInv, NEW p \in Procs, pc[p] = "program"
  PROVE  Len(cmd[p]) > 0
<1>1. ShapeOf(pc[p], fds[p], cmd[p], pfd[p])
  BY DEF ShellInv, Shape
<1>2. Len(cmd[p]) = 1
  BY <1>1 DEF ShapeOf
<1> QED BY <1>2

\* A program reads an item, which it will write: it supplies as much as before,
\* out of a pipe that has one item less to give.
LEMMA ReadFlow ==
  ASSUME NEW flow, Flowing(flow), ShellInv', NEW p \in Procs, ProgRead(p)
  PROVE  \E flow2 \in Flows :
           /\ PipeFlow(flow2)' /\ Undisturbed(p, flow, flow2)
           /\ SupplyOf(flow2, pc'[p], fds'[p], cmd'[p], todo'[p]) = Supply(flow, p)
<1> DEFINE j == fds[p][0].id
<1>1. /\ Alone(p) /\ pc[p] = "program" /\ pc'[p] = "program" /\ fds'[p] = fds[p]
      /\ fds[p][0].end = "r" /\ j \in Pipes /\ buffer[j] > 0
      /\ buffer' = [buffer EXCEPT ![j] = buffer[j] - 1]
      /\ todo[p] = 0 /\ todo'[p] = 1
      /\ \/ cmd[p][1].prog = "filter" /\ cmd'[p][1].prog = "filter"
         \/ cmd[p][1].prog = "head" /\ cmd'[p][1].prog = "source"
  BY ReadDoes DEF Flowing
<1>2. /\ buffer \in [Pipes -> Nat] /\ flow \in [Pipes -> Nat]
      /\ todo \in [Procs -> Nat]
  BY ShellAssumption DEF Flowing, ShellInv, TypeOK, Flows
<1>3. Reader(pc[p], fds[p], ReadEnd(j))
  <2>1. fds[p][0] \in PipeEnds
    BY Numbers DEF Flowing, PipeIds, Tables
  <2>2. fds[p][0] = ReadEnd(j)
    BY <1>1, <2>1, PipeEndIs
  <2> QED BY <1>1, <2>2 DEF Reader
<1> HIDE DEF j
<1>4. flow[j] > 0
  <2>1. IsRead(j)
    BY <1>3 DEF IsRead
  <2>2. CASE \A q \in Procs : ~Writes(q, j)
    BY <1>1, <2>1, <2>2 DEF Flowing, PipeFlow
  <2>3. ASSUME NEW q \in Procs, Writes(q, j) PROVE flow[j] > 0
    <3>1. flow[j] = buffer[j] + Supply(flow, q)
      BY <1>1, <2>1, <2>3 DEF Flowing, PipeFlow
    <3>2. Len(cmd[q]) > 0
      <4>1. ShapeOf(pc[q], fds[q], cmd[q], pfd[q])
            /\ RoleOf(pc[q], fds[q], cmd[q], parent[q])
        BY DEF Flowing, ShellInv, Shape, Roles
      <4>2. fds[q][1] = Tty => pc[q] \in {"fork", "left"}
        BY <2>3 DEF Writes, Writer, Tty, WriteEnd
      <4> QED BY <2>3, <4>1, <4>2 DEF ShapeOf, RoleOf, Writes, Writer
    <3>3. Supply(flow, q) \in Nat
      BY <1>2, <3>2, SupplyType DEF Supply, Flowing, PipeIds, ShellInv, CmdType
    <3>4. buffer[j] \in Nat /\ buffer[j] > 0
      BY <1>1, <1>2
    <3> QED BY <3>1, <3>3, <3>4
  <2> QED BY <2>2, <2>3
<1>5. flow[j] \in Nat /\ flow[j] - 1 \in Nat /\ buffer[j] \in Nat
  BY <1>1, <1>2, <1>4
<1>6. PICK flow2 \in Flows :
        /\ flow2[j] = flow[j] - 1 /\ buffer'[j] = buffer[j] - 1
        /\ \A k \in Pipes : k # j => flow2[k] = flow[k] /\ buffer'[k] = buffer[k]
  <2> DEFINE g == [flow EXCEPT ![j] = flow[j] - 1]
  <2>1. /\ g \in Flows /\ g[j] = flow[j] - 1 /\ buffer'[j] = buffer[j] - 1
        /\ \A k \in Pipes : k # j => g[k] = flow[k] /\ buffer'[k] = buffer[k]
    BY <1>1, <1>2, <1>5 DEF Flows
  <2> HIDE DEF g
  <2> QED BY <2>1
<1>7. Undisturbed(p, flow, flow2)
  <2> SUFFICES ASSUME NEW q \in Procs \ {p}, NEW k \in Pipes,
                      Reader(pc[q], fds[q], ReadEnd(k))
               PROVE  flow2[k] = flow[k]
    BY DEF Undisturbed
  <2>1. k # j
    BY <1>1, <1>3, EndTypes DEF Flowing, ShellInv, OneEach
  <2> QED BY <1>6, <2>1
<1>8. SupplyOf(flow2, pc'[p], fds'[p], cmd'[p], todo'[p]) = Supply(flow, p)
  <2>1. /\ Inflow(flow, fds[p][0]) = flow[j]
        /\ Inflow(flow2, fds'[p][0]) = flow[j] - 1
    BY <1>1, <1>6 DEF Inflow, j
  <2>2. /\ Output("filter", flow[j] - 1) = flow[j] - 1
        /\ Output("filter", flow[j]) = flow[j] /\ Output("head", flow[j]) = 1
    BY <1>4 DEF Output
  <2> QED BY <1>1, <1>5, <2>1, <2>2 DEF Supply, SupplyOf
<1>9. ASSUME NEW k \in Pipes
      PROVE  /\ Writer(pc'[p], fds'[p], WriteEnd(k)) <=> Writes(p, k)
             /\ flow2[k] - buffer'[k] = flow[k] - buffer[k]
             /\ flow2[k] \in Nat /\ flow[k] \in Nat
             /\ buffer[k] \in Nat /\ buffer'[k] \in Int
  <2>1. Writer(pc'[p], fds'[p], WriteEnd(k)) <=> Writes(p, k)
    BY <1>1 DEF Writes
  <2>2. /\ flow2[k] \in Nat /\ flow[k] \in Nat
        /\ buffer[k] \in Nat
    BY <1>2 DEF Flows
  <2>3. CASE k = j
    BY <1>5, <1>6, <2>1, <2>2, <2>3
  <2>4. CASE k # j
    BY <1>6, <2>1, <2>2, <2>4
  <2> QED BY <2>3, <2>4
<1>10. ASSUME NEW k \in Pipes, NEW r \in Procs, Reader(pc'[r], fds'[r], ReadEnd(k))
       PROVE  LET now == Writer(pc'[p], fds'[p], WriteEnd(k))
              IN /\ now => flow2[k] = buffer'[k] +
                             SupplyOf(flow2, pc'[p], fds'[p], cmd'[p], todo'[p])
                 /\ ~now /\ Writes(p, k) => flow2[k] = buffer'[k]
                 /\ ~now /\ ~Writes(p, k) =>
                      /\ IsRead(k)
                      /\ flow2[k] - buffer'[k] = flow[k] - buffer[k]
  <2>1. Reader(pc[r], fds[r], ReadEnd(k))
    <3>1. CASE r = p
      BY <1>1, <1>10, <3>1
    <3>2. CASE r # p
      BY <1>1, <1>10, <3>2 DEF Alone
    <3> QED BY <3>1, <3>2
  <2>2. IsRead(k)
    BY <2>1 DEF IsRead
  <2>3. ASSUME Writes(p, k) PROVE flow2[k] = buffer'[k] + Supply(flow, p)
    <3>1. flow[k] = buffer[k] + Supply(flow, p)
      BY <2>2, <2>3 DEF Flowing, PipeFlow
    <3>2. Len(cmd[p]) > 0
      BY <1>1, ProgramStage DEF Flowing
    <3>3. Supply(flow, p) \in Nat
      BY <1>2, <3>2, SupplyType DEF Supply, Flowing, PipeIds, ShellInv, CmdType
    <3> QED BY <1>9, <3>1, <3>3
  <2> QED BY <1>8, <1>9, <2>2, <2>3
<1>11. \A q \in Procs \ {p} :
           /\ fds'[q] = fds[q] /\ cmd'[q] = cmd[q] /\ todo'[q] = todo[q]
           /\ pc'[q] = pc[q]
  BY <1>1 DEF Alone
<1>12. PipeFlow(flow2)'
  BY <1>6, <1>7, <1>10, <1>11, PipeMove DEF Flowing, Undisturbed
<1> QED BY <1>6, <1>7, <1>8, <1>12

\* A program writes an item: it has one less to supply.
LEMMA WriteFlow ==
  ASSUME NEW flow, Flowing(flow), ShellInv', NEW p \in Procs, ProgWrite(p)
  PROVE  /\ PipeFlow(flow)'
         /\ SupplyOf(flow, pc'[p], fds'[p], cmd'[p], todo'[p]) = Supply(flow, p) - 1
         /\ Supply(flow, p) \in Nat
<1>1. /\ Alone(p) /\ pc[p] = "program" /\ pc'[p] = "program"
      /\ fds'[p] = fds[p] /\ cmd'[p] = cmd[p]
      /\ todo[p] > 0 /\ todo'[p] = todo[p] - 1
      /\ buffer' = IF fds[p][1].end = "w"
                   THEN [buffer EXCEPT ![fds[p][1].id] = buffer[fds[p][1].id] + 1]
                   ELSE buffer
  BY WriteDoes DEF Flowing
<1>2. buffer \in [Pipes -> Nat] /\ flow \in [Pipes -> Nat] /\ todo[p] \in Nat
  BY ShellAssumption DEF Flowing, ShellInv, TypeOK, Flows
<1>3. Supply(flow, p) \in Nat
  <2>1. Len(cmd[p]) > 0
    BY <1>1, ProgramStage DEF Flowing
  <2> QED BY <1>2, <2>1, SupplyType DEF Supply, Flowing, PipeIds, ShellInv, CmdType
<1>4. SupplyOf(flow, pc'[p], fds'[p], cmd'[p], todo'[p]) = Supply(flow, p) - 1
  <2> DEFINE x == IF cmd[p][1].prog = "source" THEN 0
                  ELSE Output(cmd[p][1].prog, Inflow(flow, fds[p][0]))
  <2>1. /\ Supply(flow, p) = todo[p] + x
        /\ SupplyOf(flow, pc'[p], fds'[p], cmd'[p], todo'[p]) = (todo[p] - 1) + x
    BY <1>1 DEF Supply, SupplyOf
  <2>2. x \in Nat
    <3>1. Len(cmd[p]) > 0
      BY <1>1, ProgramStage DEF Flowing
    <3>2. cmd[p][1].prog \in Programs
      BY <3>1, StageType DEF Flowing, ShellInv, CmdType
    <3>3. Inflow(flow, fds[p][0]) \in Nat
      BY InflowType, Numbers DEF Flowing, PipeIds, Tables
    <3> QED BY <3>2, <3>3, OutputType
  <2> HIDE DEF x
  <2> QED BY <1>2, <2>1, <2>2
<1>5. ASSUME NEW k \in Pipes
      PROVE  /\ Writer(pc'[p], fds'[p], WriteEnd(k)) <=> Writes(p, k)
             /\ buffer'[k] = IF Writes(p, k) THEN buffer[k] + 1 ELSE buffer[k]
             /\ flow[k] \in Nat /\ buffer[k] \in Nat
  <2>1. /\ Writer(pc'[p], fds'[p], WriteEnd(k)) <=> Writes(p, k)
        /\ Writes(p, k) <=> fds[p][1] = WriteEnd(k)
    BY <1>1 DEF Writes, Writer
  <2>2. WriteEnd(k).end = "w" /\ WriteEnd(k).id = k
    BY DEF WriteEnd
  <2>3. fds[p][1].end = "w" =>
          fds[p][1].id \in Pipes /\ fds[p][1] = WriteEnd(fds[p][1].id)
    BY Numbers, PipeEndIs DEF Flowing, PipeIds, Tables
  <2> QED BY <1>1, <1>2, <2>1, <2>2, <2>3
<1>6. ASSUME NEW k \in Pipes, NEW r \in Procs, Reader(pc'[r], fds'[r], ReadEnd(k))
      PROVE  LET now == Writer(pc'[p], fds'[p], WriteEnd(k))
             IN /\ now => flow[k] = buffer'[k] +
                             SupplyOf(flow, pc'[p], fds'[p], cmd'[p], todo'[p])
                /\ ~now /\ Writes(p, k) => flow[k] = buffer'[k]
                /\ ~now /\ ~Writes(p, k) =>
                      /\ IsRead(k)
                      /\ flow[k] - buffer'[k] = flow[k] - buffer[k]
  <2>1. Reader(pc[r], fds[r], ReadEnd(k))
    <3>1. CASE r = p
      BY <1>1, <1>6, <3>1
    <3>2. CASE r # p
      BY <1>1, <1>6, <3>2 DEF Alone
    <3> QED BY <3>1, <3>2
  <2>2. IsRead(k)
    BY <2>1 DEF IsRead
  <2>3. Writes(p, k) => flow[k] = buffer[k] + Supply(flow, p)
    BY <2>2 DEF Flowing, PipeFlow
  <2> QED BY <1>3, <1>4, <1>5, <2>2, <2>3
<1>7. \A q \in Procs \ {p} :
           /\ fds'[q] = fds[q] /\ cmd'[q] = cmd[q] /\ todo'[q] = todo[q]
           /\ pc'[q] = pc[q]
  BY <1>1 DEF Alone
<1>8. PipeFlow(flow)'
  BY <1>6, <1>7, PipeMove DEF Flowing
<1> QED BY <1>3, <1>4, <1>8

\* fork1() in a pipe: the child will write what its parent was to have written.
LEMMA ForkFlow ==
  ASSUME NEW flow, Flowing(flow), ShellInv', NEW p \in Procs, NEW q \in Procs,
         RunFork(p, q)
  PROVE  PipeFlow(flow)'
<1> DEFINE f == fds[p]
<1>1. /\ buffer' = buffer /\ p # q /\ pc[p] = "fork" /\ pc[q] = "free"
      /\ pc'[p] = "right" /\ pc'[q] = "left" /\ cmd'[q] = <<cmd[p][1]>>
      /\ fds'[p] = f /\ fds'[q] = f /\ todo' = todo
      /\ \A r \in Procs \ {p, q} :
           pc'[r] = pc[r] /\ fds'[r] = fds[r] /\ cmd'[r] = cmd[r]
  BY ForkDoes DEF Flowing
<1>2. f[1] = Tty
  BY <1>1 DEF Flowing, Roles, RoleOf
<1>3. SupplyOf(flow, pc'[q], fds'[q], cmd'[q], todo'[q]) = Supply(flow, p)
  <2>1. cmd'[q][1] = cmd[p][1]
    BY <1>1
  <2> QED BY <1>1, <2>1 DEF Supply, SupplyOf
<1>4. ASSUME NEW k \in Pipes
      PROVE  /\ ~Writer(pc'[p], fds'[p], WriteEnd(k))
             /\ Writer(pc'[q], fds'[q], WriteEnd(k)) <=> Writes(p, k)
             /\ ~Writes(q, k)
             /\ \A r \in Procs \ {p, q} :
                  Writer(pc'[r], fds'[r], WriteEnd(k)) <=> Writes(r, k)
  <2>1. f[1] # WriteEnd(k)
    BY <1>2 DEF Tty, WriteEnd
  <2> QED BY <1>1, <2>1 DEF Writes, Writer
<1>5. ASSUME NEW k \in Pipes, NEW r \in Procs, Reader(pc'[r], fds'[r], ReadEnd(k))
      PROVE  IsRead(k)
  <2>1. CASE r = p \/ r = q
    <3>1. Reader(pc[p], fds[p], ReadEnd(k))
      BY <1>1, <1>5, <2>1 DEF Reader
    <3> QED BY <3>1 DEF IsRead
  <2>2. CASE r # p /\ r # q
    BY <1>1, <1>5, <2>2 DEF IsRead
  <2> QED BY <2>1, <2>2
<1>6. ASSUME NEW k \in Pipes, IsRead(k), NEW r \in Procs,
             Writer(pc'[r], fds'[r], WriteEnd(k))
      PROVE  flow[k] = buffer'[k] + SupplyOf(flow, pc'[r], fds'[r], cmd'[r], todo'[r])
  <2>1. CASE r = q
    <3>1. flow[k] = buffer[k] + Supply(flow, p)
      BY <1>4, <1>6, <2>1 DEF Flowing, PipeFlow
    <3> QED BY <1>1, <1>3, <2>1, <3>1
  <2>2. CASE r # q
    <3>1. r # p
      BY <1>4, <1>6
    <3>2. flow[k] = buffer[k] + Supply(flow, r)
      BY <1>4, <1>6, <2>2, <3>1 DEF Flowing, PipeFlow
    <3> QED BY <1>1, <2>2, <3>1, <3>2 DEF Supply
  <2> QED BY <2>1, <2>2
<1>7. ASSUME NEW k \in Pipes, IsRead(k),
             \A r \in Procs : ~Writer(pc'[r], fds'[r], WriteEnd(k))
      PROVE  flow[k] = buffer'[k]
  <2>1. \A r \in Procs : ~Writes(r, k)
    BY <1>4, <1>7
  <2> QED BY <1>1, <1>7, <2>1 DEF Flowing, PipeFlow
<1>8. ASSUME NEW r \in Procs
      PROVE  /\ Supply(flow, r)' =
                  SupplyOf(flow, pc'[r], fds'[r], cmd'[r], todo'[r])
             /\ \A k : Writes(r, k)' <=> Writer(pc'[r], fds'[r], WriteEnd(k))
  BY DEF Supply, SupplyOf, Inflow, Output, StageOutput, Contains, Writes, Writer,
         WriteEnd
<1>9. ASSUME NEW k
      PROVE  IsRead(k)' <=> \E r \in Procs : Reader(pc'[r], fds'[r], ReadEnd(k))
  BY DEF IsRead, Reader, ReadEnd
<1> QED BY <1>5, <1>6, <1>7, <1>8, <1>9 DEF PipeFlow
-----------------------------------------------------------------------------
(***************************************************************************)
(* What the child of main() still owes the terminal.                       *)
(***************************************************************************)

\* c is the end of line l.
EndOf(l, c) ==
  /\ Len(c) <= Len(l)
  /\ \A i \in 1..Len(c) : c[i] = l[(Len(l) - Len(c)) + i]

\* The child of main() runs line l, of which o items are on the terminal, and
\* is at point at, with table f, command c and t items to write: the stages on
\* its left bring it what they should, and what it will write completes the
\* output of the line.
OwesOf(flow, l, o, at, f, c, t) ==
  LET n == Len(l) - Len(c)
  IN /\ at = "runcmd" /\ Len(c) # 1 =>
          o = 0 /\ EndOf(l, c) /\ Inflow(flow, f[0]) = Written(l)[n]
     /\ at \in {"fork", "right"} =>
          o = 0 /\ EndOf(l, c) /\ Inflow(flow, f[3]) = Written(l)[n + 1]
     /\ at = "program" \/ (at = "runcmd" /\ Len(c) = 1) =>
          o + (IF f[1].end = "tty" THEN SupplyOf(flow, at, f, c, t) ELSE 0)
            = Composed(l)
     /\ at = "zombie" => o = Composed(l)

MainFlow(flow) ==
  failed = {} =>
    \A p \in Procs : parent[p] = Main =>
      OwesOf(flow, line, out, pc[p], fds[p], cmd[p], todo[p])

\* main() waits for a child unless its fork1() failed.
Waiting == main_pc = "wait" /\ failed = {} => \E p \in Procs : parent[p] = Main

\* The last line was typed as one of Lines.
LEMMA LineType == TypeOK => line \in Seq(Stages)
  BY ShellAssumption, EmptySeq DEF TypeOK

\* A step of process p after which the child of main(), if p is not it, owes
\* as much as before.
LEMMA MainMove ==
  ASSUME NEW flow, Flowing(flow), NEW flow2 \in Flows, ChildInv,
         MainFlow(flow), NEW p \in Procs, Undisturbed(p, flow, flow2),
         line' = line, out' = out \/ parent[p] = Main, failed' = {} => failed = {},
         \A q \in Procs \ {p} :
           /\ parent'[q] = Main =>
                /\ parent[q] = Main /\ pc'[q] = pc[q] /\ fds'[q] = fds[q]
                /\ cmd'[q] = cmd[q] /\ todo'[q] = todo[q],
         parent'[p] = Main => parent[p] = Main,
         parent[p] = Main /\ failed' = {} =>
           OwesOf(flow2, line', out', pc'[p], fds'[p], cmd'[p], todo'[p])
  PROVE  MainFlow(flow2)'
<1>1. ASSUME failed' = {}, NEW q \in Procs, parent'[q] = Main
      PROVE  OwesOf(flow2, line', out', pc'[q], fds'[q], cmd'[q], todo'[q])
  <2>1. CASE q = p
    BY <1>1, <2>1
  <2>2. CASE q # p
    <3>1. /\ parent[q] = Main /\ pc'[q] = pc[q] /\ fds'[q] = fds[q]
          /\ cmd'[q] = cmd[q] /\ todo'[q] = todo[q] /\ parent[p] # Main
      BY <1>1, <2>2 DEF ChildInv
    <3>2. /\ OwesOf(flow, line, out, pc[q], fds[q], cmd[q], todo[q])
          /\ line' = line /\ out' = out
      BY <1>1, <3>1 DEF MainFlow
    <3>3. /\ pc[q] \in {"runcmd", "program"} =>
               Inflow(flow2, fds[q][0]) = Inflow(flow, fds[q][0])
          /\ pc[q] \in {"fork", "right"} =>
               Inflow(flow2, fds[q][3]) = Inflow(flow, fds[q][3])
      <4>1. fds[q][0] \in PipeEnds /\ fds[q][3] \in PipeEnds
        BY Numbers DEF Flowing, PipeIds, Tables
      <4>2. ASSUME NEW e \in PipeEnds, Reader(pc[q], fds[q], e)
            PROVE  Inflow(flow2, e) = Inflow(flow, e)
        <5>1. CASE e.end = "r"
          <6>1. e.id \in Pipes /\ e = ReadEnd(e.id)
            BY <5>1, PipeEndIs
          <6>2. flow2[e.id] = flow[e.id]
            BY <2>2, <4>2, <6>1 DEF Undisturbed
          <6> QED BY <6>2 DEF Inflow
        <5>2. CASE e.end # "r"
          BY <5>2 DEF Inflow
        <5> QED BY <5>1, <5>2
      <4> QED BY <4>1, <4>2 DEF Reader
    <3>4. pc[q] \in {"runcmd", "program"} =>
            SupplyOf(flow2, pc[q], fds[q], cmd[q], todo[q])
              = SupplyOf(flow, pc[q], fds[q], cmd[q], todo[q])
      BY <3>3 DEF SupplyOf
    <3> QED BY <3>1, <3>2, <3>3, <3>4 DEF OwesOf
  <2> QED BY <2>1, <2>2
<1>2. ASSUME NEW q \in Procs
      PROVE  OwesOf(flow2, line, out, pc[q], fds[q], cmd[q], todo[q])' <=>
               OwesOf(flow2, line', out', pc'[q], fds'[q], cmd'[q], todo'[q])
  BY DEF OwesOf, EndOf, Written, Composed, SupplyOf, Inflow, Output, StageOutput,
         Contains
<1> QED BY <1>1, <1>2 DEF MainFlow, Main

\* The rest of a command is the rest of the line.
LEMMA EndOfTail ==
  ASSUME NEW l \in Seq(Stages), NEW c \in Seq(Stages), Len(c) > 1, EndOf(l, c)
  PROVE  /\ Tail(c) \in Seq(Stages) /\ Len(Tail(c)) = Len(c) - 1
         /\ EndOf(l, Tail(c))
         /\ Len(l) - Len(Tail(c)) = (Len(l) - Len(c)) + 1
<1> DEFINE m == Len(c)
           n == Len(l)
<1>1. m \in Nat /\ n \in Nat /\ m > 1 /\ m <= n
  BY LenProperties DEF EndOf
<1>2. c # <<>>
  BY EmptySeq
<1>3. /\ Tail(c) \in Seq(Stages) /\ Len(Tail(c)) = m - 1
      /\ \A i \in 1..Len(Tail(c)) : Tail(c)[i] = c[i + 1]
  BY <1>2, HeadTailProperties
<1>4. \A i \in 1..m : c[i] = l[(n - m) + i]
  BY DEF EndOf
<1> HIDE DEF m, n
<1>5. ASSUME NEW i \in 1..(m - 1) PROVE Tail(c)[i] = l[(n - (m - 1)) + i]
  <2>1. i + 1 \in 1..m /\ (n - m) + (i + 1) = (n - (m - 1)) + i
    BY <1>1
  <2> QED BY <1>3, <1>4, <2>1
<1>6. m - 1 <= n /\ n - (m - 1) = (n - m) + 1
  BY <1>1
<1> QED BY <1>3, <1>5, <1>6 DEF EndOf, m, n

\* The first stage of the rest of the line writes what comes next.
LEMMA NextWritten ==
  ASSUME NEW l \in Seq(Stages), NEW c \in Seq(Stages), Len(c) > 0, EndOf(l, c)
  PROVE  Written(l)[(Len(l) - Len(c)) + 1]
           = StageOutput(c[1], Written(l)[Len(l) - Len(c)])
<1> DEFINE m == Len(c)
           n == Len(l)
<1>1. m \in Nat /\ n \in Nat /\ m > 0 /\ m <= n
  BY LenProperties DEF EndOf
<1>2. \A i \in 1..m : c[i] = l[(n - m) + i]
  BY DEF EndOf
<1>3. \A k \in 1..n : Written(l)[k] = StageOutput(l[k], Written(l)[k - 1])
  BY WrittenIs DEF Tells
<1> HIDE DEF m, n
<1>4. 1 \in 1..m /\ (n - m) + 1 \in 1..n /\ ((n - m) + 1) - 1 = n - m
  BY <1>1
<1>5. c[1] = l[(n - m) + 1]
  BY <1>2, <1>4
<1>6. Written(l)[(n - m) + 1] = StageOutput(l[(n - m) + 1], Written(l)[n - m])
  BY <1>3, <1>4
<1> QED BY <1>5, <1>6 DEF m, n

\* A process exits by itself.
LEMMA EndOwes ==
  ASSUME NEW flow, Flowing(flow), NEW p \in Procs, parent[p] = Main,
         OwesOf(flow, line, out, pc[p], fds[p], cmd[p], todo[p]),
         RunExit(p) \/ ProgExit(p) \/ ProgKilled(p)
  PROVE  OwesOf(flow, line', out', pc'[p], fds'[p], cmd'[p], todo'[p])
<1>0. /\ Exit(p) /\ RoleOf(pc[p], fds[p], cmd[p], parent[p])
      /\ ShellInv
  BY DEF RunExit, ProgExit, ProgKilled, Flowing, Roles
<1>1. /\ line' = line /\ out' = out /\ pc'[p] \in {"free", "zombie"}
  BY <1>0, ExitDoes DEF Quiet
<1>2. line \in Seq(Stages) /\ cmd[p] \in Seq(Stages) /\ out \in Nat
  BY <1>0, LineType DEF ShellInv, CmdType, TypeOK
<1>3. out = Composed(line)
  <2>1. CASE ProgKilled(p)
    BY <1>0, <2>1 DEF ProgKilled, Stdout, RoleOf
  <2>2. CASE RunExit(p) /\ Len(cmd[p]) # 1
    <3>1. pc[p] = "runcmd" /\ cmd[p] = <<>>
      BY <2>2 DEF RunExit
    <3>2. Len(cmd[p]) = 0
      BY <3>1, EmptySeq
    <3>3. fds[p][0] = Tty
      BY <1>0, <3>1, <3>2 DEF RoleOf
    <3>4. Inflow(flow, fds[p][0]) = 0
      BY <3>3, EndTypes DEF Inflow
    <3>5. Len(line) \in Nat
      BY <1>2, LenProperties
    <3>6. Len(line) - Len(cmd[p]) = Len(line)
      BY <3>2, <3>5
    <3>7. out = 0 /\ Inflow(flow, fds[p][0]) = Written(line)[Len(line)]
      BY <2>2, <3>1, <3>6 DEF OwesOf
    <3> QED BY <3>4, <3>7 DEF Composed
  <2>3. CASE (RunExit(p) /\ Len(cmd[p]) = 1) \/ ProgExit(p)
    <3>1. Supply(flow, p) = 0
      BY <2>3, LastSupply
    <3>2. pc[p] = "program" \/ (pc[p] = "runcmd" /\ Len(cmd[p]) = 1)
      BY <2>3 DEF RunExit, ProgExit, Reads
    <3>3. out + (IF fds[p][1].end = "tty" THEN Supply(flow, p) ELSE 0) = Composed(line)
      BY <3>2 DEF OwesOf, Supply
    <3> QED BY <1>2, <3>1, <3>3
  <2> QED BY <2>1, <2>2, <2>3
<1> QED BY <1>1, <1>3 DEF OwesOf

\* The parent of a pipe goes on with the rest of the line.
LEMMA RightOwes ==
  ASSUME NEW flow, Flowing(flow), NEW p \in Procs,
         OwesOf(flow, line, out, pc[p], fds[p], cmd[p], todo[p]), RunRight(p)
  PROVE  OwesOf(flow, line', out', pc'[p], fds'[p], cmd'[p], todo'[p])
<1> DEFINE c == cmd[p]
<1>1. /\ line' = line /\ out' = out /\ pc[p] = "right" /\ pc'[p] = "runcmd"
      /\ cmd'[p] = Tail(c) /\ Len(c) > 1
      /\ fds'[p][0] = fds[p][3] /\ fds'[p][1] = fds[p][1]
  BY RightDoes DEF Flowing, Quiet
<1>2. line \in Seq(Stages) /\ c \in Seq(Stages) /\ out \in Nat
  BY LineType DEF Flowing, ShellInv, CmdType, TypeOK
<1>3. /\ out = 0 /\ EndOf(line, c)
      /\ Inflow(flow, fds[p][3]) = Written(line)[(Len(line) - Len(c)) + 1]
  BY <1>1 DEF OwesOf
<1>4. /\ Tail(c) \in Seq(Stages) /\ Len(Tail(c)) = Len(c) - 1
      /\ EndOf(line, Tail(c))
      /\ Len(line) - Len(Tail(c)) = (Len(line) - Len(c)) + 1
  BY <1>1, <1>2, <1>3, EndOfTail
<1>5. Inflow(flow, fds'[p][0]) = Written(line)[Len(line) - Len(Tail(c))]
  BY <1>1, <1>3, <1>4
<1>6. ASSUME Len(Tail(c)) = 1
      PROVE  out + SupplyOf(flow, "runcmd", fds'[p], Tail(c), todo'[p]) = Composed(line)
  <2> DEFINE n == Len(line)
  <2>1. n \in Nat /\ n - 1 + 1 = n
    BY <1>2, LenProperties
  <2>2. Written(line)[n] = StageOutput(Tail(c)[1], Written(line)[n - 1])
    <3> DEFINE r == Tail(c)
    <3>0. r \in Seq(Stages) /\ EndOf(line, r) /\ Len(r) = 1
      BY <1>4, <1>6
    <3> HIDE DEF r
    <3>1. r \in Seq(Stages) /\ EndOf(line, r) /\ Len(r) = 1 /\ Len(r) > 0
      BY <3>0
    <3>2. Written(line)[(n - Len(r)) + 1]
            = StageOutput(r[1], Written(line)[n - Len(r)])
      BY <1>2, <3>1, NextWritten
    <3> QED BY <2>1, <3>1, <3>2 DEF r
  <2>3. SupplyOf(flow, "runcmd", fds'[p], Tail(c), todo'[p]) = Written(line)[n]
    BY <1>5, <1>6, <2>2 DEF SupplyOf
  <2>4. Written(line)[n] \in Nat
    <3>1. Written(line) \in [0..n -> Nat] /\ n \in 0..n
      BY <1>2, <2>1, WrittenIs DEF Tells
    <3> QED BY <3>1
  <2> QED BY <1>3, <2>3, <2>4 DEF Composed
<1>7. fds'[p][1].end = "tty"
  BY <1>1, EndTypes DEF Flowing, Roles, RoleOf
<1> QED BY <1>1, <1>3, <1>4, <1>5, <1>6, <1>7 DEF OwesOf

\* A redirection of the last stage.
LEMMA RedirOwes ==
  ASSUME NEW flow, Flowing(flow), NEW p \in Procs, NEW ok \in BOOLEAN,
         OwesOf(flow, line, out, pc[p], fds[p], cmd[p], todo[p]), RunRedir(p, ok)
  PROVE  OwesOf(flow, line', out', pc'[p], fds'[p], cmd'[p], todo'[p])
<1>1. /\ line' = line /\ out' = out /\ pc[p] = "runcmd" /\ pc'[p] = "runcmd"
      /\ Len(cmd[p]) = 1 /\ Len(cmd'[p]) = 1
  BY RedirDoes DEF Flowing
<1>2. out + (IF fds[p][1].end = "tty" THEN Supply(flow, p) ELSE 0) = Composed(line)
  BY <1>1 DEF OwesOf, Supply
<1>3. \/ /\ fds'[p][1] = fds[p][1]
         /\ SupplyOf(flow, pc'[p], fds'[p], cmd'[p], todo'[p]) = Supply(flow, p)
      \/ fds'[p][1].end \notin {"tty", "w"} /\ Supply(flow, p) = 0
  BY RedirSupply
<1>4. out + (IF fds'[p][1].end = "tty"
             THEN SupplyOf(flow, pc'[p], fds'[p], cmd'[p], todo'[p]) ELSE 0)
        = Composed(line)
  <2> HIDE DEF Supply, SupplyOf
  <2> QED BY <1>2, <1>3
<1> QED BY <1>1, <1>4 DEF OwesOf

\* pipe(): what the new pipe will carry is what the line writes up to there.
LEMMA PipeOwes ==
  ASSUME NEW flow, Flowing(flow), NEW p \in Procs, NEW j \in Pipes, NEW flow2,
         OwesOf(flow, line, out, pc[p], fds[p], cmd[p], todo[p]), RunPipe(p, j),
         flow2[j] = StageOutput(cmd[p][1], Inflow(flow, fds[p][0]))
  PROVE  OwesOf(flow2, line', out', pc'[p], fds'[p], cmd'[p], todo'[p])
<1> DEFINE c == cmd[p]
<1>1. /\ line' = line /\ out' = out /\ pc[p] = "runcmd" /\ pc'[p] = "fork"
      /\ cmd'[p] = c /\ Len(c) > 1 /\ fds'[p][3] = ReadEnd(j)
  BY PipeDoes DEF Flowing, Quiet
<1>2. line \in Seq(Stages) /\ c \in Seq(Stages)
  BY LineType DEF Flowing, ShellInv, CmdType, TypeOK
<1>3. Len(c) # 1 /\ Len(c) > 0
  <2> DEFINE m == Len(c)
  <2>1. m \in Nat /\ m > 1
    BY <1>1, <1>2, LenProperties
  <2> HIDE DEF m
  <2>2. m # 1 /\ m > 0
    BY <2>1
  <2> QED BY <2>2 DEF m
<1>4. /\ out = 0 /\ EndOf(line, c)
      /\ Inflow(flow, fds[p][0]) = Written(line)[Len(line) - Len(c)]
  BY <1>1, <1>3 DEF OwesOf
<1>5. flow2[j] = Written(line)[(Len(line) - Len(c)) + 1]
  BY <1>2, <1>3, <1>4, NextWritten
<1>6. Inflow(flow2, fds'[p][3]) = flow2[j]
  BY <1>1 DEF Inflow, ReadEnd
<1> QED BY <1>1, <1>4, <1>5, <1>6 DEF OwesOf

\* Every step of a process: there is a flow after it.
LEMMA ProcFlow ==
  ASSUME NEW flow, Flowing(flow), ShellInv', ChildInv, MainFlow(flow),
         NEW p \in Procs, ProcStep(p)
  PROVE  \E flow2 \in Flows : PipeFlow(flow2)' /\ MainFlow(flow2)'
<1>0. flow \in Flows /\ Undisturbed(p, flow, flow) /\ ShellInv
  BY DEF Flowing, Undisturbed
<1> DEFINE Owed  == OwesOf(flow, line, out, pc[p], fds[p], cmd[p], todo[p])
           Mine(g) == OwesOf(g, line', out', pc'[p], fds'[p], cmd'[p], todo'[p])
<1>1. ASSUME NEW flow2 \in Flows, Undisturbed(p, flow, flow2), Alone(p),
             line' = line, out' = out \/ parent[p] = Main, failed' = {} => failed = {},
             parent[p] = Main /\ failed' = {} /\ Owed => Mine(flow2)
      PROVE  MainFlow(flow2)'
  <2>1. parent[p] = Main /\ failed = {} => Owed
    BY DEF MainFlow
  <2> HIDE DEF Owed, Mine
  <2>2. parent[p] = Main /\ failed' = {} => Mine(flow2)
    BY <1>1, <2>1
  <2>3. parent' = parent
    BY <1>1 DEF Alone
  <2>4. \A q \in Procs \ {p} :
           /\ parent'[q] = Main =>
                /\ parent[q] = Main /\ pc'[q] = pc[q] /\ fds'[q] = fds[q]
                /\ cmd'[q] = cmd[q] /\ todo'[q] = todo[q]
    BY <1>1, <2>3 DEF Alone
  <2> QED BY <1>1, <2>2, <2>3, <2>4, MainMove DEF Mine
<1>2. CASE RunExit(p) \/ ProgExit(p) \/ ProgKilled(p)
  <2>1. Exit(p)
    BY <1>2 DEF RunExit, ProgExit, ProgKilled
  <2>2. PipeFlow(flow)'
    BY <1>2, EndFlow
  <2>3. /\ line' = line /\ out' = out /\ failed' = failed
        /\ \A q \in Procs : parent'[q] = IF parent[q] = p THEN InitP ELSE parent[q]
        /\ \A q \in Procs \ {p} :
              /\ fds'[q] = fds[q] /\ cmd'[q] = cmd[q] /\ todo'[q] = todo[q]
              /\ pc'[q] = IF parent[q] = p /\ pc[q] = "zombie" THEN "free" ELSE pc[q]
    BY <1>0, <2>1, ExitDoes DEF Quiet
  <2>4. parent[p] = Main /\ failed' = {} => Mine(flow)
    BY <1>2, <2>3, EndOwes DEF MainFlow
  <2>5. \A q \in Procs \ {p} :
           /\ parent'[q] = Main =>
                /\ parent[q] = Main /\ pc'[q] = pc[q] /\ fds'[q] = fds[q]
                /\ cmd'[q] = cmd[q] /\ todo'[q] = todo[q]
    BY <2>3, Outsiders
  <2>6. parent'[p] = Main => parent[p] = Main
    BY <2>3, Outsiders
  <2>7. MainFlow(flow)'
    BY <1>0, <2>3, <2>4, <2>5, <2>6, MainMove
  <2> QED BY <1>0, <2>2, <2>7
<1>3. CASE RunExec(p)
  <2>1. Alone(p) /\ Quiet /\ pc[p] = "runcmd" /\ pc'[p] = "program"
        /\ Len(cmd[p]) = 1 /\ cmd'[p] = cmd[p] /\ fds'[p] = fds[p]
    BY <1>0, <1>3, ExecDoes
  <2>2. SupplyOf(flow, pc'[p], fds'[p], cmd'[p], todo'[p]) = Supply(flow, p)
    BY <1>3, ExecSupply
  <2>3. Owed => Mine(flow)
    BY <2>1, <2>2 DEF OwesOf, Supply, Quiet
  <2>4. MainFlow(flow)'
    BY <1>0, <1>1, <2>1, <2>3 DEF Quiet
  <2> QED BY <1>0, <1>3, <2>4, ExecFlow
<1>4. CASE RunNoFork(p)
  <2>1. PICK flow2 \in Flows : PipeFlow(flow2)' /\ Undisturbed(p, flow, flow2)
    BY <1>4, NoForkFlow
  <2>2. Alone(p) /\ line' = line /\ out' = out /\ failed' # {}
    BY <1>0, <1>4, NoForkDoes
  <2>3. MainFlow(flow2)'
    BY <1>1, <2>1, <2>2
  <2> QED BY <2>1, <2>3
<1>5. CASE RunLeft(p)
  <2>1. Alone(p) /\ Quiet /\ pc[p] = "left"
    BY <1>0, <1>5, LeftDoes
  <2>2. parent[p] # Main
    BY <2>1 DEF Flowing, Roles, RoleOf
  <2>3. MainFlow(flow)'
    BY <1>0, <1>1, <2>1, <2>2 DEF Quiet
  <2> QED BY <1>0, <1>5, <2>3, LeftFlow
<1>6. CASE RunRight(p)
  <2>1. Alone(p) /\ Quiet
    BY <1>0, <1>6, RightDoes
  <2>2. Owed => Mine(flow)
    BY <1>6, RightOwes
  <2>3. MainFlow(flow)'
    BY <1>0, <1>1, <2>1, <2>2 DEF Quiet
  <2> QED BY <1>0, <1>6, <2>3, RightFlow
<1>7. ASSUME NEW ok \in BOOLEAN, RunRedir(p, ok)
      PROVE  \E flow2 \in Flows : PipeFlow(flow2)' /\ MainFlow(flow2)'
  <2>1. Alone(p) /\ line' = line /\ out' = out /\ (failed' = {} => failed = {})
    BY <1>0, <1>7, RedirDoes
  <2>2. Owed => Mine(flow)
    BY <1>7, RedirOwes
  <2>3. MainFlow(flow)'
    BY <1>0, <1>1, <2>1, <2>2
  <2> QED BY <1>0, <1>7, <2>3, RedirFlow
<1>8. ASSUME NEW j \in Pipes, RunPipe(p, j)
      PROVE  \E flow2 \in Flows : PipeFlow(flow2)' /\ MainFlow(flow2)'
  <2>1. PICK flow2 \in Flows :
           /\ PipeFlow(flow2)' /\ Undisturbed(p, flow, flow2)
           /\ flow2[j] = StageOutput(cmd[p][1], Inflow(flow, fds[p][0]))
    BY <1>8, NewPipeFlow
  <2>2. Alone(p) /\ Quiet
    BY <1>0, <1>8, PipeDoes
  <2>3. Owed => Mine(flow2)
    BY <1>8, <2>1, PipeOwes
  <2>4. MainFlow(flow2)'
    BY <1>1, <2>1, <2>2, <2>3 DEF Quiet
  <2> QED BY <2>1, <2>4
<1>9. ASSUME NEW q \in Procs, RunFork(p, q)
      PROVE  \E flow2 \in Flows : PipeFlow(flow2)' /\ MainFlow(flow2)'
  <2>1. /\ Quiet /\ p # q /\ pc[p] = "fork" /\ pc[q] = "free" /\ pc'[p] = "right"
        /\ cmd'[p] = cmd[p] /\ fds'[p] = fds[p] /\ todo' = todo
        /\ parent' = [parent EXCEPT ![q] = p]
        /\ \A r \in Procs \ {p, q} :
              pc'[r] = pc[r] /\ fds'[r] = fds[r] /\ cmd'[r] = cmd[r]
    BY <1>0, <1>9, ForkDoes
  <2>2. \A r \in Procs : parent'[r] = IF r = q THEN p ELSE parent[r]
    BY <2>1 DEF ChildInv
  <2>3. Owed => Mine(flow)
    BY <2>1 DEF OwesOf, Quiet
  <2>4. parent[p] = Main /\ failed' = {} => Mine(flow)
    BY <2>1, <2>3 DEF MainFlow, Quiet
  <2>5. \A r \in Procs \ {p} :
           /\ parent'[r] = Main =>
                /\ parent[r] = Main /\ pc'[r] = pc[r] /\ fds'[r] = fds[r]
                /\ cmd'[r] = cmd[r] /\ todo'[r] = todo[r]
    BY <2>1, <2>2, Outsiders
  <2>6. MainFlow(flow)'
    BY <1>0, <2>1, <2>2, <2>4, <2>5, MainMove DEF Quiet
  <2> QED BY <1>0, <1>9, <2>6, ForkFlow
<1>10. CASE ProgRead(p)
  <2>1. PICK flow2 \in Flows :
           /\ PipeFlow(flow2)' /\ Undisturbed(p, flow, flow2)
           /\ SupplyOf(flow2, pc'[p], fds'[p], cmd'[p], todo'[p]) = Supply(flow, p)
    BY <1>10, ReadFlow
  <2>2. Alone(p) /\ Quiet /\ pc[p] = "program" /\ pc'[p] = "program"
        /\ fds'[p] = fds[p]
    BY <1>0, <1>10, ReadDoes DEF Flowing
  <2>3. Owed => Mine(flow2)
    BY <2>1, <2>2 DEF OwesOf, Supply, Quiet
  <2>4. MainFlow(flow2)'
    BY <1>1, <2>1, <2>2, <2>3 DEF Quiet
  <2> QED BY <2>1, <2>4
<1>11. CASE ProgWrite(p)
  <2>1. /\ PipeFlow(flow)'
        /\ SupplyOf(flow, pc'[p], fds'[p], cmd'[p], todo'[p]) = Supply(flow, p) - 1
        /\ Supply(flow, p) \in Nat
    BY <1>11, WriteFlow
  <2>2. /\ Alone(p) /\ line' = line /\ failed' = failed
        /\ pc[p] = "program" /\ pc'[p] = "program" /\ fds'[p] = fds[p]
        /\ out' = IF fds[p][1].end = "tty" THEN out + 1 ELSE out
    BY <1>0, <1>11, WriteDoes
  <2>3. out' = out \/ parent[p] = Main
    BY <2>2 DEF Flowing, Roles, RoleOf
  <2>4. out \in Nat
    BY <1>0 DEF ShellInv, TypeOK
  <2>5. Owed => Mine(flow)
    <3> SUFFICES ASSUME Owed PROVE Mine(flow)
      OBVIOUS
    <3>1. out + (IF fds[p][1].end = "tty" THEN Supply(flow, p) ELSE 0) = Composed(line)
      BY <2>2 DEF OwesOf, Supply
    <3>2. out' + (IF fds'[p][1].end = "tty"
                  THEN SupplyOf(flow, pc'[p], fds'[p], cmd'[p], todo'[p]) ELSE 0)
            = Composed(line)
      <4> HIDE DEF Supply, SupplyOf
      <4> QED BY <2>1, <2>2, <2>4, <3>1
    <3> QED BY <2>2, <3>2 DEF OwesOf
  <2>6. MainFlow(flow)'
    BY <1>0, <1>1, <2>2, <2>3, <2>5
  <2> QED BY <1>0, <2>1, <2>6
<1> QED BY <1>2, <1>3, <1>4, <1>5, <1>6, <1>7, <1>8, <1>9, <1>10, <1>11 DEF ProcStep

\* main() and the flow.
FlowInv ==
  /\ ShellInv /\ ChildInv /\ PipeIds /\ Roles /\ Waiting /\ Composition
  /\ \E flow \in Flows : PipeFlow(flow) /\ MainFlow(flow)

\* Every step of a process preserves it.
LEMMA ProcFlowInv ==
  ASSUME FlowInv, NEW p \in Procs, ProcStep(p)
  PROVE  FlowInv'
<1>1. ShellInv' /\ ChildInv' /\ PipeIds' /\ Roles'
  BY ProcInv, ProcChild, ProcPipeIds, ProcRoles DEF FlowInv
<1>2. PICK flow \in Flows : PipeFlow(flow) /\ MainFlow(flow)
  BY DEF FlowInv
<1>3. Flowing(flow)
  BY <1>2 DEF FlowInv, Flowing
<1>4. \E flow2 \in Flows : PipeFlow(flow2)' /\ MainFlow(flow2)'
  BY <1>1, <1>2, <1>3, ProcFlow DEF FlowInv
<1>5. /\ main_pc' = main_pc /\ line' = line
      /\ failed' = {} => failed = {}
      /\ out' = out \/ parent[p] = Main
      /\ \A q \in Procs : parent[q] = Main => parent'[q] = Main
  <2>0. ShellInv /\ PipeIds /\ Roles /\ TypeOK /\ CmdType
    BY DEF FlowInv, ShellInv
  <2>1. CASE RunExit(p) \/ ProgExit(p) \/ ProgKilled(p)
    <3>1. Exit(p)
      BY <2>1 DEF RunExit, ProgExit, ProgKilled
    <3> QED BY <2>0, <3>1, ExitDoes, Outsiders DEF Quiet
  <2>2. CASE RunExec(p) \/ RunLeft(p) \/ RunRight(p)
    BY <2>0, <2>2, ExecDoes, LeftDoes, RightDoes DEF Quiet, Alone
  <2>3. CASE RunNoFork(p)
    BY <2>0, <2>3, NoForkDoes DEF Alone
  <2>4. ASSUME NEW ok \in BOOLEAN, RunRedir(p, ok)
        PROVE  /\ main_pc' = main_pc /\ line' = line /\ out' = out
               /\ parent' = parent
               /\ failed' = {} => failed = {}
    BY <2>0, <2>4, RedirDoes DEF Alone
  <2>5. ASSUME NEW k \in Pipes, RunPipe(p, k) PROVE Quiet /\ parent' = parent
    BY <2>0, <2>5, PipeDoes DEF Alone
  <2>6. ASSUME NEW q \in Procs, RunFork(p, q)
        PROVE  Quiet /\ \A r \in Procs : parent[r] = Main => parent'[r] = Main
    <3>1. Quiet /\ parent' = [parent EXCEPT ![q] = p] /\ pc[q] = "free"
      BY <2>0, <2>6, ForkDoes
    <3>2. parent[q] # Main
      BY <2>0, <3>1 DEF Roles, RoleOf
    <3> QED BY <2>0, <3>1, <3>2 DEF TypeOK
  <2>7. CASE ProgRead(p)
    BY <2>0, <2>7, ReadDoes DEF Quiet, Alone
  <2>8. CASE ProgWrite(p)
    <3>1. /\ main_pc' = main_pc /\ line' = line /\ failed' = failed /\ Alone(p)
          /\ pc[p] = "program"
          /\ out' = IF fds[p][1].end = "tty" THEN out + 1 ELSE out
      BY <2>0, <2>8, WriteDoes
    <3> QED BY <2>0, <3>1 DEF Roles, RoleOf, Alone
  <2> QED BY <2>1, <2>2, <2>3, <2>4, <2>5, <2>6, <2>7, <2>8 DEF ProcStep, Quiet
<1>6. Waiting'
  BY <1>5 DEF FlowInv, Waiting, Main
<1>7. Composition'
  <2> SUFFICES ASSUME main_pc' = "prompt", failed' = {} PROVE out' = Composed(line)
    BY <1>5 DEF Composition, Composed, Written
  <2>1. parent[p] # Main
    BY <1>5 DEF FlowInv, ChildInv
  <2> QED BY <1>5, <2>1 DEF FlowInv, Composition
<1> QED BY <1>1, <1>4, <1>6, <1>7 DEF FlowInv, Flows, Pipes

\* A step of main() that changes no process.
LEMMA KeepsFlow ==
  ASSUME NEW flow, PipeFlow(flow), UNCHANGED <<pc, cmd, fds, todo, buffer>>
  PROVE  PipeFlow(flow)'
<1>1. ASSUME NEW r \in Procs
      PROVE  /\ Supply(flow, r)' = Supply(flow, r)
             /\ \A k : Writes(r, k)' <=> Writes(r, k)
  BY DEF Supply, SupplyOf, Inflow, Output, StageOutput, Contains, Writes, Writer,
         WriteEnd
<1>2. ASSUME NEW k PROVE IsRead(k)' <=> IsRead(k)
  BY DEF IsRead, Reader, ReadEnd
<1> QED BY <1>1, <1>2 DEF PipeFlow

\* main() reads a line and forks a child for it.
LEMMA GetCmdFlow ==
  ASSUME FlowInv, NEW l \in Lines, NEW q \in Procs, GetCmd(l, q), ShellInv'
  PROVE  /\ PipeIds' /\ Roles'
         /\ \E flow \in Flows : PipeFlow(flow)' /\ MainFlow(flow)'
<1>0. /\ ShellInv /\ PipeIds /\ Roles /\ TypeOK /\ CmdType
      /\ l \in Seq(Stages)
  BY ShellAssumption DEF FlowInv, ShellInv
<1>1. /\ pc' = [pc EXCEPT ![q] = "runcmd"] /\ fds' = [fds EXCEPT ![q] = TtyFds]
      /\ parent' = [parent EXCEPT ![q] = Main] /\ cmd' = [cmd EXCEPT ![q] = l]
      /\ main_pc = "prompt" /\ line' = l /\ out' = 0 /\ pc[q] = "free"
      /\ todo' = todo /\ buffer' = buffer
  BY DEF GetCmd, Child, FreeProc
<1>2. /\ TtyFds \in Tables /\ TtyFds[0] = Tty /\ TtyFds[1] = Tty
      /\ TtyFds[3] = Closed /\ TtyFds[4] = Closed
  BY TableOps, Numbers DEF TtyFds, Tables
<1>3. /\ pc'[q] = "runcmd" /\ fds'[q] = TtyFds /\ cmd'[q] = l /\ parent'[q] = Main
      /\ \A p \in Procs \ {q} : /\ pc'[p] = pc[p] /\ fds'[p] = fds[p]
                                /\ cmd'[p] = cmd[p] /\ parent'[p] = parent[p]
                                /\ todo'[p] = todo[p]
  BY <1>0, <1>1 DEF TypeOK, CmdType
<1>4. PipeIds'
  BY <1>0, <1>1, <1>2 DEF PipeIds
<1>5. Roles'
  <2>1. RoleOf("runcmd", TtyFds, l, Main)
    BY <1>2, EndTypes DEF RoleOf
  <2> QED BY <1>0, <1>3, <2>1, RoleMove
<1>6. PICK flow \in Flows : PipeFlow(flow) /\ MainFlow(flow)
  BY DEF FlowInv
<1>7. ASSUME NEW k \in Pipes
      PROVE  /\ ~Reader(pc'[q], fds'[q], ReadEnd(k))
             /\ ~Writer(pc'[q], fds'[q], WriteEnd(k)) /\ ~Writes(q, k)
  BY <1>1, <1>2, <1>3 DEF Reader, Writer, Writes, Tty, ReadEnd, WriteEnd
<1>8. ASSUME NEW k \in Pipes, NEW r \in Procs, Reader(pc'[r], fds'[r], ReadEnd(k))
      PROVE  IsRead(k)
  <2>1. r # q
    BY <1>7, <1>8
  <2> QED BY <1>3, <1>8, <2>1 DEF IsRead
<1>9. PipeFlow(flow)'
  BY <1>0, <1>1, <1>3, <1>6, <1>7, <1>8, PipeMove
<1>10. OwesOf(flow, l, 0, "runcmd", TtyFds, l, todo'[q])
  <2>1. Inflow(flow, TtyFds[0]) = 0 /\ TtyFds[1].end = "tty"
    BY <1>2, EndTypes DEF Inflow
  <2> DEFINE n == Len(l)
  <2>2. n \in Nat
    BY <1>0, LenProperties
  <2>3. n <= n /\ n - n = 0 /\ \A i \in 1..n : (n - n) + i = i
    <3> HIDE DEF n
    <3> QED BY <2>2
  <2>4. EndOf(l, l)
    BY <2>3 DEF EndOf
  <2>5. Written(l)[0] = 0
    BY <1>0, WrittenIs DEF Tells
  <2>6. ASSUME n = 1
        PROVE  0 + SupplyOf(flow, "runcmd", TtyFds, l, todo'[q]) = Composed(l)
    <3>1. Written(l)[1] = StageOutput(l[1], Written(l)[1 - 1])
      BY <1>0, <2>6, WrittenIs DEF Tells
    <3>2. Written(l)[1] = StageOutput(l[1], 0)
      BY <2>5, <3>1
    <3>3. l[1] \in Stages
      BY <1>0, <2>6, StageType
    <3>4. StageOutput(l[1], 0) \in Nat
      BY <3>3, OutputType
    <3>5. SupplyOf(flow, "runcmd", TtyFds, l, todo'[q]) = StageOutput(l[1], 0)
      BY <2>1 DEF SupplyOf
    <3>6. Composed(l) = Written(l)[1]
      BY <2>6 DEF Composed
    <3> HIDE DEF StageOutput, SupplyOf
    <3> QED BY <3>2, <3>4, <3>5, <3>6
  <2> QED BY <2>1, <2>3, <2>4, <2>5, <2>6 DEF OwesOf
<1>11. MainFlow(flow)'
  <2>1. ASSUME NEW p \in Procs, parent'[p] = Main PROVE p = q
    BY <1>1, <1>3, <2>1 DEF FlowInv, ChildInv
  <2>2. ASSUME NEW p \in Procs, parent'[p] = Main
        PROVE  OwesOf(flow, line', out', pc'[p], fds'[p], cmd'[p], todo'[p])
    BY <1>1, <1>3, <1>10, <2>1, <2>2
  <2>3. ASSUME NEW p \in Procs
        PROVE  OwesOf(flow, line, out, pc[p], fds[p], cmd[p], todo[p])' <=>
                 OwesOf(flow, line', out', pc'[p], fds'[p], cmd'[p], todo'[p])
    BY DEF OwesOf, EndOf, Written, Composed, SupplyOf, Inflow, Output, StageOutput,
           Contains
  <2> QED BY <2>2, <2>3 DEF MainFlow, Main
<1> QED BY <1>4, <1>5, <1>9, <1>11

\* Every step of main() preserves the invariant: wait() returns when the output
\* of the line is complete.
LEMMA MainFlowInv ==
  ASSUME FlowInv, MainStep
  PROVE  FlowInv'
<1>0. /\ ShellInv /\ ChildInv /\ PipeIds /\ Roles /\ Waiting /\ TypeOK
      /\ ShellInv' /\ ChildInv'
  BY MainInv, MainChild DEF FlowInv, ShellInv
<1>1. PICK flow \in Flows : PipeFlow(flow) /\ MainFlow(flow)
  BY DEF FlowInv
<1>2. ASSUME PipeIds', Roles', Waiting', Composition',
             \E g \in Flows : PipeFlow(g)' /\ MainFlow(g)'
      PROVE  FlowInv'
  BY <1>0, <1>2 DEF FlowInv, Flows, Pipes
<1>3. ASSUME NEW l \in Lines, NEW q \in Procs, GetCmd(l, q) PROVE FlowInv'
  <2>1. parent' = [parent EXCEPT ![q] = Main] /\ main_pc' = "wait"
    BY <1>3 DEF GetCmd, Child
  <2>2. parent'[q] = Main
    BY <1>0, <2>1 DEF TypeOK
  <2>3. Waiting' /\ Composition'
    BY <2>1, <2>2 DEF Waiting, Composition, Main
  <2> QED BY <1>0, <1>2, <1>3, <2>3, GetCmdFlow
<1>4. ASSUME NEW l \in Lines, GetCmdNoFork(l) PROVE FlowInv'
  <2>1. /\ UNCHANGED <<pc, cmd, parent, fds, todo, buffer>>
        /\ main_pc' = "wait" /\ failed' = {Main}
    BY <1>4 DEF GetCmdNoFork
  <2>2. PipeIds' /\ Roles'
    BY <1>0, <2>1 DEF PipeIds, Roles, RoleOf, Tty, Main
  <2>3. Waiting' /\ Composition' /\ MainFlow(flow)'
    BY <2>1 DEF Waiting, Composition, MainFlow
  <2> QED BY <1>1, <1>2, <2>1, <2>2, <2>3, KeepsFlow
<1>5. ASSUME NEW p \in Procs, MainReap(p) PROVE FlowInv'
  <2>1. /\ parent[p] = Main /\ pc[p] = "zombie"
        /\ pc' = [pc EXCEPT ![p] = "free"] /\ parent' = [parent EXCEPT ![p] = InitP]
        /\ UNCHANGED <<line, cmd, fds, todo, buffer, out, failed>>
        /\ main_pc' = "prompt"
    BY <1>5 DEF MainReap
  <2>2. /\ pc'[p] = "free" /\ parent'[p] = InitP
        /\ \A q \in Procs \ {p} : pc'[q] = pc[q] /\ parent'[q] = parent[q]
    BY <1>0, <2>1 DEF TypeOK
  <2>3. PipeIds'
    BY <1>0, <2>1 DEF PipeIds
  <2>4. Roles'
    <3>1. RoleOf("free", fds[p], cmd[p], InitP)
      BY Outsiders DEF RoleOf
    <3> QED BY <1>0, <2>1, <2>2, <3>1, RoleMove
  <2>5. \A q \in Procs : parent'[q] # Main
    BY <1>0, <2>1 DEF ChildInv
  <2>6. Waiting' /\ MainFlow(flow)'
    BY <2>1, <2>5 DEF Waiting, MainFlow, Main
  <2>7. failed = {} => out = Composed(line)
    BY <1>1, <2>1 DEF MainFlow, OwesOf
  <2>8. Composition'
    BY <2>1, <2>7 DEF Composition, Composed, Written
  <2>9. ASSUME NEW k \in Pipes
        PROVE  ~Writer(pc'[p], fds'[p], WriteEnd(k)) /\ ~Writes(p, k)
    BY <2>1, <2>2 DEF Writer, Writes
  <2>10. ASSUME NEW k \in Pipes, NEW r \in Procs, Reader(pc'[r], fds'[r], ReadEnd(k))
         PROVE  IsRead(k)
    <3>1. r # p
      BY <2>2, <2>10 DEF Reader
    <3> QED BY <2>1, <2>2, <2>10, <3>1 DEF IsRead
  <2>11. PipeFlow(flow)'
    BY <1>0, <1>1, <2>1, <2>2, <2>9, <2>10, PipeMove
  <2> QED BY <1>1, <1>2, <2>3, <2>4, <2>6, <2>8, <2>11
<1>6. CASE MainNoChild
  <2>1. /\ UNCHANGED <<pc, cmd, parent, fds, todo, buffer, line, out, failed>>
        /\ main_pc = "wait" /\ main_pc' = "prompt" /\ \A p \in Procs : parent[p] # Main
    BY <1>6 DEF MainNoChild, NoChild
  <2>2. failed # {}
    BY <1>0, <2>1 DEF Waiting
  <2>3. PipeIds' /\ Roles'
    BY <1>0, <2>1 DEF PipeIds, Roles, RoleOf, Tty, Main
  <2>4. Waiting' /\ Composition' /\ MainFlow(flow)'
    BY <2>1, <2>2 DEF Waiting, Composition, MainFlow
  <2> QED BY <1>1, <1>2, <2>1, <2>3, <2>4, KeepsFlow
<1>7. CASE MainExit
  <2>1. /\ UNCHANGED <<pc, cmd, parent, fds, todo, buffer, line, out, failed>>
        /\ main_pc = "prompt" /\ main_pc' = "done"
    BY <1>7 DEF MainExit
  <2>2. \A p \in Procs : parent'[p] # Main
    BY <1>0, <2>1 DEF ChildInv
  <2>3. PipeIds' /\ Roles'
    BY <1>0, <2>1 DEF PipeIds, Roles, RoleOf, Tty, Main
  <2>4. Waiting' /\ Composition' /\ MainFlow(flow)'
    BY <2>1, <2>2 DEF Waiting, Composition, MainFlow, Main
  <2> QED BY <1>1, <1>2, <2>1, <2>3, <2>4, KeepsFlow
<1> QED BY <1>3, <1>4, <1>5, <1>6, <1>7 DEF MainStep, MainWait

\* However the stages of a line are scheduled, and although main() waits for the
\* last one only, the terminal has the composition of all stages when main()
\* prompts again, unless a fork() or an open() failed: for every set of command
\* lines, every number of processes and every size of a pipe.
THEOREM OutputIsComposed == Spec => []Composition
<1>1. Init => FlowInv
  <2> SUFFICES ASSUME Init PROVE FlowInv
    OBVIOUS
  <2>1. ShellInv
    BY ShellInvInit
  <2>2. ChildInv
    BY InitChild
  <2>3. PipeIds
    BY TableOps DEF Init, PipeIds, Tables
  <2>4. Roles
    <3>1. \A p \in Procs : pc[p] = "free" /\ parent[p] = InitP
      BY DEF Init
    <3> QED BY <3>1, Outsiders DEF Roles, RoleOf
  <2>5. Waiting
    BY DEF Init, Waiting
  <2>6. Composition
    <3>1. Written(<<>>)[0] = 0
      BY EmptySeq, WrittenIs DEF Tells
    <3>2. Composed(line) = 0 /\ out = 0
      BY <3>1, EmptySeq DEF Init, Composed
    <3> QED BY <3>2 DEF Composition
  <2>7. [k \in Pipes |-> 0] \in Flows
    BY DEF Flows
  <2>8. PipeFlow([k \in Pipes |-> 0]) /\ MainFlow([k \in Pipes |-> 0])
    <3>1. \A p \in Procs : pc[p] = "free" /\ parent[p] # Main
      BY Outsiders DEF Init
    <3>2. \A k : ~IsRead(k)
      BY <3>1 DEF IsRead, Reader
    <3> QED BY <3>1, <3>2 DEF PipeFlow, MainFlow
  <2> QED BY <2>1, <2>2, <2>3, <2>4, <2>5, <2>6, <2>7, <2>8 DEF FlowInv
<1>2. FlowInv /\ [Next]_vars => FlowInv'
  <2> SUFFICES ASSUME FlowInv, [Next]_vars PROVE FlowInv'
    OBVIOUS
  <2>1. CASE Ended \/ UNCHANGED vars
    <3>1. UNCHANGED <<main_pc, typed, line, pc, cmd, parent, pfd, fds, todo,
                      buffer, out, perm, failed>>
      BY <2>1 DEF Ended, vars, shellVars
    <3>2. ShellInv' /\ ChildInv' /\ PipeIds' /\ Roles' /\ Waiting' /\ Composition'
      <4>1. TypeOK'
        BY <3>1 DEF FlowInv, ShellInv, TypeOK
      <4>2. ShellInv'
        BY <3>1, <4>1, KeepsTables DEF FlowInv
      <4>3. ChildInv' /\ PipeIds'
        BY <3>1 DEF FlowInv, ChildInv, PipeIds
      <4>4. Roles' /\ Waiting'
        BY <3>1 DEF FlowInv, Roles, RoleOf, Tty, Main, Waiting
      <4>5. Composition'
        BY <3>1 DEF FlowInv, Composition, Composed, Written
      <4> QED BY <4>2, <4>3, <4>4, <4>5
    <3>3. PICK flow \in Flows : PipeFlow(flow) /\ MainFlow(flow)
      BY DEF FlowInv
    <3>4. PipeFlow(flow)'
      BY <3>1, <3>3, KeepsFlow
    <3>5. MainFlow(flow)'
      <4>1. ASSUME NEW p \in Procs
            PROVE  OwesOf(flow, line, out, pc[p], fds[p], cmd[p], todo[p])' <=>
                     OwesOf(flow, line, out, pc[p], fds[p], cmd[p], todo[p])
        BY <3>1 DEF OwesOf, EndOf, Written, Composed, SupplyOf, Inflow, Output,
                    StageOutput, Contains
      <4> QED BY <3>1, <3>3, <4>1 DEF MainFlow, Main
    <3> QED BY <3>2, <3>3, <3>4, <3>5 DEF FlowInv, Flows, Pipes
  <2> QED BY <2>1, ProcFlowInv, MainFlowInv DEF Next
<1>3. FlowInv => Composition
  BY DEF FlowInv
<1> QED BY <1>1, <1>2, <1>3, PTL DEF Spec
=============================================================================
