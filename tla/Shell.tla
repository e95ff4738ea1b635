-------------------------------- MODULE Shell --------------------------------
(***************************************************************************)
(* The shell of hw2 at run time: main(), runcmd(), the processes they fork *)
(* and the descriptors these share.  A command line is what parsecmd()     *)
(* returns: a right-nested chain of pipes is the sequence of its stages,   *)
(* and a stage is an execcmd under the redirections that runcmd() meets    *)
(* from the outermost to the innermost.  The empty sequence stands for a   *)
(* line on which the parser calls exit().                                  *)
(*                                                                         *)
(* The programs of the stages, the pipes and the process table are not the *)
(* shell's: they are modelled as far as they let a mistake in closing a    *)
(* descriptor be seen.  A program writes a number of items (source), or    *)
(* copies its input to its output up to the end (filter) or only its first *)
(* item (head); there may also be no program to run (none).                *)
(***************************************************************************)
EXTENDS Integers, Sequences, SequencesExt, FiniteSetsExt

CONSTANTS
  Lines,      \* the command lines that can be typed
  NLINES,     \* bound: how many are typed before end of file
  NPROCS,     \* the processes there is room for besides the shell
  CAPACITY,   \* the items a pipe holds
  ITEMS,      \* the items a source writes
  ForkFails,  \* whether fork() can fail although there is room
  OpenFails   \* whether open() can fail

Procs == 1..NPROCS
Main  == 0             \* the shell itself, as a parent
InitP == -1            \* init, which adopts orphans and reaps them at once
FD    == 0..5          \* bound: stdin, stdout, stderr and room for a pipe
NOFILE == 6            \* no descriptor: there are no more than these
Pipes == 1..(2 * NPROCS)
Programs == {"source", "filter", "head", "none"}
Stages   == [prog : Programs, redirs : Seq({0, 1})]

ASSUME ShellAssumption ==
  /\ NLINES \in Nat /\ NPROCS \in Nat \ {0}
  /\ CAPACITY \in Nat \ {0} /\ ITEMS \in Nat
  /\ ForkFails \in BOOLEAN /\ OpenFails \in BOOLEAN
  /\ Lines \subseteq Seq(Stages)

VARIABLES
  main_pc, typed, line,        \* the shell: control point, lines read, last one
  pc, cmd, parent, pfd,        \* processes: control point, command, parent, p[]
  fds,                         \* their open descriptors
  todo,                        \* the items a program is about to write
  buffer,                      \* the number of items in each pipe
  out,                         \* the items the line has written to the terminal
  perm,                        \* the permissions of the file redirections name
  failed                       \* history: whose fork() or open() failed

shellVars == <<main_pc, typed, line>>
vars == <<shellVars, pc, cmd, parent, pfd, fds, todo, buffer, out, perm,
          failed>>

Points == {"free", "runcmd", "fork", "left", "right", "program", "zombie"}

\* What a descriptor refers to: a file is marked with the descriptor that its
\* redirection is for.
Ends    == [end : {"closed", "tty", "file", "r", "w"}, id : FD \cup Pipes]
Closed  == [end |-> "closed", id |-> 0]
Tty     == [end |-> "tty", id |-> 0]
File(d) == [end |-> "file", id |-> d]
NoFile  == -1
TtyFds  == [d \in FD |-> IF d <= 2 THEN Tty ELSE Closed]

Init ==
  /\ main_pc = "prompt" /\ typed = 0 /\ line = <<>>
  /\ pc = [p \in Procs |-> "free"]
  /\ cmd = [p \in Procs |-> <<>>]
  /\ parent = [p \in Procs |-> InitP]
  /\ pfd = [p \in Procs |-> <<0, 0>>]
  /\ fds = [p \in Procs |-> [d \in FD |-> Closed]]
  /\ todo = [p \in Procs |-> 0]
  /\ buffer = [k \in Pipes |-> 0]
  /\ out = 0 /\ perm = NoFile
  /\ failed = {}

-----------------------------------------------------------------------------
(***************************************************************************)
(* System calls on a descriptor table f.                                   *)
(***************************************************************************)
LowestFree(f) == Min({d \in FD : f[d] = Closed} \cup {NOFILE})
Close(f, d)   == [f EXCEPT ![d] = Closed]
Open(f, e)    == [f EXCEPT ![LowestFree(f)] = e]
Dup(f, d)     == Open(f, f[d])

Holds(p, e)  == \E d \in FD : fds[p][d] = e
ReadEnd(k)   == [end |-> "r", id |-> k]
WriteEnd(k)  == [end |-> "w", id |-> k]
HasReader(k) == \E p \in Procs : Holds(p, ReadEnd(k))
HasWriter(k) == \E p \in Procs : Holds(p, WriteEnd(k))

\* fork() fails when there is no room, or for the sake of other users.
NoRoom == ForkFails \/ \A q \in Procs : pc[q] # "free"

\* Otherwise it makes the child q, with the descriptors f and the command c.
FreeProc(q) == pc[q] = "free" /\ \A r \in 1..(q - 1) : pc[r] # "free"

Child(q, f, by, c) ==
  /\ FreeProc(q)
  /\ fds' = [fds EXCEPT ![q] = f]
  /\ parent' = [parent EXCEPT ![q] = by]
  /\ cmd' = [cmd EXCEPT ![q] = c]

\* exit(), or the end of a program: descriptors are closed, children go to
\* init, which reaps the dead ones, and the process waits to be reaped.
Exit(p) ==
  /\ fds' = [fds EXCEPT ![p] = [d \in FD |-> Closed]]
  /\ pc' = [q \in Procs |->
              IF parent[q] = p /\ pc[q] = "zombie" THEN "free"
              ELSE IF q # p THEN pc[q]
              ELSE IF parent[p] = InitP THEN "free" ELSE "zombie"]
  /\ parent' = [q \in Procs |-> IF parent[q] = p THEN InitP ELSE parent[q]]
  /\ todo' = [todo EXCEPT ![p] = 0]
  /\ cmd' = [cmd EXCEPT ![p] = <<>>]
  /\ UNCHANGED <<shellVars, pfd, buffer, out, failed, perm>>

-----------------------------------------------------------------------------
(***************************************************************************)
(* main().                                                                 *)
(***************************************************************************)

\* getcmd() returns line l and fork1() a child that will run it.
GetCmd(l, q) ==
  /\ main_pc = "prompt" /\ typed < NLINES
  /\ Child(q, TtyFds, Main, l)
  /\ pc' = [pc EXCEPT ![q] = "runcmd"]
  /\ main_pc' = "wait" /\ typed' = typed + 1 /\ line' = l
  /\ out' = 0 /\ failed' = {}
  /\ UNCHANGED <<pfd, todo, buffer, perm>>

\* fork1() fails: main() calls wait() all the same.
GetCmdNoFork(l) ==
  /\ main_pc = "prompt" /\ typed < NLINES /\ NoRoom
  /\ main_pc' = "wait" /\ typed' = typed + 1 /\ line' = l
  /\ out' = 0 /\ failed' = {Main}
  /\ UNCHANGED <<pc, cmd, parent, pfd, fds, todo, buffer, perm>>

\* wait() returns a child that has exited...
MainReap(p) ==
  /\ main_pc = "wait"
  /\ parent[p] = Main /\ pc[p] = "zombie"
  /\ pc' = [pc EXCEPT ![p] = "free"]
  /\ parent' = [parent EXCEPT ![p] = InitP]
  /\ main_pc' = "prompt"
  /\ UNCHANGED <<typed, line, cmd, pfd, fds, todo, buffer, out, failed, perm>>

\* ... or -1 at once when there is no child.
NoChild_Always == TRUE
NoChild == \A p \in Procs : parent[p] # Main
MainNoChild ==
  /\ main_pc = "wait" /\ NoChild
  /\ main_pc' = "prompt"
  /\ UNCHANGED <<typed, line, pc, cmd, parent, pfd, fds, todo, buffer, out,
                 failed, perm>>

\* getcmd() meets end of file: exit(0).
MainExit ==
  /\ main_pc = "prompt"
  /\ main_pc' = "done"
  /\ UNCHANGED <<typed, line, pc, cmd, parent, pfd, fds, todo, buffer, out,
                 failed, perm>>

-----------------------------------------------------------------------------
(***************************************************************************)
(* runcmd().                                                               *)
(***************************************************************************)
RunExit(p) ==
  /\ pc[p] = "runcmd"
  /\ \/ cmd[p] = <<>>
     \/ Len(cmd[p]) = 1 /\ cmd[p][1].redirs = <<>> /\ cmd[p][1].prog = "none"
  /\ Exit(p)

RunExec(p) ==
  /\ pc[p] = "runcmd" /\ Len(cmd[p]) = 1
  /\ cmd[p][1].redirs = <<>> /\ cmd[p][1].prog # "none"
  /\ pc' = [pc EXCEPT ![p] = "program"]
  /\ todo' = [todo EXCEPT ![p] = IF cmd[p][1].prog = "source" THEN ITEMS ELSE 0]
  /\ UNCHANGED <<shellVars, cmd, parent, pfd, fds, buffer, out, failed, perm>>

\* The third argument of open(), in decimal as in the code, and what a file
\* with permissions m allows its owner.
CreateMode == 777
OwnerBits(m) == (m \div 64) % 8
CanRead(m)  == OwnerBits(m) >= 4
CanWrite(m) == OwnerBits(m) % 4 >= 2

\* open() for descriptor d creates the file or is allowed by its permissions.
Allowed(d) == perm = NoFile \/ (IF d = 0 THEN CanRead(perm) ELSE CanWrite(perm))

\* A redirection: close its descriptor d, then open() the file, which takes
\* the lowest free descriptor, and go on whether or not that worked.
RunRedir(p, ok) ==
  /\ pc[p] = "runcmd" /\ Len(cmd[p]) = 1 /\ cmd[p][1].redirs # <<>>
  /\ LET d == cmd[p][1].redirs[1]
         f == Close(fds[p], d)
     IN /\ IF ok THEN Allowed(d) ELSE OpenFails \/ ~Allowed(d)
        /\ fds' = [fds EXCEPT ![p] = IF ok THEN Open(f, File(d)) ELSE f]
  /\ perm' = IF ok /\ perm = NoFile THEN CreateMode ELSE perm
  /\ failed' = IF ok THEN failed ELSE failed \cup {p}
  /\ cmd' = [cmd EXCEPT ![p][1].redirs = Tail(@)]
  /\ UNCHANGED <<shellVars, pc, parent, pfd, todo, buffer, out>>

\* A pipe: pipe(p) puts its ends into the two lowest free descriptors...
RunPipe(p, k) ==
  /\ pc[p] = "runcmd" /\ Len(cmd[p]) > 1
  /\ ~HasReader(k) /\ ~HasWriter(k)
  /\ \A j \in 1..(k - 1) : HasReader(j) \/ HasWriter(j)
  /\ LET f == Open(fds[p], ReadEnd(k))
     IN /\ fds' = [fds EXCEPT ![p] = Open(f, WriteEnd(k))]
        /\ pfd' = [pfd EXCEPT ![p] = <<LowestFree(fds[p]), LowestFree(f)>>]
  /\ buffer' = [buffer EXCEPT ![k] = 0]
  /\ pc' = [pc EXCEPT ![p] = "fork"]
  /\ UNCHANGED <<shellVars, cmd, parent, todo, out, failed, perm>>

\* ... and fork1() makes a child for the left side.
RunFork(p, q) ==
  /\ pc[p] = "fork"
  /\ Child(q, fds[p], p, <<cmd[p][1]>>)
  /\ pfd' = [pfd EXCEPT ![q] = pfd[p]]
  /\ pc' = [pc EXCEPT ![p] = "right", ![q] = "left"]
  /\ UNCHANGED <<shellVars, todo, buffer, out, failed, perm>>

\* fork1() fails: the caller runs the right side without a left one.
RunNoFork(p) ==
  /\ pc[p] = "fork" /\ NoRoom
  /\ pc' = [pc EXCEPT ![p] = "right"]
  /\ failed' = failed \cup {p}
  /\ UNCHANGED <<shellVars, cmd, parent, pfd, fds, todo, buffer, out, perm>>

\* The child's calls of close() and dup(), with its pipe at r and w.
LeftFds_KeepsRead(f, r, w)  == Close(Dup(Close(f, 1), w), w)
LeftFds_CloseFirst(f, r, w) == Close(Dup(Close(Close(f, w), 1), w), r)
LeftFds(f, r, w)  == Close(Close(Dup(Close(f, 1), w), r), w)

\* The parent's calls.
RightFds_KeepsBoth(f, r, w)  == Dup(Close(f, 0), r)
RightFds_KeepsWrite(f, r, w) == Close(Dup(Close(f, 0), r), r)
RightFds(f, r, w) == Close(Close(Dup(Close(f, 0), r), w), r)

RunLeft(p) ==
  /\ pc[p] = "left"
  /\ fds' = [fds EXCEPT ![p] = LeftFds(@, pfd[p][1], pfd[p][2])]
  /\ pc' = [pc EXCEPT ![p] = "runcmd"]
  /\ UNCHANGED <<shellVars, cmd, parent, pfd, todo, buffer, out, failed, perm>>

RunRight(p) ==
  /\ pc[p] = "right"
  /\ fds' = [fds EXCEPT ![p] = RightFds(@, pfd[p][1], pfd[p][2])]
  /\ cmd' = [cmd EXCEPT ![p] = Tail(@)]
  /\ pc' = [pc EXCEPT ![p] = "runcmd"]
  /\ UNCHANGED <<shellVars, parent, pfd, todo, buffer, out, failed, perm>>

-----------------------------------------------------------------------------
(***************************************************************************)
(* The programs (not the shell's code).                                    *)
(***************************************************************************)
Stdin(p)  == fds[p][0]
Stdout(p) == fds[p][1]
Reads(p)  == /\ pc[p] = "program" /\ todo[p] = 0
             /\ cmd[p][1].prog \in {"filter", "head"}

\* read() returns an item, to be written next; head needs no other.
ProgRead(p) ==
  /\ Reads(p) /\ Stdin(p).end = "r" /\ buffer[Stdin(p).id] > 0
  /\ buffer' = [buffer EXCEPT ![Stdin(p).id] = @ - 1]
  /\ todo' = [todo EXCEPT ![p] = 1]
  /\ cmd' = [cmd EXCEPT ![p][1].prog = IF @ = "head" THEN "source" ELSE @]
  /\ UNCHANGED <<shellVars, pc, parent, pfd, fds, out, failed, perm>>

\* read() returns end of file (a terminal and a file have nothing to read), or
\* a program that reads nothing has written everything: it exits.
ProgExit(p) ==
  /\ \/ Reads(p) /\ Stdin(p).end # "r"
     \/ /\ Reads(p) /\ Stdin(p).end = "r"
        /\ buffer[Stdin(p).id] = 0 /\ ~HasWriter(Stdin(p).id)
     \/ pc[p] = "program" /\ todo[p] = 0 /\ cmd[p][1].prog = "source"
  /\ Exit(p)

HasRoom(k) == buffer[k] < CAPACITY

\* write() to a pipe that has room, to the terminal, a file or nowhere.
ProgWrite(p) ==
  /\ pc[p] = "program" /\ todo[p] > 0
  /\ IF Stdout(p).end = "w"
     THEN /\ HasReader(Stdout(p).id) /\ HasRoom(Stdout(p).id)
          /\ buffer' = [buffer EXCEPT ![Stdout(p).id] = @ + 1]
     ELSE UNCHANGED buffer
  /\ todo' = [todo EXCEPT ![p] = @ - 1]
  /\ out' = IF Stdout(p).end = "tty" THEN out + 1 ELSE out
  /\ UNCHANGED <<shellVars, pc, cmd, parent, pfd, fds, failed, perm>>

\* write() to a pipe that nobody can read any more: SIGPIPE.
ProgKilled(p) ==
  /\ pc[p] = "program" /\ todo[p] > 0
  /\ Stdout(p).end = "w" /\ ~HasReader(Stdout(p).id)
  /\ Exit(p)

-----------------------------------------------------------------------------
ProcStep(p) ==
  \/ RunExit(p) \/ RunExec(p) \/ RunNoFork(p) \/ RunLeft(p) \/ RunRight(p)
  \/ \E ok \in BOOLEAN : RunRedir(p, ok)
  \/ \E k \in Pipes : RunPipe(p, k)
  \/ \E q \in Procs : RunFork(p, q)
  \/ ProgRead(p) \/ ProgExit(p) \/ ProgWrite(p) \/ ProgKilled(p)

MainWait == MainNoChild \/ \E p \in Procs : MainReap(p)

MainStep ==
  \/ \E l \in Lines : GetCmdNoFork(l) \/ \E q \in Procs : GetCmd(l, q)
  \/ MainWait \/ MainExit

\* The shell has exited and its last programs too.
Ended == main_pc = "done" /\ pc = [p \in Procs |-> "free"] /\ UNCHANGED vars

Next == MainStep \/ (\E p \in Procs : ProcStep(p)) \/ Ended

Spec == Init /\ [][Next]_vars

\* The operating system schedules the shell and every process; nobody has to
\* type a line.
FairSpec ==
  Spec /\ WF_vars(MainWait) /\ \A p \in Procs : WF_vars(ProcStep(p))

-----------------------------------------------------------------------------
(***************************************************************************)
(* Properties.                                                             *)
(***************************************************************************)

\* Every variable has its type.  In particular p[] always holds two descriptors:
\* runcmd() ignores the result of pipe(), and closes what it opens early enough
\* that a line of any length never runs out of them.
TypeOK ==
  /\ main_pc \in {"prompt", "wait", "done"} /\ typed \in 0..NLINES
  /\ line \in Lines \cup {<<>>}
  /\ pc \in [Procs -> Points]
  /\ parent \in [Procs -> Procs \cup {Main, InitP}]
  /\ pfd \in [Procs -> FD \X FD]
  /\ fds \in [Procs -> [FD -> Ends]]
  /\ todo \in [Procs -> Nat]
  /\ buffer \in [Pipes -> 0..CAPACITY]
  /\ out \in Nat /\ perm \in Int
  /\ failed \subseteq Procs \cup {Main}

\* No program that runcmd() starts is given a stray end of a pipe, which would
\* keep end of file or SIGPIPE from its neighbours: it has a read end only as
\* its stdin and a write end only as its stdout, and no other program has the
\* same one.
EndsPrivate ==
  \A p \in Procs : pc[p] = "program" =>
    \A d \in FD :
      /\ fds[p][d].end = "r" => d = 0
      /\ fds[p][d].end = "w" => d = 1
      /\ fds[p][d].end \in {"r", "w"} =>
           \A q \in Procs \ {p} : pc[q] = "program" => ~Holds(q, fds[p][d])

\* main() forks once and waits once: when it prompts, the child of the last
\* line is gone, whatever failed, so wait() never returns an older child.
NoStrayChild ==
  main_pc = "prompt" => \A p \in Procs : parent[p] # Main

\* What a program writes when n items come in, and what a stage leaves for the
\* stdout it was given: its redirections take the place of that or of stdin.
Output(prog, n) ==
  CASE prog = "source" -> ITEMS
    [] prog = "filter" -> n
    [] prog = "head" -> IF n > 0 THEN 1 ELSE 0
    [] prog = "none" -> 0
StageOutput(s, n) ==
  IF Contains(s.redirs, 1) THEN 0
  ELSE Output(s.prog, IF Contains(s.redirs, 0) THEN 0 ELSE n)

\* What the line should write to the terminal: the composition of its stages.
Written(l) ==
  LET written[k \in 0..Len(l)] ==
        IF k = 0 THEN 0 ELSE StageOutput(l[k], written[k - 1])
  IN written
Composed(l) == Written(l)[Len(l)]

\* However the stages are scheduled, and although main() waits for the last
\* one only, all of the output is there when main() prompts again, unless a
\* fork() or an open() failed.
Composition ==
  main_pc = "prompt" /\ failed = {} => out = Composed(line)

\* Every line ends: main() comes back to its prompt.
PromptReturns == (main_pc = "wait") ~> (main_pc # "wait")

\* Every program ends, also on the left of one that stops reading: none
\* waits for ever on a pipe.
ProgramsEnd == \A p \in Procs : (pc[p] = "program") ~> (pc[p] # "program")

\* runcmd() runs the command "with the correct file descriptors open": a file
\* is at the descriptor that its redirection names.
RedirectionHits ==
  \A p \in Procs, d \in FD :
    pc[p] = "program" /\ fds[p][d].end = "file" => fds[p][d].id = d
=============================================================================
