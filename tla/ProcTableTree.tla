---------------------------- MODULE ProcTableTree ----------------------------
(***************************************************************************)
(* The process table implements the process tree.  A slot that fork() is   *)
(* still filling in (EMBRYO) is free to the tree, whatever its parent      *)
(* field already says; where a process sleeps, waits or runs is hidden.    *)
(***************************************************************************)
EXTENDS ProcTable

TreeStatus(st) ==
  CASE st \in {"UNUSED", "EMBRYO"} -> "free"
    [] st = "ZOMBIE" -> "zombie"
    [] OTHER -> "alive"

status == [p \in Procs |-> TreeStatus(state[p])]
par    == [p \in Procs |-> IF TreeStatus(state[p]) = "free" THEN NULL
                           ELSE parent[p]]

Tree == INSTANCE ProcTree WITH Slots <- Procs, Root <- initproc, Null <- NULL

\* fork(), exit() and wait(), run on several CPUs with failing allocations,
\* preemption and the lock handed over in swtch(), look like atomic steps on a
\* tree of processes.
ImplementsTree == Tree!TreeSpec
=============================================================================
