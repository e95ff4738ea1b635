------------------------------ MODULE ProcTree ------------------------------
(***************************************************************************)
(* What fork(), exit() and wait() of proc.c promise to user programs,      *)
(* without CPUs, locks, memory or a scheduler: a tree of processes in a    *)
(* table of slots.  A process appears in one step, complete and as a child *)
(* of its creator; when it exits its children go to init in the same step; *)
(* and it disappears only when its parent collects it.                     *)
(***************************************************************************)
CONSTANTS
  Slots,    \* the slots of the table
  Root,     \* the slot of init
  Null      \* the parent of nobody, not a slot

VARIABLES
  status,   \* free, alive or zombie, for each slot
  par       \* the parent of each process

treeVars == <<status, par>>

TreeInit ==
  /\ status = [s \in Slots |-> IF s = Root THEN "alive" ELSE "free"]
  /\ par = [s \in Slots |-> Null]

\* p forks a child into slot q.
Spawn(p, q) ==
  /\ status[p] = "alive" /\ status[q] = "free"
  /\ status' = [status EXCEPT ![q] = "alive"]
  /\ par' = [par EXCEPT ![q] = p]

\* p exits: its children, zombies included, become init's.
Die(p) ==
  /\ p # Root /\ status[p] = "alive"
  /\ status' = [status EXCEPT ![p] = "zombie"]
  /\ par' = [q \in Slots |-> IF par[q] = p THEN Root ELSE par[q]]

\* p collects its zombie child q.
Collect(p, q) ==
  /\ status[p] = "alive" /\ status[q] = "zombie" /\ par[q] = p
  /\ status' = [status EXCEPT ![q] = "free"]
  /\ par' = [par EXCEPT ![q] = Null]

TreeNext ==
  \/ \E p, q \in Slots : Spawn(p, q) \/ Collect(p, q)
  \/ \E p \in Slots : Die(p)

TreeSpec == TreeInit /\ [][TreeNext]_treeVars
=============================================================================
