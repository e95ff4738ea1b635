-------------------------- MODULE MCHashTableLocked --------------------------
(* The two programs with locks in one instance for TLC: Locking is "mutex", *)
(* and the initial state chooses between that program and the other one.    *)
EXTENDS HashTable

VARIABLE program

Spin == INSTANCE HashTable WITH Locking <- "spin"

LockedInit == Init /\ program \in {"mutex", "spin"}

LockedNext ==
  /\ \/ program = "mutex" /\ Next
     \/ program = "spin" /\ Spin!Next
  /\ UNCHANGED program

LockedMain ==
  /\ ~exited /\ UNCHANGED program
  /\ MainStep

LockedThread(t) ==
  /\ ~exited /\ UNCHANGED program
  /\ \/ program = "mutex" /\ ThreadStep(t)
     \/ program = "spin" /\ Spin!ThreadStep(t)

LockedSpec ==
  /\ LockedInit /\ [][LockedNext]_<<vars, program>>
  /\ WF_vars(LockedMain) /\ \A t \in Threads : WF_vars(LockedThread(t))
=============================================================================
