----------------------------- MODULE LotteryTest -----------------------------
(***************************************************************************)
(* lotterytest: a program that relies on fork(), exit() and wait() as      *)
(* ProcTree states them.  main() forks two children, which take tickets,   *)
(* spin and exit, and waits twice.  Either fork() may fail.                *)
(***************************************************************************)
EXTENDS ProcTree

CONSTANT Test     \* the slot in which lotterytest runs

ASSUME TestAssumption ==
  Root \in Slots /\ Test \in Slots \ {Root} /\ Null \notin Slots

VARIABLE at       \* where main() is
testVars == <<treeVars, at>>

TestInit == TreeInit /\ at = "none"

\* init's shell starts the program, as a child of init here.
Start == at = "none" /\ Spawn(Root, Test) /\ at' = "fork1"

\* The two forks: main() goes on after a success and after a failure alike.
AfterFork == at' = CASE at = "fork1" -> "fork2" [] at = "fork2" -> "wait1"
Fork(q) == at \in {"fork1", "fork2"} /\ Spawn(Test, q) /\ AfterFork
ForkFails == at \in {"fork1", "fork2"} /\ AfterFork /\ UNCHANGED treeVars

\* A child: settickets() and spin() do not change the tree.
ChildExit(q) == q # Test /\ par[q] = Test /\ Die(q) /\ UNCHANGED at

\* The two waits: wait() returns -1 at once when there is no child.
AfterWait_Once == at' = "exit"
AfterWait == at' = CASE at = "wait1" -> "wait2" [] at = "wait2" -> "exit"
Wait(q) == at \in {"wait1", "wait2"} /\ Collect(Test, q) /\ AfterWait
\* wait() returns -1 without children; nothing kills the program, the other
\* reason for which it would.
NoChildren_Untested == FALSE
NoChildren == \A q \in Slots : par[q] # Test
WaitFails ==
  /\ at \in {"wait1", "wait2"} /\ NoChildren /\ AfterWait /\ UNCHANGED treeVars

Exit == at = "exit" /\ Die(Test) /\ at' = "gone"

\* init collects what comes to it, and runs the program again.
Reap(q) ==
  /\ Collect(Root, q)
  /\ at' = IF q = Test THEN "none" ELSE at

MainStep ==
  ForkFails \/ WaitFails \/ Exit \/ \E q \in Slots : Fork(q) \/ Wait(q)
TestNext == Start \/ MainStep \/ \E q \in Slots : ChildExit(q) \/ Reap(q)

\* main() and its children run whenever they can; spin() ends.
TestFairness ==
  WF_testVars(MainStep) /\ \A q \in Slots : WF_testVars(ChildExit(q))

TestSpec == TestInit /\ [][TestNext]_testVars

-----------------------------------------------------------------------------
\* Whichever fork() failed and in whatever order the children end, main()
\* leaves no child to init: it exits after both measurements are over.
NoChildLeft == at \in {"exit", "gone"} => Test \notin {par[q] : q \in Slots}

\* main() comes to its exit, so no wait() waits for a child that was not made.
TestEnds == at = "fork1" ~> at = "gone"
=============================================================================
