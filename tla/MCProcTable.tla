----------------------------- MODULE MCProcTable -----------------------------
(* Instances of ProcTable for TLC. *)
EXTENDS ProcTableTree, TLC

CpuSymmetry == Permutations(CPUS)

\* None, some and a negative number of tickets; numbers that find a slot and
\* that find none when the sum is negative.
MCTickets == {-1, 0, 2}
MCStray   == {-1, 1}
=============================================================================
