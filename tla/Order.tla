-------------------------------- MODULE Order --------------------------------
(***************************************************************************)
(* What it means that a sequence has one item for each position of a set,  *)
(* in the order of the positions, and nothing else.                        *)
(***************************************************************************)
EXTENDS Integers, Sequences, FiniteSets

\* The number of i among the positions in S.
Rank(i, S) == Cardinality({j \in S : j <= i})

Lists(out, S, item) ==
  /\ Len(out) = Cardinality(S)
  /\ \A i \in S : out[Rank(i, S)] = item[i]
=============================================================================
