------------------------------- MODULE MCUniq -------------------------------
(* Instances of Uniq for TLC: all files up to a length. *)
EXTENDS Uniq
=============================================================================
