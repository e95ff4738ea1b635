------------------------------- MODULE MCDisk -------------------------------
(* Two programs of final_project run one after the other, for TLC. *)
EXTENDS Disk
=============================================================================
