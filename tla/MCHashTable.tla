----------------------------- MODULE MCHashTable -----------------------------
(* Instances of HashTable for TLC: keys that collide in a bucket, and equal *)
(* keys, occur in the initial states.                                       *)
EXTENDS HashTable
=============================================================================
