------------------------------ MODULE MCLocks ------------------------------
(* Locks for TLC.                                                          *)
EXTENDS Locks, TLC

Symmetry == Permutations(Threads) \cup Permutations(Guards)
=============================================================================
