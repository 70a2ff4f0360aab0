------------------------------ MODULE MCFiber ------------------------------
(* Fiber for TLC: the sets of client promises the runs use.                *)
EXTENDS Fiber, TLC

Disciplined == AllDuties
SerialOnly  == {"serial"}

Symmetry == Permutations(Threads) \cup Permutations(Fibers)
=============================================================================
