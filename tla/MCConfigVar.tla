---------------------------- MODULE MCConfigVar ----------------------------
(* ConfigVar for TLC: the sets of client promises the runs use.            *)
EXTENDS ConfigVar, TLC

SomeProfiles == {AllDuties, {"one setter"}, {"one adder"}, {"no reentry"}}
ManyAdders   == {AllDuties \ {"one adder"}}

Symmetry == Permutations(Threads) \cup Permutations(Vars)
=============================================================================
