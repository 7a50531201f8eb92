------------------------------ MODULE MCResPool ------------------------------
(* ResPool for TLC: the instances of the .cfg files, and the symmetry that    *)
(* the runs without liveness may use.                                         *)
EXTENDS ResPoolInv, TLC

AllOutcomes == Outcomes
OnlySane    == {"sane"}
SaneOrGone  == {"sane", "gone"}

Symmetry == Permutations(Resources) \cup Permutations(Requests) \cup Permutations(PrivRequests)
=============================================================================
