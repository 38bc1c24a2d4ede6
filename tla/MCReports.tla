----------------------------- MODULE MCReports -----------------------------
(* Instances of Reports for TLC: reporters and slots are interchangeable.  *)
EXTENDS Reports, TLC
Symmetry == Permutations(Reporters) \cup Permutations(Slots)
============================================================================
