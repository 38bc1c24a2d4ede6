----------------------------- MODULE MCReviews -----------------------------
(* Instances of Reviews for TLC: olga has lent one book to ben, one to cem. *)
EXTENDS Reviews, TLC
CONSTANTS olga, ben, cem

MCLender == [l \in Loans |-> olga]
MCBorrower == [l \in Loans |-> IF l = 1 THEN ben ELSE cem]
Symmetry == Permutations(Slots)
============================================================================
