------------------------------- MODULE MCChat -------------------------------
(* Instances of Chat for TLC: ana writes m1, ben answers with the others. *)
EXTENDS Chat, TLC
CONSTANTS ana, ben, m1, a1

MCSender == [m \in Messages |-> IF m = m1 THEN ana ELSE ben]
MCOwner == [k \in Sockets |-> IF k = a1 THEN ana ELSE ben]
Symmetry == Permutations(Sockets \ {a1})
============================================================================
