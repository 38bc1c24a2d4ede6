--------------------------- MODULE MCDueReminder ---------------------------
(* Instances of DueReminder for TLC: six-hour ticks, 08:00 in tick 1.      *)
EXTENDS DueReminder, TLC
Symmetry == Permutations(Loans)
============================================================================
