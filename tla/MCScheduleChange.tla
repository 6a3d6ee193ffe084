--------------------------- MODULE MCScheduleChange ---------------------------
(* Two processes run the job over a log of a few events.                     *)
EXTENDS ScheduleChange, TLC

CONSTANTS teacher, student, w1, w2, t1, t2

Symmetry == Permutations(Parties) \cup Permutations(Workers) \cup Permutations(Tx)
=============================================================================
