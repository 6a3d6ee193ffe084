------------------------------ MODULE MCCalendar ------------------------------
(* Two entries, two slots, two transactions at a time.                       *)
EXTENDS Calendar, TLC

CONSTANTS e1, e2, s1, s2, t1, t2

Symmetry == Permutations(Entries) \cup Permutations(Slots) \cup Permutations(Tx)
=============================================================================
