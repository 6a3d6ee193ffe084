---------------------------- MODULE MCGroupClasses ----------------------------
(* One seat and one place in the line.                                       *)
EXTENDS GroupClasses, TLC

CONSTANTS s1, s2, t1, t2

OneSession == [s \in Students |-> 1]

Symmetry == Permutations(Students) \cup Permutations(Tx)
=============================================================================
