--------------------------- MODULE MCLessonCharges ---------------------------
(* A lesson and the one subscription of its student. *)
EXTENDS LessonCharges, TLC

CONSTANTS l1, s1, t1, t2, u1, u2

MCSubOf == [l \in Lessons |-> s1]
MCCapacity == [s \in Subs |-> 1]

(* Requests and row ids are interchangeable, and no property tells them apart. *)
Symmetry == Permutations(Tx) \cup Permutations(Usages)
=============================================================================
