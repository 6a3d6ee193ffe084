------------------------- MODULE MCSubscriptionExpiry -------------------------
(* One subscription that ends today or tomorrow.                            *)
EXTENDS SubscriptionExpiry, TLC

CONSTANTS s1, student, w1, w2, c1, c2, c3

MCEnds == 0 .. 1
Symmetry == Permutations(Workers) \cup Permutations(Conns)
=============================================================================
