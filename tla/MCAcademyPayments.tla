-------------------------- MODULE MCAcademyPayments --------------------------
(* Two transactions and two invoices: one sum that can be split, and one    *)
(* invoice that two sums can fill.                                          *)
EXTENDS AcademyPayments, TLC

CONSTANTS b1, b2, i1, i2, t1, t2

TwoAndOne == b1 :> 2 @@ b2 :> 1
Totals == i1 :> 2 @@ i2 :> 1
Scores == b1 :> {i1, i2} @@ b2 :> {}

Symmetry == Permutations(Tx)
=============================================================================
