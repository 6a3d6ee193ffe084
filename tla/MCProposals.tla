----------------------------- MODULE MCProposals -----------------------------
(* A proposal that answers a lesson request, and a renewal.                  *)
EXTENDS Proposals, TLC

CONSTANTS first, renewal, l1, t1, t2

Symmetry == Permutations(Tx)
=============================================================================
