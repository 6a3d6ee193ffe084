--------------------------- MODULE MCOfflineWrites ---------------------------
(* One create of one user, two passes.                                       *)
EXTENDS OfflineWrites

CONSTANTS u1, p1, p2, create, lesson

MCDomainOf == [w \in Writes |-> lesson]
=============================================================================
