----------------------------- MODULE MCSyncQueue -----------------------------
(* Two creates of one domain, the first left without a key by an earlier    *)
(* version of the app, and an update that version queued under a domain     *)
(* name the registry no longer knows.                                       *)
EXTENDS SyncQueue

CONSTANTS u1, p1, p2, oldCreate, oldUpdate, create, lesson, booking

MCDomainOf == [w \in Writes |-> IF w = oldUpdate THEN booking ELSE lesson]
=============================================================================
