------------------------------ MODULE SyncTypes ------------------------------
(***************************************************************************)
(* What the app's offline write queue and the server's idempotency table   *)
(* have in common: the writes, who makes them and how they are identified. *)
(*                                                                         *)
(* A write is one call of MutationQueueHelper, for instance "create this   *)
(* lesson".  It is sent once directly and any number of times from the     *)
(* queue.  Its Idempotency-Key, a uuid in the code, is the pair of the     *)
(* write and a number here: 0 for the key drawn by the helper, n for the   *)
(* key IdempotencyInterceptor draws on the n-th send when the request has  *)
(* none.                                                                   *)
(***************************************************************************)
EXTENDS Integers, FiniteSets

CONSTANTS
    Writes,      \* the mutations users make
    Creates,     \* those sent as POST; the others are PUT, PATCH or DELETE
    Legacy,      \* those queued by an app version that stored no key
    Users,       \* accounts that use this device
    NoUser,      \* nobody is logged in
    Domains,     \* the queue's domains: "lesson", "student", ...
    DomainOf,    \* the domain of each write
    MaxSends     \* bound: requests the app sends for one write

ASSUME WritesAssumption ==
    /\ IsFiniteSet(Writes)
    /\ Creates \subseteq Writes
    /\ Legacy \subseteq Writes
    /\ NoUser \notin Users
    /\ DomainOf \in [Writes -> Domains]
    /\ MaxSends \in Nat \ {0}

NoKey == -1
OfflineKey == 0
Key == 0 .. MaxSends

(* The key a request carries: the stored one, or a fresh one when there is *)
(* none (IdempotencyInterceptor never overwrites a header).                *)
KeySent(stored, n) == IF stored = NoKey THEN n ELSE stored

=============================================================================
