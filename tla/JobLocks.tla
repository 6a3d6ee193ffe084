------------------------------- MODULE JobLocks -------------------------------
(***************************************************************************)
(* The advisory lock that keeps the scheduled jobs of several server       *)
(* processes apart, and the pools of database connections under it.        *)
(*                                                                         *)
(* pg_try_advisory_lock belongs to a database session, that is, to one     *)
(* connection: it is re-entrant there, a commit or a rollback does not     *)
(* release it, and only that connection can.  A session of the code has no *)
(* connection of its own: it takes one from its process's pool for the     *)
(* first statement after a commit and gives it back with the next commit.  *)
(***************************************************************************)
EXTENDS Integers, FiniteSets

CONSTANTS
    Workers,      \* server processes; each runs the scheduler
    Conns,        \* bound: database connections
    PoolSize      \* idle connections a pool keeps

ASSUME LocksAssumption == PoolSize \in Nat \ {0}

VARIABLES
    pool,    \* per worker: its idle connections
    lent,    \* per worker: connections in the hands of its requests
    holds    \* per connection: how often its session holds the lock

lockVars == <<pool, lent, holds>>

LockTypeOK ==
    /\ pool \in [Workers -> SUBSET Conns]
    /\ lent \in [Workers -> SUBSET Conns]
    /\ holds \in [Conns -> Nat]

LockInit ==
    /\ pool = [w \in Workers |-> {}]
    /\ lent = [w \in Workers |-> {}]
    /\ holds = [c \in Conns |-> 0]

-----------------------------------------------------------------------------
(* The pool.  Which idle connection comes next depends on the traffic.     *)

(* A new connection is opened only when none is idle.                      *)
Available(w, open) == IF pool[w] = {} THEN Conns \ open ELSE pool[w]

Checkout(w, c) == pool' = [pool EXCEPT ![w] = @ \ {c}]

Kept(w) == Cardinality(pool[w]) < PoolSize

(* A connection too many is closed, and its session with it.               *)
Checkin(w, c) == pool' = [pool EXCEPT ![w] = IF Kept(w) THEN @ \cup {c} ELSE @]

HoldsAfterCheckin(w, c) == IF Kept(w) THEN holds ELSE [holds EXCEPT ![c] = 0]

(* Other requests of the process borrow connections and give them back.    *)
Borrow(w, c) ==
    /\ Checkout(w, c)
    /\ lent' = [lent EXCEPT ![w] = @ \cup {c}]
    /\ UNCHANGED holds

GiveBack(w, c) ==
    /\ c \in lent[w]
    /\ Checkin(w, c)
    /\ lent' = [lent EXCEPT ![w] = @ \ {c}]
    /\ holds' = HoldsAfterCheckin(w, c)

-----------------------------------------------------------------------------
(* The lock *)

(* Mutant: the answer of pg_try_advisory_lock is ignored. *)
GrantedAlways(c) == TRUE

Granted(c) == \A d \in Conns \ {c} : holds[d] = 0

Acquire(c) == holds' = [holds EXCEPT ![c] = @ + 1]

(* Unlocking on a connection that does not hold the lock is only a warning.*)
Release(c) == holds' = [holds EXCEPT ![c] = IF @ > 0 THEN @ - 1 ELSE 0]

(* The sessions of a process that died are gone, and so are their locks.   *)
ProcessDies(w, own) ==
    /\ pool' = [pool EXCEPT ![w] = {}]
    /\ lent' = [lent EXCEPT ![w] = {}]
    /\ holds' = [c \in Conns |-> IF c \in pool[w] \cup lent[w] \cup own THEN 0 ELSE holds[c]]

=============================================================================
