------------------------------ MODULE CreateOnce ------------------------------
(***************************************************************************)
(* What the offline write path promises for a create that carries a key,   *)
(* with no queue, network, retry or table: nothing happens before the user *)
(* asks, the create takes effect at most once per account, and a create    *)
(* the user was told is refused never takes effect afterwards.             *)
(*                                                                         *)
(* It may still take effect long after the app stopped waiting for it.     *)
(***************************************************************************)
CONSTANTS
    Promised,    \* the creates
    Accounts,
    Requests     \* what may carry out a create

VARIABLES
    asked,       \* creates some user asked for
    refused,     \* those a user was told are refused
    effect       \* per create and account: the requests that carried it out

Init ==
    /\ asked = {}
    /\ refused = {}
    /\ effect = [p \in Promised \X Accounts |-> {}]

Ask(c) ==
    /\ c \notin asked
    /\ asked' = asked \cup {c}
    /\ UNCHANGED <<refused, effect>>

Refuse(c) ==
    /\ c \in asked \ refused
    /\ \A u \in Accounts : effect[<<c, u>>] = {}
    /\ refused' = refused \cup {c}
    /\ UNCHANGED <<asked, effect>>

TakeEffect(c, u, r) ==
    /\ c \in asked \ refused
    /\ effect[<<c, u>>] = {}
    /\ effect' = [effect EXCEPT ![<<c, u>>] = {r}]
    /\ UNCHANGED <<asked, refused>>

Next ==
    \E c \in Promised :
        \/ Ask(c)
        \/ Refuse(c)
        \/ \E u \in Accounts, r \in Requests : TakeEffect(c, u, r)

Spec == Init /\ [][Next]_<<asked, refused, effect>>

=============================================================================
