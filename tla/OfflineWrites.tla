---------------------------- MODULE OfflineWrites ----------------------------
(***************************************************************************)
(* The app's queue and the server's middleware over an unreliable network: *)
(* what a write goes through from the tap to the database.                 *)
(*                                                                         *)
(* Every request the app sends is an attempt <<w, n>>.  The direct call    *)
(* waits for the first attempt of its write and a pass for the one it      *)
(* sent; an attempt nobody waits for any more may still be on its way to   *)
(* the server, or at work there, and take effect later.                    *)
(***************************************************************************)
EXTENDS SyncQueue, IdempotencyMiddleware

VARIABLE
    awaited    \* per pass: the number of the attempt it waits for, or 0

vars == <<queueVars, serverVars, awaited>>

Init ==
    /\ QueueInit
    /\ ServerInit
    /\ awaited = [p \in Passes |-> 0]

-----------------------------------------------------------------------------
(* Sending *)

IsNext(a) ==
    /\ att[a].stage = "new"
    /\ \A b \in Attempts : b[1] = a[1] /\ b[2] < a[2] => att[b].stage # "new"

SendDirect(w) ==
    /\ CallOnline(w)
    /\ Submit(<<w, 1>>, session, KeySent(NoKey, 1))
    /\ UNCHANGED awaited

(* The adapter sends the key the entry stores; the token is the session's  *)
(* at that moment.                                                         *)
ReplayKey(e, n) == KeySent(e.key, n)

SendReplay(p, w) ==
    \E e \in pass[p].todo, n \in 1 .. MaxSends :
        /\ e.id = w
        /\ IsNext(<<w, n>>)
        /\ FlushSend(p, w)
        /\ Submit(<<w, n>>, session, ReplayKey(e, n))
        /\ awaited' = [awaited EXCEPT ![p] = n]

-----------------------------------------------------------------------------
(* Receiving.  A timeout may come before, instead of or after the answer:  *)
(* failing needs none.                                                     *)

HasReply(a, replies) ==
    /\ att[a].stage = "answered"
    /\ att[a].reply \in replies

DirectSucceeds(w) == HasReply(<<w, 1>>, {"ok"}) /\ DirectAnswered(w, "acked")

DirectRefused(w) ==
    /\ HasReply(<<w, 1>>, {"rejected", "stale", "inflight", "unauth"})
    /\ DirectAnswered(w, "refused")

Receives(p, replies) == \E e \in pass[p].current : HasReply(<<e.id, awaited[p]>>, replies)

ReplaySucceeds(p) == ReplaySucceeded(p) /\ Receives(p, {"ok"})
ReplayStale(p) == ReplayConflict(p) /\ Receives(p, {"stale"})

ClientReceives ==
    \/ \E w \in Writes : DirectSucceeds(w) \/ DirectRefused(w) \/ DirectFailed(w)
    \/ \E p \in Passes : ReplaySucceeds(p) \/ ReplayStale(p) \/ ReplayFailed(p)

ClientOther ==
    \/ Initialize \/ Kill
    \/ \E w \in Writes : CallOffline(w)
    \/ \E p \in Passes : PassLocal(p)
    \/ UserStep

(* A pass waits for an attempt only as long as it is replaying an entry.   *)
StillAwaited ==
    awaited' = [p \in Passes |-> IF pass'[p].current = {} THEN 0 ELSE awaited[p]]

ClientStep ==
    /\ ClientReceives \/ ClientOther
    /\ StillAwaited
    /\ UNCHANGED serverVars

Next ==
    \/ \E w \in Writes : SendDirect(w)
    \/ \E p \in Passes, w \in Writes : SendReplay(p, w)
    \/ ClientStep
    \/ ServerNext /\ UNCHANGED <<queueVars, awaited>>

Spec == Init /\ [][Next]_vars

-----------------------------------------------------------------------------
(* Properties *)

TypeOK ==
    /\ QueueTypeOK
    /\ ServerTypeOK
    /\ awaited \in [Passes -> 0 .. MaxSends]

Promised == Creates \ Legacy

(* INV-2: a create the app gave a key takes effect at most once for the    *)
(* user, across the direct call, replays, kills, restarts and crashes.     *)
NoDuplicateCreate ==
    \A a, b \in Attempts :
        /\ a[1] = b[1] /\ a[1] \in Promised
        /\ att[a].user = att[b].user
        /\ Applied(a) /\ Applied(b)
        => a = b

(* The entries in the queue and those in the hands of a pass.              *)
Held(p) == pass[p].todo \cup pass[p].current
Queued == box \cup UNION {Held(p) : p \in Passes}

(* A write the user was told is refused has not taken effect and never     *)
(* will: nothing of it is left in the queue or at the server.              *)
RefusedIsFinal ==
    \A w \in Writes : call[w] = "refused" =>
        /\ w \notin Ids(Queued)
        /\ \A a \in Attempts : a[1] = w => att[a].tx = "none" /\ att[a].stage \in {"new", "answered"}

(* The queue and the middleware together implement CreateOnce.             *)
Abstract == INSTANCE CreateOnce WITH
    Accounts <- Users,
    Requests <- Attempts,
    asked <- {w \in Promised : call[w] # "new"},
    refused <- {w \in Promised : call[w] = "refused"},
    effect <- [p \in Promised \X Users |->
                  {a \in Attempts : a[1] = p[1] /\ att[a].user = p[2] /\ Applied(a)}]

CreatesHappenOnce == Abstract!Spec

=============================================================================
