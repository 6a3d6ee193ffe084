------------------------ MODULE IdempotencyMiddleware ------------------------
(***************************************************************************)
(* The server's side of a write: IdempotencyMiddleware around the handler, *)
(* with IdempotencyService's table of reserved keys.                       *)
(*                                                                         *)
(* Two database transactions serve one request.  The middleware's own      *)
(* session commits the reservation before the handler runs and the answer  *)
(* after it.  The handler's session is the get_db dependency: FastAPI      *)
(* commits it once the handler is done, after its answer has left for the  *)
(* middleware, so the two commits come in either order and a crash may     *)
(* fall between them.                                                      *)
(***************************************************************************)
EXTENDS SyncTypes

VARIABLES
    att,    \* per attempt: what became of this request
    idem    \* idempotency_keys: per user and key, the stored outcome

serverVars == <<att, idem>>

Attempts == Writes \X (1 .. MaxSends)
Rows == Users \X Writes \X Key

(* ok is any 2xx, rejected any 4xx the handler decides, stale its 412      *)
(* CONFLICT_LWW_REJECTED, error any 5xx; the middleware itself answers     *)
(* inflight (409), and a request without a valid token gets unauth (401).  *)
Decisions == {"ok", "rejected", "stale", "error"}
Reply == Decisions \cup {"none", "inflight", "unauth"}

(* new, sent: in the network; running: in the handler; decided: the        *)
(* middleware has the handler's answer; answered: on its way back.         *)
Stage == {"new", "sent", "running", "decided", "answered", "lost"}

(* The handler's transaction.                                              *)
Tx == {"none", "open", "committed", "rolledback"}

Request == [stage : Stage, user : Users \cup {NoUser}, key : Key,
            reply : Reply, tx : Tx]

NotSent == [stage |-> "new", user |-> NoUser, key |-> 0, reply |-> "none", tx |-> "none"]

(* A row of the table: no row, status_code NULL, or a stored answer.       *)
Row == {"absent", "reserved"} \cup (Decisions \ {"error"})

ServerInit ==
    /\ att = [a \in Attempts |-> NotSent]
    /\ idem = [r \in Rows |-> "absent"]

RowOf(a) == <<att[a].user, a[1], att[a].key>>

(* The middleware dedupes a POST that names a user and a key.              *)
Deduped(a) == a[1] \in Creates /\ att[a].user # NoUser

-----------------------------------------------------------------------------

Becomes(a, q) == att' = [att EXCEPT ![a] = q]

Submit(a, user, key) ==
    /\ att[a].stage = "new"
    /\ Becomes(a, [att[a] EXCEPT !.stage = "sent", !.user = user, !.key = key])
    /\ UNCHANGED idem

LoseRequest(a) ==
    /\ att[a].stage = "sent"
    /\ Becomes(a, [att[a] EXCEPT !.stage = "lost"])
    /\ UNCHANGED idem

Answer(a, reply) ==
    Becomes(a, [att[a] EXCEPT !.stage = "answered", !.reply = reply])

(* Not deduped: the handler runs at once; without a user it refuses.       *)
PassThrough(a) ==
    /\ att[a].stage = "sent"
    /\ ~Deduped(a)
    /\ \/ att[a].user = NoUser /\ Answer(a, "unauth")
       \/ att[a].user # NoUser /\ Becomes(a, [att[a] EXCEPT !.stage = "running"])
    /\ UNCHANGED idem

(* Mutant: the row is written whether or not the key is taken. *)
ReserveUnchecked(a) ==
    /\ att[a].stage = "sent"
    /\ Deduped(a)
    /\ idem' = [idem EXCEPT ![RowOf(a)] = "reserved"]
    /\ Becomes(a, [att[a] EXCEPT !.stage = "running"])

(* reserve_or_replay: the INSERT decides who runs the handler.             *)
Reserve(a) ==
    /\ att[a].stage = "sent"
    /\ Deduped(a)
    /\ idem[RowOf(a)] = "absent"
    /\ idem' = [idem EXCEPT ![RowOf(a)] = "reserved"]
    /\ Becomes(a, [att[a] EXCEPT !.stage = "running"])

(* Also the answer when the row a duplicate collided with is gone by the   *)
(* time it is read: as if it had been read just before.                    *)
AnswerInFlight(a) ==
    /\ att[a].stage = "sent"
    /\ Deduped(a)
    /\ idem[RowOf(a)] = "reserved"
    /\ Answer(a, "inflight")
    /\ UNCHANGED idem

(* Mutant: a reserved row is replayed as if it held an answer. *)
ReplayReserved(a) ==
    /\ att[a].stage = "sent"
    /\ Deduped(a)
    /\ idem[RowOf(a)] # "absent"
    /\ Answer(a, idem[RowOf(a)])
    /\ UNCHANGED idem

Replay(a) ==
    /\ att[a].stage = "sent"
    /\ Deduped(a)
    /\ idem[RowOf(a)] \notin {"absent", "reserved"}
    /\ Answer(a, idem[RowOf(a)])
    /\ UNCHANGED idem

(* The handler decides; what it wrote stays in its open transaction.       *)
Handle(a, decision) ==
    /\ att[a].stage = "running"
    /\ decision = "stale" => a[1] \notin Creates
    /\ Becomes(a, [att[a] EXCEPT !.stage = IF Deduped(a) THEN "decided" ELSE "answered",
                                 !.reply = decision,
                                 !.tx = IF decision = "ok" THEN "open" ELSE "none"])
    /\ UNCHANGED idem

(* Mutant: only a success is stored; a 4xx releases the key like a 5xx. *)
SettledOnSuccess(row, reply) == IF row # "absent" /\ reply = "ok" THEN "ok" ELSE "absent"

(* A 2xx or 4xx is stored for replay, a 5xx releases the key.              *)
Settled(row, reply) ==
    IF row = "absent" THEN "absent"
    ELSE IF reply = "error" THEN "absent" ELSE reply

Settle(a) ==
    /\ att[a].stage = "decided"
    /\ idem' = [idem EXCEPT ![RowOf(a)] = Settled(@, att[a].reply)]
    /\ Becomes(a, [att[a] EXCEPT !.stage = "answered"])

(* The store or release itself fails: the answer becomes a 500 and the row *)
(* stays as it was.                                                        *)
SettleFails(a) ==
    /\ att[a].stage = "decided"
    /\ Answer(a, "error")
    /\ UNCHANGED idem

(* get_db: commit, or roll back when the commit fails.                     *)
Commit(a) ==
    /\ att[a].tx = "open"
    /\ Becomes(a, [att[a] EXCEPT !.tx = "committed"])
    /\ UNCHANGED idem

CommitFails(a) ==
    /\ att[a].tx = "open"
    /\ Becomes(a, [att[a] EXCEPT !.tx = "rolledback"])
    /\ UNCHANGED idem

(* The process dies and is restarted: what it was working on is gone, what *)
(* was committed stays.                                                    *)
Crashed(q) ==
    [q EXCEPT !.stage = IF @ \in {"running", "decided"} THEN "lost" ELSE @,
              !.tx = IF @ = "open" THEN "rolledback" ELSE @]

Crash ==
    /\ \E a \in Attempts : att[a].stage \in {"running", "decided"} \/ att[a].tx = "open"
    /\ att' = [a \in Attempts |-> Crashed(att[a])]
    /\ UNCHANGED idem

ServerStep(a) ==
    \/ PassThrough(a) \/ Reserve(a) \/ AnswerInFlight(a) \/ Replay(a)
    \/ \E d \in Decisions : Handle(a, d)
    \/ Settle(a) \/ SettleFails(a)
    \/ Commit(a) \/ CommitFails(a)
    \/ LoseRequest(a)

ServerNext == Crash \/ \E a \in Attempts : ServerStep(a)

-----------------------------------------------------------------------------
(* Properties *)

ServerTypeOK ==
    /\ att \in [Attempts -> Request]
    /\ idem \in [Rows -> Row]

Applied(a) == att[a].tx = "committed"
SameKey(a, b) == Deduped(a) /\ Deduped(b) /\ RowOf(a) = RowOf(b)

(* Of all the POSTs that carry one user's key, one at most takes effect.   *)
OncePerKey ==
    \A a, b \in Attempts : SameKey(a, b) /\ Applied(a) /\ Applied(b) => a = b

(* Every answer that is final for the client is the same for one key: no   *)
(* replay is told "rejected" of a write another was told is saved.         *)
Final == {"ok", "rejected"}
OneAnswerPerKey ==
    \A a, b \in Attempts :
        /\ SameKey(a, b)
        /\ att[a].stage = "answered" /\ att[a].reply \in Final
        /\ att[b].stage = "answered" /\ att[b].reply \in Final
        => att[a].reply = att[b].reply

=============================================================================
