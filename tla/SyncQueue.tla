---------------------------- MODULE SyncQueue ----------------------------
(***************************************************************************)
(* The app's offline write queue: SyncService and MutationQueueHelper over *)
(* the persistent SyncQueueStore (a Hive box).                             *)
(*                                                                         *)
(* Dart runs one callback at a time, so whatever lies between two awaits   *)
(* of the network, the disk or the platform is one action.  A pass over    *)
(* the queue (syncPending) works on copies of the entries it read when it  *)
(* began, while `box' is what a kill of the app leaves behind.  _isRunning *)
(* is tested before an await and set after it, so passes may overlap.      *)
(*                                                                         *)
(* The module does not say what the server answers: each answer is an      *)
(* action of its own, which OfflineWrites joins with the server's steps.   *)
(***************************************************************************)
EXTENDS SyncTypes

CONSTANTS
    Passes,      \* bound: as many calls of syncPending are under way
    Adapters,    \* domains SyncAdapterRegistry resolves
    MaxRetry,    \* defaultMaxRetryCount
    MaxEntries   \* the store's capacity

ASSUME QueueAssumption ==
    /\ Adapters \subseteq Domains
    /\ MaxRetry \in Nat \ {0}
    /\ MaxEntries \in Nat

VARIABLES
    box,       \* persistent: the queued entries
    clock,     \* entries queued so far; orders them as createdAt does
    up,        \* the app's process is alive and initialised
    session,   \* whose token TokenStorage holds
    leaving,   \* logout dropped the tokens and not yet the queue
    call,      \* per write: where its MutationQueueHelper call stands
    running,   \* _isRunning
    pass,      \* per call of syncPending: where it stands
    raced      \* ghost: a pass of this process began while another was on

passVars == <<running, pass, raced>>
sessionVars == <<session, leaving>>
queueVars == <<box, clock, up, sessionVars, call, passVars>>

Status == {"pending", "syncing", "synced", "failed"}
Call == {"new", "direct", "queued", "acked", "refused", "abandoned"}

Entry == [id : Writes, key : Key \cup {NoKey}, status : Status,
          retry : 0 .. MaxRetry, at : Nat]

(* asking: awaits isOnline; visiting: in _flushQueue; cleaning, trimming:  *)
(* in cleanup, deleting what it has picked.                                *)
PassStage == {"idle", "asking", "visiting", "cleaning", "trimming"}

(* todo: entries still to visit, as they were read; current: the one being *)
(* replayed, none or one; doomed: writes whose entries cleanup has picked. *)
Pass == [stage : PassStage, todo : SUBSET Entry, blocked : SUBSET Domains,
         current : SUBSET Entry, doomed : SUBSET Writes]

Idle == [stage |-> "idle", todo |-> {}, blocked |-> {}, current |-> {}, doomed |-> {}]

Unsent == {"pending", "syncing"}

(* Mutant: one retry too many. *)
IsRetryableOneMore(e) == e.retry <= MaxRetry

IsRetryable(e) == e.retry < MaxRetry
Domain(e) == DomainOf[e.id]
Ids(S) == {e.id : e \in S}
Upsert(S, e) == {x \in S : x.id # e.id} \cup {e}

Proceeds(p, q) == pass' = [pass EXCEPT ![p] = q]

-----------------------------------------------------------------------------

(* The queue an earlier app version left: keyless entries, among them ones *)
(* it was replaying when it was killed, in some order of creation.         *)
LegacyEntry(w, s, n) ==
    [id |-> w, key |-> NoKey, status |-> s, retry |-> 0, at |-> n]

QueueInit ==
    /\ session \in Users
    /\ leaving = FALSE
    /\ \E s \in [Legacy -> Unsent], n \in [Legacy -> 0 .. Cardinality(Legacy) - 1] :
         /\ \A v, w \in Legacy : n[v] = n[w] => v = w
         /\ box = {LegacyEntry(w, s[w], n[w]) : w \in Legacy}
    /\ clock = Cardinality(Legacy)
    /\ up = FALSE
    /\ call = [w \in Writes |-> IF w \in Legacy THEN "queued" ELSE "new"]
    /\ running = FALSE
    /\ pass = [p \in Passes |-> Idle]
    /\ raced = FALSE

-----------------------------------------------------------------------------
(* The store *)

(* Mutant: the trim as it was before INV-3, blind to an entry's status.     *)
TrimmedAnyStatus(S) ==
    {e \in S : Cardinality({f \in S : f.at < e.at}) < Cardinality(S) - MaxEntries}

(* What the trim picks: the oldest of the entries that are not unsent, and *)
(* only as many as bring the box back to its capacity.                     *)
Trimmed(S) ==
    {e \in S : /\ e.status \notin Unsent
               /\ Cardinality({f \in S : f.status \notin Unsent /\ f.at < e.at})
                    < Cardinality(S) - MaxEntries}

(* What cleanup picks first: whatever is synced, and the failed entries    *)
(* created over 7 days ago, `old'.                                         *)
Expired(S, old) == {e \in S : e.status = "synced" \/ (e.status = "failed" /\ e \in old)}

Cleaned(S, old) == LET kept == S \ Expired(S, old) IN kept \ Trimmed(kept)

(* Mutant: no recovery of what a kill left in `syncing'. *)
NotRecovered(e) == e

(* Startup: what an app kill left in `syncing' is made pending again, but  *)
(* for a keyless POST, which only the user may send again.                 *)
Recovered(e) ==
    IF e.status # "syncing" THEN e
    ELSE IF e.key # NoKey \/ e.id \notin Creates
         THEN [e EXCEPT !.status = "pending"]
         ELSE [e EXCEPT !.status = "failed", !.retry = MaxRetry]

(* Nothing else of the app runs before initialize has cleaned the box.     *)
Initialize ==
    /\ ~up
    /\ up' = TRUE
    /\ LET recovered == {Recovered(e) : e \in box}
       IN  \E old \in SUBSET recovered : box' = Cleaned(recovered, old)
    /\ UNCHANGED <<clock, sessionVars, call, passVars>>

(* The process dies; a call that was waiting for its answer is lost with   *)
(* the screen that made it.                                                *)
Kill ==
    /\ up
    /\ up' = FALSE
    /\ leaving' = FALSE
    /\ running' = FALSE
    /\ pass' = [p \in Passes |-> Idle]
    /\ raced' = FALSE
    /\ call' = [w \in Writes |-> IF call[w] = "direct" THEN "abandoned" ELSE call[w]]
    /\ UNCHANGED <<box, clock, session>>

-----------------------------------------------------------------------------
(* MutationQueueHelper *)

Enqueue(w, key) ==
    /\ box' = Upsert(box, [id |-> w, key |-> key, status |-> "pending",
                           retry |-> 0, at |-> clock])
    /\ clock' = clock + 1
    /\ call' = [call EXCEPT ![w] = "queued"]

Calls(w) ==
    /\ up
    /\ session # NoUser
    /\ call[w] = "new"
    /\ UNCHANGED <<up, sessionVars, passVars>>

CallOffline(w) ==
    /\ Calls(w)
    /\ Enqueue(w, OfflineKey)

CallOnline(w) ==
    /\ Calls(w)
    /\ call' = [call EXCEPT ![w] = "direct"]
    /\ UNCHANGED <<box, clock>>

(* Mutant: a business error is queued for replay like a network failure. *)
DirectAnsweredAndQueued(w, outcome) ==
    /\ call[w] = "direct"
    /\ call' = [call EXCEPT ![w] = outcome]
    /\ box' = Upsert(box, [id |-> w, key |-> KeySent(NoKey, 1), status |-> "pending",
                           retry |-> 0, at |-> clock])
    /\ UNCHANGED <<clock, up, sessionVars, passVars>>

(* The caller gets its answer, or the business error is rethrown to it.    *)
DirectAnswered(w, outcome) ==
    /\ call[w] = "direct"
    /\ call' = [call EXCEPT ![w] = outcome]
    /\ UNCHANGED <<box, clock, up, sessionVars, passVars>>

(* Mutant: the queue draws a key of its own. *)
FallbackKeyFresh == OfflineKey

(* No connection, a timeout or a 5xx: queue the write under the key the    *)
(* failed request carried, which the exception holds.                      *)
FallbackKey == KeySent(NoKey, 1)

DirectFailed(w) ==
    /\ call[w] = "direct"
    /\ Enqueue(w, FallbackKey)
    /\ UNCHANGED <<up, sessionVars, passVars>>

-----------------------------------------------------------------------------
(* A pass over the queue *)

(* Candidates: what is neither sent nor out of retries.                    *)
IsPending(e) == e.status \notin {"synced", "syncing"} /\ IsRetryable(e)

(* syncPending sees no pass running and asks whether the device is online. *)
SyncPending(p) ==
    /\ up
    /\ ~running
    /\ pass[p].stage = "idle"
    /\ Proceeds(p, [Idle EXCEPT !.stage = "asking"])
    /\ UNCHANGED <<box, clock, up, sessionVars, call, running, raced>>

StayOffline(p) ==
    /\ pass[p].stage = "asking"
    /\ Proceeds(p, Idle)
    /\ UNCHANGED <<box, clock, up, sessionVars, call, running, raced>>

(* It is: the pass runs, even when another one has begun meanwhile.        *)
FlushStart(p) ==
    /\ pass[p].stage = "asking"
    /\ Proceeds(p, [Idle EXCEPT !.stage = "visiting", !.todo = {e \in box : IsPending(e)}])
    /\ running' = TRUE
    /\ raced' = (raced \/ \E q \in Passes \ {p} : pass[q].stage \notin {"idle", "asking"})
    /\ UNCHANGED <<box, clock, up, sessionVars, call>>

(* The loop visits the candidates by createdAt, one replay at a time.      *)
Visits(p, e) ==
    /\ pass[p].stage = "visiting"
    /\ pass[p].current = {}
    /\ e \in pass[p].todo
    /\ \A f \in pass[p].todo : e.at <= f.at
    /\ UNCHANGED <<clock, up, sessionVars, call, running, raced>>

IsBlocked(p, e) == Domain(e) \in pass[p].blocked

FlushSkip(p) ==
    \E e \in pass[p].todo :
        /\ Visits(p, e)
        /\ IsBlocked(p, e)
        /\ Proceeds(p, [pass[p] EXCEPT !.todo = @ \ {e}])
        /\ UNCHANGED box

(* Retried before and its backoff, a clock the model leaves out, not over. *)
InBackoff(e) == e.status = "pending" /\ e.retry > 0

FlushBackoff(p) ==
    \E e \in pass[p].todo :
        /\ Visits(p, e)
        /\ ~IsBlocked(p, e)
        /\ InBackoff(e)
        /\ Proceeds(p, [pass[p] EXCEPT !.todo = @ \ {e}, !.blocked = @ \cup {Domain(e)}])
        /\ UNCHANGED box

FlushNoAdapter(p) ==
    \E e \in pass[p].todo :
        /\ Visits(p, e)
        /\ ~IsBlocked(p, e)
        /\ Domain(e) \notin Adapters
        /\ Proceeds(p, [pass[p] EXCEPT !.todo = @ \ {e}])
        /\ box' = Upsert(box, [e EXCEPT !.status = "failed"])

(* The write goes out; `current' is what the pass knows of it until the    *)
(* answer, whatever happens to the box meanwhile.                          *)
FlushSend(p, w) ==
    \E e \in pass[p].todo :
        /\ e.id = w
        /\ Visits(p, e)
        /\ ~IsBlocked(p, e)
        /\ Domain(e) \in Adapters
        /\ Proceeds(p, [pass[p] EXCEPT !.todo = @ \ {e},
                                       !.current = {[e EXCEPT !.status = "syncing"]}])
        /\ box' = Upsert(box, [e EXCEPT !.status = "syncing"])

(* The entry is written back as `now'; `held' are the domains held back.   *)
Answered(p, now, held) ==
    /\ Proceeds(p, [pass[p] EXCEPT !.current = {}, !.blocked = @ \cup held])
    /\ box' = Upsert(box, now)
    /\ UNCHANGED <<clock, up, sessionVars, running, raced>>

ReplaySucceeded(p) ==
    \E e \in pass[p].current :
        /\ Answered(p, [e EXCEPT !.status = "synced", !.retry = 0], {})
        /\ call' = [call EXCEPT ![e.id] = "acked"]

(* CONFLICT_LWW_REJECTED: failed for good, and the user is told.           *)
ReplayConflict(p) ==
    \E e \in pass[p].current :
        /\ Answered(p, [e EXCEPT !.status = "failed", !.retry = MaxRetry], {})
        /\ UNCHANGED call

(* Mutant: a failure is put back without being counted. *)
ReplayFailedUncounted(p) ==
    \E e \in pass[p].current :
        /\ Answered(p, [e EXCEPT !.status = "pending"], {Domain(e)})
        /\ UNCHANGED call

(* Mutant: a failure does not hold back the rest of its domain. *)
ReplayFailedUnblocked(p) ==
    \E e \in pass[p].current :
        LET terminal == e.retry + 1 >= MaxRetry
        IN  /\ Answered(p, [e EXCEPT !.status = IF terminal THEN "failed" ELSE "pending",
                                     !.retry = @ + 1], {})
            /\ UNCHANGED call

(* Any other error spends a retry.  The last one leaves the entry failed,  *)
(* and only an entry still waiting holds back the rest of its domain.      *)
ReplayFailed(p) ==
    \E e \in pass[p].current :
        LET terminal == e.retry + 1 >= MaxRetry
        IN  /\ Answered(p, [e EXCEPT !.status = IF terminal THEN "failed" ELSE "pending",
                                     !.retry = @ + 1],
                        IF terminal THEN {} ELSE {Domain(e)})
            /\ UNCHANGED call

(* The pass ends with cleanup, which picks what to delete from what it     *)
(* reads, deletes it one entry at a time, and does so again for the trim.  *)
Cleans(p) == UNCHANGED <<clock, up, sessionVars, call, raced>>

FlushEnd(p) ==
    /\ pass[p].stage = "visiting"
    /\ pass[p].todo = {}
    /\ pass[p].current = {}
    /\ \E old \in SUBSET box :
         Proceeds(p, [Idle EXCEPT !.stage = "cleaning", !.doomed = Ids(Expired(box, old))])
    /\ UNCHANGED <<box, running>>
    /\ Cleans(p)

CleanupDelete(p) ==
    \E w \in pass[p].doomed :
        /\ box' = {e \in box : e.id # w}
        /\ Proceeds(p, [pass[p] EXCEPT !.doomed = @ \ {w}])
        /\ UNCHANGED running
        /\ Cleans(p)

CleanupTrim(p) ==
    /\ pass[p].stage = "cleaning"
    /\ pass[p].doomed = {}
    /\ Proceeds(p, [Idle EXCEPT !.stage = "trimming", !.doomed = Ids(Trimmed(box))])
    /\ UNCHANGED <<box, running>>
    /\ Cleans(p)

PassEnd(p) ==
    /\ pass[p].stage = "trimming"
    /\ pass[p].doomed = {}
    /\ Proceeds(p, Idle)
    /\ running' = FALSE
    /\ UNCHANGED box
    /\ Cleans(p)

-----------------------------------------------------------------------------
(* What the user does from the sync status banner, which lists the failed  *)
(* entries, and to the session *)

Taps ==
    /\ up
    /\ UNCHANGED <<clock, up, sessionVars, call, passVars>>

RetryEntry ==
    \E e \in box :
        /\ Taps
        /\ e.status = "failed"
        /\ box' = Upsert(box, [e EXCEPT !.status = "pending", !.retry = 0])

(* Mutant: retries every failed entry, terminal ones too. *)
RetryEveryFailedEntry ==
    /\ Taps
    /\ \E e \in box : e.status = "failed"
    /\ box' = {IF e.status = "failed" THEN [e EXCEPT !.status = "pending"] ELSE e : e \in box}

RetryFailedEntries ==
    /\ Taps
    /\ \E e \in box : e.status = "failed" /\ IsRetryable(e)
    /\ box' = {IF e.status = "failed" /\ IsRetryable(e)
               THEN [e EXCEPT !.status = "pending"] ELSE e : e \in box}

DeleteEntry ==
    \E e \in box :
        /\ Taps
        /\ e.status = "failed"
        /\ box' = box \ {e}

(* logout drops the tokens, then clears the box.  It does not stop a pass: *)
(* SyncService outlives the session and is not told.                       *)
Logout ==
    /\ up
    /\ session # NoUser
    /\ session' = NoUser
    /\ leaving' = TRUE
    /\ UNCHANGED <<box, clock, up, call, passVars>>

LogoutClears ==
    /\ leaving
    /\ leaving' = FALSE
    /\ box' = {}
    /\ UNCHANGED <<clock, up, session, call, passVars>>

Login ==
    /\ up
    /\ session = NoUser
    /\ ~leaving
    /\ session' \in Users
    /\ UNCHANGED <<box, clock, up, leaving, call, passVars>>

-----------------------------------------------------------------------------
(* The queue against a server that may answer anything *)

Calling(w) ==
    \/ CallOffline(w)
    \/ CallOnline(w)
    \/ DirectAnswered(w, "acked")
    \/ DirectAnswered(w, "refused")
    \/ DirectFailed(w)

ReplayAnswered(p) == ReplaySucceeded(p) \/ ReplayConflict(p) \/ ReplayFailed(p)
Cleanup(p) == CleanupDelete(p) \/ CleanupTrim(p) \/ PassEnd(p)

(* The steps of a pass that concern no request.                            *)
PassLocal(p) ==
    \/ SyncPending(p) \/ StayOffline(p) \/ FlushStart(p)
    \/ FlushSkip(p) \/ FlushBackoff(p) \/ FlushNoAdapter(p)
    \/ FlushEnd(p) \/ Cleanup(p)

PassStep(p) ==
    \/ PassLocal(p)
    \/ \E w \in Writes : FlushSend(p, w)
    \/ ReplayAnswered(p)

UserStep ==
    \/ RetryEntry \/ RetryFailedEntries \/ DeleteEntry
    \/ Logout \/ LogoutClears \/ Login

QueueNext ==
    \/ Initialize \/ Kill
    \/ \E w \in Writes : Calling(w)
    \/ \E p \in Passes : PassStep(p)
    \/ UserStep

(* The app is opened again after a kill and the 30 second poll calls       *)
(* syncPending; a pass that keeps asking finds the device online again and *)
(* again, and runs on; every request is answered or times out; backoffs    *)
(* end: a write visited again and again is not in backoff every time.      *)
QueueFairness ==
    /\ WF_queueVars(Initialize)
    /\ WF_queueVars(\E p \in Passes : SyncPending(p))
    /\ \A p \in Passes :
         /\ SF_queueVars(FlushStart(p))
         /\ WF_queueVars(FlushSkip(p) \/ FlushBackoff(p) \/ FlushNoAdapter(p))
         /\ WF_queueVars(ReplayAnswered(p))
         /\ WF_queueVars(FlushEnd(p) \/ Cleanup(p))
         /\ \A w \in Writes : SF_queueVars(FlushSend(p, w))

QueueSpec == QueueInit /\ [][QueueNext]_queueVars /\ QueueFairness

-----------------------------------------------------------------------------
(* Properties *)

QueueTypeOK ==
    /\ box \subseteq Entry
    /\ clock \in Nat
    /\ up \in BOOLEAN
    /\ session \in Users \cup {NoUser}
    /\ leaving \in BOOLEAN
    /\ call \in [Writes -> Call]
    /\ running \in BOOLEAN
    /\ pass \in [Passes -> Pass]
    /\ raced \in BOOLEAN

(* An entry in `syncing' is being replayed right now.  Passes rely on it   *)
(* to leave `syncing' entries alone (_isPending): one that nobody was      *)
(* replaying would never be sent again and never be shown as failed.       *)
SyncingIsReplayed ==
    up => \A e \in box : e.status = "syncing" => \E p \in Passes : e \in pass[p].current

(* INV-3: cleanup picks no unsent write, and while the app runs such a     *)
(* write leaves the queue in no other way than with the session, whatever  *)
(* stale copies of it are written back.                                    *)
UnsentKept ==
    [][\A e \in box : up /\ e.status \in Unsent =>
          /\ \A p \in Passes : e.id \in pass'[p].doomed => e.id \in pass[p].doomed
          /\ e.id \notin Ids(box') =>
                leaving \/ \E p \in Passes : e.id \in pass[p].doomed]_queueVars

(* S3: a write whose replay failed and that waits for its next retry is    *)
(* not overtaken by a later write of its domain.                           *)
Overtakes(e) ==
    \E f \in box : /\ Domain(f) = Domain(e) /\ f.at < e.at
                   /\ f.status = "pending" /\ f.retry > 0

(* It holds as long as no two passes have overlapped.                      *)
NotOvertakenInTurn ==
    [][\A p \in Passes : \A e \in pass'[p].current \ pass[p].current :
          raced \/ ~Overtakes(e)]_queueVars

(* #1162: a keyless create that may have reached the server when the app   *)
(* was killed is not sent again before the user asks for it: a failed      *)
(* entry out of retries stays so, if passes do not overlap.                *)
TerminalUntilRetried ==
    [][\A e \in box : ~raced /\ e.status = "failed" /\ ~IsRetryable(e) =>
          \A f \in box' : f.id = e.id => f = e \/ (f.status = "pending" /\ f.retry = 0)]_queueVars

(* Every queued write gets an end: sent, failed where the user sees it, or *)
(* gone with the session; provided the app is not killed for ever.         *)
Waiting(w) == \E e \in box : e.id = w /\ e.status \in Unsent

Settles == (<>[][~Kill]_queueVars) => \A w \in Writes : Waiting(w) ~> ~Waiting(w)

=============================================================================
