------------------------ MODULE OfflineWrites_proofs ------------------------
(***************************************************************************)
(* Proofs about the queue, SyncQueue, and about OfflineWrites, which joins *)
(* it with the server: for every set of writes, users and domains, any     *)
(* number of overlapping passes, every retry limit, every capacity of the  *)
(* store and every bound.                                                  *)
(*                                                                         *)
(* The queue comes first; its promises need no server.  OncePerKey and     *)
(* OneAnswerPerKey follow from the server's steps alone, so that proof is  *)
(* split: ServerNext preserves ServerInv, and every step of the app is,    *)
(* for the server, a Submit or a stutter.                                  *)
(***************************************************************************)
EXTENDS OfflineWrites, FiniteSetTheorems, TLAPS

(* What holds of each pass.  Only entries with a retry left are visited:   *)
(* the pass counts one more retry on what it read, and the count must stay *)
(* within its type.  Only a pass that visits replays, one entry at a time. *)
PassOK(q) ==
    /\ q \in Pass
    /\ \A e \in q.todo \cup q.current : IsRetryable(e)
    /\ \A d, e \in q.current : d = e
    /\ q.stage # "visiting" => q.current = {}

PassesOK == pass \in [Passes -> Pass] /\ \A p \in Passes : PassOK(pass[p])

OneEntryPerWrite(S) == \A d, e \in S : d.id = e.id => d = e

BoxOK(S) == S \subseteq Entry /\ OneEntryPerWrite(S)

QueueInv ==
    /\ QueueTypeOK
    /\ PassesOK
    /\ OneEntryPerWrite(box)
    /\ SyncingIsReplayed

-----------------------------------------------------------------------------
(* What the helpers return *)

LEMMA UpsertOK ==
    ASSUME NEW S, BoxOK(S), NEW e \in Entry
    PROVE  BoxOK(Upsert(S, e))
BY DEF BoxOK, OneEntryPerWrite, Upsert

LEMMA SubsetOK ==
    ASSUME NEW S, NEW T, BoxOK(S), T \subseteq S
    PROVE  BoxOK(T)
BY DEF BoxOK, OneEntryPerWrite

LEMMA CleanedSubset ==
    ASSUME NEW S, NEW old
    PROVE  Cleaned(S, old) \subseteq S
BY DEF Cleaned, Trimmed

LEMMA StatusType ==
    ASSUME NEW e \in Entry, NEW s \in Status
    PROVE  [e EXCEPT !.status = s] \in Entry
BY DEF Entry

LEMMA StatusRetryType ==
    ASSUME NEW e \in Entry, NEW s \in Status, NEW r \in 0 .. MaxRetry
    PROVE  [e EXCEPT !.status = s, !.retry = r] \in Entry
BY DEF Entry

LEMMA Constants ==
    /\ "pending" \in Status /\ "syncing" \in Status
    /\ "synced" \in Status /\ "failed" \in Status
    /\ 0 \in 0 .. MaxRetry /\ MaxRetry \in 0 .. MaxRetry
BY QueueAssumption DEF Status

LEMMA RecoveredType ==
    ASSUME NEW e \in Entry
    PROVE  /\ Recovered(e) \in Entry
           /\ Recovered(e).id = e.id
           /\ Recovered(e).status # "syncing"
<1>1. Recovered(e) \in Entry
  BY StatusType, StatusRetryType, Constants DEF Recovered
<1>2. Recovered(e).id = e.id /\ Recovered(e).status # "syncing"
  BY DEF Recovered, Entry
<1> QED
  BY <1>1, <1>2

(* Making over the entries of a box one by one, ids kept.                  *)
LEMMA ImageOK ==
    ASSUME NEW S, BoxOK(S), NEW f \in [S -> Entry], \A e \in S : f[e].id = e.id
    PROVE  BoxOK({f[e] : e \in S})
BY DEF BoxOK, OneEntryPerWrite

LEMMA IdleOK == PassOK(Idle)
BY DEF PassOK, Pass, PassStage, Idle

LEMMA DomainType ==
    ASSUME NEW e \in Entry
    PROVE  Domain(e) \in Domains
BY WritesAssumption DEF Domain, Entry

LEMMA IdsType ==
    ASSUME NEW S, S \subseteq Entry
    PROVE  Ids(S) \subseteq Writes
BY DEF Ids, Entry

(* A step of one pass leaves the others alone.                             *)
LEMMA ProceedsOK ==
    ASSUME PassesOK, NEW p \in Passes, NEW q, PassOK(q), Proceeds(p, q)
    PROVE  /\ PassesOK'
           /\ pass'[p] = q
           /\ \A r \in Passes \ {p} : pass'[r] = pass[r]
BY DEF PassesOK, PassOK, Proceeds, IsRetryable

CurrentKept == \A p \in Passes : pass'[p].current = pass[p].current

LEMMA ReplayedKept ==
    ASSUME SyncingIsReplayed, CurrentKept, up' => up,
           \A e \in box' : e.status = "syncing" => e \in box
    PROVE  SyncingIsReplayed'
BY DEF SyncingIsReplayed, CurrentKept

-----------------------------------------------------------------------------
(* The invariant is kept *)

LEMMA QueueInvInit == QueueInit => QueueInv
<1> SUFFICES ASSUME QueueInit PROVE QueueInv
  OBVIOUS
<1>1. Cardinality(Legacy) \in Nat
  BY WritesAssumption, FS_Subset, FS_CardinalityType
<1>2. BoxOK(box)
  <2>1. PICK s \in [Legacy -> Unsent], n \in [Legacy -> 0 .. Cardinality(Legacy) - 1] :
           box = {LegacyEntry(w, s[w], n[w]) : w \in Legacy}
    BY DEF QueueInit
  <2>2. \A w \in Legacy : LegacyEntry(w, s[w], n[w]) \in Entry /\ LegacyEntry(w, s[w], n[w]).id = w
    BY <1>1, WritesAssumption, QueueAssumption DEF LegacyEntry, Entry, Unsent, Status
  <2> QED
    BY <2>1, <2>2 DEF BoxOK, OneEntryPerWrite
<1>3. call \in [Writes -> Call]
  BY DEF QueueInit, Call
<1>4. PassesOK
  BY IdleOK DEF QueueInit, PassesOK, PassOK
<1>5. SyncingIsReplayed
  BY DEF QueueInit, SyncingIsReplayed
<1> QED
  BY <1>1, <1>2, <1>3, <1>4, <1>5 DEF QueueInit, QueueInv, QueueTypeOK, BoxOK, PassesOK

LEMMA EnqueueOK ==
    ASSUME QueueInv, NEW w \in Writes, NEW k \in Key, Enqueue(w, k)
    PROVE  /\ BoxOK(box') /\ clock' \in Nat /\ call' \in [Writes -> Call]
           /\ \A e \in box' : e.status = "syncing" => e \in box
<1> DEFINE x == [id |-> w, key |-> k, status |-> "pending", retry |-> 0, at |-> clock]
<1>1. x \in Entry /\ x.status = "pending"
  BY QueueAssumption DEF Entry, Status, QueueTypeOK, QueueInv
<1>2. box' = Upsert(box, x)
  BY DEF Enqueue
<1>3. BoxOK(box)
  BY DEF QueueInv, QueueTypeOK, BoxOK
<1> HIDE DEF x
<1>4. BoxOK(box')
  BY <1>1, <1>2, <1>3, UpsertOK
<1>5. \A e \in box' : e.status = "syncing" => e \in box
  BY <1>1, <1>2 DEF Upsert
<1>6. clock' \in Nat /\ call' \in [Writes -> Call]
  BY DEF Enqueue, QueueInv, QueueTypeOK, Call
<1> QED
  BY <1>4, <1>5, <1>6

(* The steps of MutationQueueHelper.                                       *)
LEMMA CallingKeepsInv ==
    ASSUME QueueInv, NEW w \in Writes, Calling(w)
    PROVE  QueueInv'
<1>k. OfflineKey \in Key /\ FallbackKey \in Key
  BY WritesAssumption DEF OfflineKey, FallbackKey, KeySent, NoKey, Key
<1>1. /\ UNCHANGED <<up, session, leaving, running, pass, raced>>
  BY DEF Calling, CallOffline, CallOnline, DirectAnswered, DirectFailed, Calls, sessionVars,
         passVars, QueueInv, QueueTypeOK
<1>2. /\ BoxOK(box') /\ clock' \in Nat /\ call' \in [Writes -> Call]
      /\ \A e \in box' : e.status = "syncing" => e \in box
  <2>1. CASE CallOffline(w) \/ DirectFailed(w)
    BY <1>k, <2>1, EnqueueOK DEF CallOffline, DirectFailed
  <2>2. CASE CallOnline(w) \/ DirectAnswered(w, "acked") \/ DirectAnswered(w, "refused")
    BY <2>2 DEF CallOnline, DirectAnswered, QueueInv, QueueTypeOK, BoxOK, Call
  <2> QED
    BY <2>1, <2>2 DEF Calling
<1>3. PassesOK' /\ CurrentKept
  BY <1>1 DEF QueueInv, PassesOK, CurrentKept, PassOK, IsRetryable
<1>4. SyncingIsReplayed'
  BY <1>1, <1>2, <1>3, ReplayedKept DEF QueueInv
<1> QED
  BY <1>1, <1>2, <1>3, <1>4 DEF QueueInv, QueueTypeOK, BoxOK

(* What every step of a pass leaves alone.                                 *)
LEMMA PassStepFrame ==
    ASSUME QueueInv, NEW p \in Passes, PassStep(p)
    PROVE  /\ UNCHANGED <<clock, up, session, leaving>>
           /\ call' \in [Writes -> Call]
           /\ running' \in BOOLEAN
           /\ raced' \in BOOLEAN
<1> USE DEF QueueInv, QueueTypeOK, sessionVars
<1>1. CASE SyncPending(p) \/ StayOffline(p) \/ FlushStart(p)
  BY <1>1 DEF SyncPending, StayOffline, FlushStart
<1>2. CASE FlushSkip(p) \/ FlushBackoff(p) \/ FlushNoAdapter(p)
  BY <1>2 DEF FlushSkip, FlushBackoff, FlushNoAdapter, Visits
<1>3. ASSUME NEW w \in Writes, FlushSend(p, w)
      PROVE  UNCHANGED <<clock, up, session, leaving, call, running, raced>>
  BY <1>3 DEF FlushSend, Visits
<1>4. CASE ReplayAnswered(p)
  BY <1>4 DEF ReplayAnswered, ReplaySucceeded, ReplayConflict, ReplayFailed, Answered, Call
<1>5. CASE FlushEnd(p) \/ Cleanup(p)
  BY <1>5 DEF FlushEnd, Cleanup, CleanupDelete, CleanupTrim, PassEnd, Cleans
<1> QED
  BY <1>1, <1>2, <1>3, <1>4, <1>5 DEF PassStep, PassLocal

(* The steps that neither begin nor end a replay.                          *)
LEMMA SameCurrentOK ==
    ASSUME QueueInv, NEW p \in Passes, NEW r, PassOK(r), r.current = pass[p].current,
           Proceeds(p, r)
    PROVE  PassesOK' /\ CurrentKept
BY ProceedsOK DEF QueueInv, CurrentKept

(* The steps that neither begin nor end a replay.                          *)
LEMMA PassLocalOK ==
    ASSUME QueueInv, NEW p \in Passes, PassLocal(p)
    PROVE  PassesOK' /\ CurrentKept
<1> DEFINE q == pass[p]
<1>p. q \in Pass /\ PassOK(q) /\ box \subseteq Entry
  BY DEF QueueInv, QueueTypeOK, PassesOK, PassOK
<1>i. q.stage # "visiting" => q.current = {}
  BY <1>p DEF PassOK
<1> SUFFICES \E r : PassOK(r) /\ r.current = q.current /\ Proceeds(p, r)
  BY SameCurrentOK
<1>1. CASE SyncPending(p)
  <2> DEFINE r == [Idle EXCEPT !.stage = "asking"]
  <2>1. PassOK(r) /\ r.current = {}
    BY DEF PassOK, Pass, PassStage, Idle
  <2>2. Proceeds(p, r) /\ q.stage = "idle"
    BY <1>1 DEF SyncPending
  <2> QED
    BY <1>i, <2>1, <2>2
<1>2. CASE StayOffline(p) \/ PassEnd(p)
  <2>1. Proceeds(p, Idle) /\ q.stage # "visiting"
    BY <1>2 DEF StayOffline, PassEnd
  <2> QED
    BY <1>i, <2>1, IdleOK DEF Idle
<1>3. CASE FlushStart(p)
  <2> DEFINE T == {e \in box : IsPending(e)}
             r == [Idle EXCEPT !.stage = "visiting", !.todo = T]
  <2>1. T \in SUBSET Entry /\ \A e \in T : IsRetryable(e)
    BY <1>p DEF IsPending
  <2> HIDE DEF T
  <2>2. PassOK(r) /\ r.current = {}
    BY <2>1 DEF PassOK, Pass, PassStage, Idle
  <2>3. Proceeds(p, r) /\ q.stage = "asking"
    BY <1>3 DEF FlushStart, T
  <2> QED
    BY <1>i, <2>2, <2>3
<1>4. CASE FlushSkip(p) \/ FlushBackoff(p) \/ FlushNoAdapter(p)
  <2>1. PICK e \in q.todo, B \in SUBSET Domains :
           Proceeds(p, [q EXCEPT !.todo = @ \ {e}, !.blocked = B])
    <3>1. CASE FlushSkip(p) \/ FlushNoAdapter(p)
      <4>1. PICK e \in q.todo : Proceeds(p, [q EXCEPT !.todo = @ \ {e}])
        BY <3>1 DEF FlushSkip, FlushNoAdapter
      <4>2. [q EXCEPT !.todo = @ \ {e}] = [q EXCEPT !.todo = @ \ {e}, !.blocked = q.blocked]
        BY <1>p DEF Pass
      <4> QED
        BY <1>p, <4>1, <4>2 DEF Pass
    <3>2. CASE FlushBackoff(p)
      BY <1>p, <3>2, DomainType DEF FlushBackoff, Pass
    <3> QED
      BY <1>4, <3>1, <3>2
  <2> DEFINE r == [q EXCEPT !.todo = @ \ {e}, !.blocked = B]
  <2>2. PassOK(r) /\ r.current = q.current
    BY <1>p DEF PassOK, Pass
  <2> QED
    BY <2>1, <2>2
<1>5. CASE FlushEnd(p) \/ CleanupTrim(p)
  <2>1. PICK s \in {"cleaning", "trimming"}, T \in SUBSET box :
           Proceeds(p, [Idle EXCEPT !.stage = s, !.doomed = Ids(T)])
    BY <1>5 DEF FlushEnd, CleanupTrim, Expired, Trimmed
  <2> DEFINE D == Ids(T)
             r == [Idle EXCEPT !.stage = s, !.doomed = D]
  <2>2. D \in SUBSET Writes
    BY <1>p, IdsType
  <2> HIDE DEF D
  <2>3. PassOK(r) /\ r.current = {}
    BY <2>2 DEF PassOK, Pass, PassStage, Idle
  <2>4. q.current = {}
    BY <1>i, <1>5 DEF FlushEnd, CleanupTrim
  <2> QED
    BY <2>1, <2>3, <2>4 DEF D
<1>6. CASE CleanupDelete(p)
  <2>1. PICK w \in q.doomed : Proceeds(p, [q EXCEPT !.doomed = @ \ {w}])
    BY <1>6 DEF CleanupDelete
  <2> DEFINE r == [q EXCEPT !.doomed = @ \ {w}]
  <2>2. PassOK(r) /\ r.current = q.current
    BY <1>p DEF PassOK, Pass
  <2> QED
    BY <2>1, <2>2
<1> QED
  BY <1>1, <1>2, <1>3, <1>4, <1>5, <1>6 DEF PassLocal, Cleanup

LEMMA PassLocalBox ==
    ASSUME QueueInv, NEW p \in Passes, PassLocal(p)
    PROVE  BoxOK(box') /\ \A e \in box' : e.status = "syncing" => e \in box
<1>b. BoxOK(box) /\ \A e \in pass[p].todo : e \in Entry
  BY DEF QueueInv, QueueTypeOK, BoxOK, PassesOK, PassOK, Pass
<1>1. CASE box' \subseteq box
  BY <1>b, <1>1, SubsetOK
<1>2. CASE FlushNoAdapter(p)
  <2>1. PICK e \in pass[p].todo : box' = Upsert(box, [e EXCEPT !.status = "failed"])
    BY <1>2 DEF FlushNoAdapter
  <2> DEFINE x == [e EXCEPT !.status = "failed"]
  <2>2. x \in Entry /\ x.status = "failed" /\ box' = Upsert(box, x)
    BY <1>b, <2>1, StatusType, Constants DEF Entry
  <2> HIDE DEF x
  <2> QED
    BY <1>b, <2>2, UpsertOK DEF Upsert
<1>3. CASE SyncPending(p) \/ StayOffline(p) \/ FlushStart(p) \/ FlushSkip(p) \/ FlushBackoff(p)
  BY <1>1, <1>3 DEF SyncPending, StayOffline, FlushStart, FlushSkip, FlushBackoff
<1>4. CASE FlushEnd(p) \/ Cleanup(p)
  BY <1>1, <1>4 DEF FlushEnd, Cleanup, CleanupDelete, CleanupTrim, PassEnd
<1> QED
  BY <1>2, <1>3, <1>4 DEF PassLocal

(* An answer: the entry in replay is written back in another status.       *)
LEMMA AnsweredOK ==
    ASSUME QueueInv, NEW p \in Passes, NEW e \in pass[p].current, NEW now \in Entry,
           now.id = e.id, now.status # "syncing", NEW held, held \subseteq Domains,
           Answered(p, now, held)
    PROVE  BoxOK(box') /\ PassesOK' /\ SyncingIsReplayed'
<1> DEFINE q == pass[p]
           r == [q EXCEPT !.current = {}, !.blocked = @ \cup held]
<1>1. BoxOK(box) /\ PassOK(q) /\ q \in Pass /\ PassesOK
  BY DEF QueueInv, QueueTypeOK, BoxOK, PassesOK, PassOK
<1>2. PassOK(r) /\ r.current = {}
  BY <1>1 DEF PassOK, Pass
<1>3. Proceeds(p, r) /\ box' = Upsert(box, now) /\ up' = up
  BY DEF Answered
<1> HIDE DEF r
<1>4. PassesOK' /\ \A s \in Passes \ {p} : pass'[s] = pass[s]
  BY <1>1, <1>2, <1>3, ProceedsOK
<1>5. ASSUME up', NEW x \in box', x.status = "syncing"
      PROVE  \E s \in Passes : x \in pass'[s].current
  <2>1. x \in box /\ x.id # e.id
    BY <1>3, <1>5 DEF Upsert
  <2>2. PICK s \in Passes : x \in pass[s].current
    BY <1>3, <1>5, <2>1 DEF QueueInv, SyncingIsReplayed
  <2>3. s # p
    BY <1>1, <2>1, <2>2 DEF PassOK
  <2> QED
    BY <1>4, <2>2, <2>3
<1>6. BoxOK(box')
  BY <1>1, <1>3, UpsertOK
<1> QED
  BY <1>4, <1>5, <1>6 DEF SyncingIsReplayed

LEMMA ReplayKeepsInv ==
    ASSUME QueueInv, NEW p \in Passes, ReplayAnswered(p)
    PROVE  BoxOK(box') /\ PassesOK' /\ SyncingIsReplayed'
<1>1. PICK e \in pass[p].current, s \in {"synced", "failed", "pending"}, n \in 0 .. MaxRetry,
           held \in SUBSET Domains :
         Answered(p, [e EXCEPT !.status = s, !.retry = n], held)
  <2>d. \A e \in pass[p].current : e \in Entry /\ Domain(e) \in Domains
    BY DomainType DEF QueueInv, PassesOK, PassOK, Pass
  <2>1. CASE ReplaySucceeded(p)
    BY <2>1, Constants DEF ReplaySucceeded
  <2>2. CASE ReplayConflict(p)
    BY <2>2, Constants DEF ReplayConflict
  <2>3. CASE ReplayFailed(p)
    <3>1. PICK e \in pass[p].current :
             LET terminal == e.retry + 1 >= MaxRetry
             IN  Answered(p, [e EXCEPT !.status = IF terminal THEN "failed" ELSE "pending",
                                       !.retry = @ + 1],
                          IF terminal THEN {} ELSE {Domain(e)})
      BY <2>3 DEF ReplayFailed
    <3>2. e.retry + 1 \in 0 .. MaxRetry
      BY QueueAssumption DEF QueueInv, PassesOK, PassOK, Pass, Entry, IsRetryable
    <3>3. CASE e.retry + 1 >= MaxRetry
      BY <2>d, <3>1, <3>2, <3>3
    <3>4. CASE ~(e.retry + 1 >= MaxRetry)
      BY <2>d, <3>1, <3>2, <3>4
    <3> QED
      BY <3>3, <3>4
  <2> QED
    BY <2>1, <2>2, <2>3 DEF ReplayAnswered
<1> DEFINE now == [e EXCEPT !.status = s, !.retry = n]
<1>2. e \in Entry
  BY DEF QueueInv, PassesOK, PassOK, Pass
<1>3. now \in Entry /\ now.id = e.id /\ now.status # "syncing"
  BY <1>2, StatusRetryType, Constants DEF Entry
<1>4. Answered(p, now, held)
  BY <1>1
<1> HIDE DEF now
<1> QED
  BY <1>3, <1>4, AnsweredOK

(* A replay begins: what it writes to the box is what the pass holds.      *)
LEMMA FlushSendKeepsInv ==
    ASSUME QueueInv, NEW p \in Passes, NEW w \in Writes, FlushSend(p, w)
    PROVE  BoxOK(box') /\ PassesOK' /\ SyncingIsReplayed'
<1> DEFINE q == pass[p]
<1>1. BoxOK(box) /\ PassOK(q) /\ q \in Pass /\ PassesOK
  BY DEF QueueInv, QueueTypeOK, BoxOK, PassesOK, PassOK
<1>2. PICK e \in q.todo :
         /\ Visits(p, e)
         /\ Proceeds(p, [q EXCEPT !.todo = @ \ {e},
                                  !.current = {[e EXCEPT !.status = "syncing"]}])
         /\ box' = Upsert(box, [e EXCEPT !.status = "syncing"])
  BY DEF FlushSend
<1> DEFINE x == [e EXCEPT !.status = "syncing"]
           r == [q EXCEPT !.todo = @ \ {e}, !.current = {x}]
<1>3. e \in Entry /\ x \in Entry /\ IsRetryable(x)
  <2>1. e \in Entry /\ IsRetryable(e)
    BY <1>1 DEF PassOK, Pass
  <2> QED
    BY <2>1, StatusType, Constants DEF Entry, IsRetryable
<1>4. box' = Upsert(box, x) /\ Proceeds(p, r) /\ q.stage = "visiting" /\ q.current = {} /\ up' = up
  BY <1>2 DEF Visits
<1> HIDE DEF x
<1>5. PassOK(r) /\ r.current = {x}
  BY <1>1, <1>3, <1>4 DEF PassOK, Pass
<1> HIDE DEF r
<1>6. PassesOK' /\ pass'[p] = r /\ \A s \in Passes \ {p} : pass'[s] = pass[s]
  BY <1>1, <1>4, <1>5, ProceedsOK
<1>7. BoxOK(box')
  BY <1>1, <1>3, <1>4, UpsertOK
<1>8. ASSUME up', NEW y \in box', y.status = "syncing"
      PROVE  \E s \in Passes : y \in pass'[s].current
  <2>1. CASE y = x
    BY <1>5, <1>6, <2>1
  <2>2. CASE y \in box
    BY <1>4, <1>6, <1>8, <2>2 DEF QueueInv, SyncingIsReplayed
  <2> QED
    BY <1>4, <2>1, <2>2 DEF Upsert
<1> QED
  BY <1>6, <1>7, <1>8 DEF SyncingIsReplayed

LEMMA PassStepKeepsInv ==
    ASSUME QueueInv, NEW p \in Passes, PassStep(p)
    PROVE  QueueInv'
<1>1. BoxOK(box') /\ PassesOK' /\ SyncingIsReplayed'
  <2>1. CASE PassLocal(p)
    BY <2>1, PassLocalOK, PassLocalBox, PassStepFrame, ReplayedKept DEF QueueInv
  <2>2. ASSUME NEW w \in Writes, FlushSend(p, w)
        PROVE  BoxOK(box') /\ PassesOK' /\ SyncingIsReplayed'
    BY <2>2, FlushSendKeepsInv
  <2>3. CASE ReplayAnswered(p)
    BY <2>3, ReplayKeepsInv
  <2> QED
    BY <2>1, <2>2, <2>3 DEF PassStep
<1>2. pass' \in [Passes -> Pass]
  BY <1>1 DEF PassesOK
<1> QED
  BY <1>1, <1>2, PassStepFrame DEF QueueInv, QueueTypeOK, BoxOK

LEMMA UserStepKeepsInv ==
    ASSUME QueueInv, UserStep
    PROVE  QueueInv'
<1>b. BoxOK(box)
  BY DEF QueueInv, QueueTypeOK, BoxOK
<1>f. /\ UNCHANGED <<clock, up, call, running, pass, raced>>
      /\ session' \in Users \cup {NoUser}
      /\ leaving' \in BOOLEAN
  BY DEF UserStep, RetryEntry, RetryFailedEntries, DeleteEntry, Logout, LogoutClears, Login, Taps,
         passVars, sessionVars, QueueInv, QueueTypeOK
<1>1. BoxOK(box') /\ \A e \in box' : e.status = "syncing" => e \in box
  <2>1. CASE RetryEntry
    <3>1. PICK e \in box : box' = Upsert(box, [e EXCEPT !.status = "pending", !.retry = 0])
      BY <2>1 DEF RetryEntry
    <3> DEFINE x == [e EXCEPT !.status = "pending", !.retry = 0]
    <3>2. x \in Entry /\ x.status = "pending" /\ box' = Upsert(box, x)
      BY <1>b, <3>1, StatusRetryType, Constants DEF BoxOK, Entry
    <3> HIDE DEF x
    <3> QED
      BY <1>b, <3>2, UpsertOK DEF Upsert
  <2>2. CASE RetryFailedEntries
    <3> DEFINE f == [e \in box |-> IF e.status = "failed" /\ IsRetryable(e)
                                   THEN [e EXCEPT !.status = "pending"] ELSE e]
    <3>1. \A e \in box : /\ f[e] \in Entry /\ f[e].id = e.id
                         /\ f[e].status = "syncing" => f[e] = e
      BY <1>b, StatusType, Constants DEF BoxOK, Entry
    <3>2. box' = {f[e] : e \in box}
      BY <2>2 DEF RetryFailedEntries
    <3>3. f \in [box -> Entry]
      BY <3>1
    <3> HIDE DEF f
    <3> QED
      BY <1>b, <3>1, <3>2, <3>3, ImageOK
  <2>3. CASE box' \subseteq box
    BY <1>b, <2>3, SubsetOK
  <2>4. CASE DeleteEntry \/ Logout \/ LogoutClears \/ Login
    BY <2>3, <2>4 DEF DeleteEntry, Logout, LogoutClears, Login
  <2> QED
    BY <2>1, <2>2, <2>4 DEF UserStep
<1>2. PassesOK' /\ CurrentKept
  BY <1>f DEF QueueInv, PassesOK, CurrentKept, PassOK, IsRetryable
<1>3. SyncingIsReplayed'
  BY <1>1, <1>2, <1>f, ReplayedKept DEF QueueInv
<1> QED
  BY <1>f, <1>1, <1>2, <1>3 DEF QueueInv, QueueTypeOK, BoxOK

LEMMA QueueNextKeepsInv == QueueInv /\ [QueueNext]_queueVars => QueueInv'
<1> SUFFICES ASSUME QueueInv, [QueueNext]_queueVars PROVE QueueInv'
  OBVIOUS
<1>b. BoxOK(box)
  BY DEF QueueInv, QueueTypeOK, BoxOK
<1>1. CASE Initialize
  <2> DEFINE f == [e \in box |-> Recovered(e)]
  <2>1. \A e \in box : f[e] \in Entry /\ f[e].id = e.id /\ f[e].status # "syncing"
    BY <1>b, RecoveredType DEF BoxOK
  <2>2. f \in [box -> Entry]
    BY <2>1
  <2>3. box' \subseteq {f[e] : e \in box}
    BY <1>1, CleanedSubset DEF Initialize
  <2> HIDE DEF f
  <2>4. BoxOK(box') /\ \A e \in box' : e.status # "syncing"
    <3>1. BoxOK({f[e] : e \in box})
      BY <1>b, <2>1, <2>2, ImageOK
    <3>2. BoxOK(box')
      BY <2>3, <3>1, SubsetOK
    <3> QED
      BY <2>1, <2>3, <3>2
  <2>5. UNCHANGED <<clock, session, leaving, call, running, pass, raced>> /\ up' = TRUE
    BY <1>1 DEF Initialize, sessionVars, passVars
  <2>6. SyncingIsReplayed'
    BY <2>4 DEF SyncingIsReplayed
  <2>7. PassesOK'
    BY <2>5 DEF QueueInv, PassesOK, PassOK, IsRetryable
  <2> QED
    BY <2>4, <2>5, <2>6, <2>7 DEF QueueInv, QueueTypeOK, BoxOK
<1>2. CASE Kill
  <2>1. UNCHANGED <<box, clock, session>> /\ up' = FALSE /\ leaving' \in BOOLEAN
        /\ running' \in BOOLEAN /\ raced' \in BOOLEAN /\ call' \in [Writes -> Call]
    BY <1>2 DEF Kill, QueueInv, QueueTypeOK, Call
  <2>2. PassesOK'
    BY <1>2, IdleOK DEF Kill, PassesOK, PassOK, IsRetryable
  <2> QED
    BY <2>1, <2>2 DEF QueueInv, QueueTypeOK, PassesOK, SyncingIsReplayed, OneEntryPerWrite
<1>3. ASSUME NEW w \in Writes, Calling(w) PROVE QueueInv'
  BY <1>3, CallingKeepsInv
<1>4. ASSUME NEW p \in Passes, PassStep(p) PROVE QueueInv'
  BY <1>4, PassStepKeepsInv
<1>5. CASE UserStep
  BY <1>5, UserStepKeepsInv
<1>6. CASE UNCHANGED queueVars
  BY <1>6 DEF queueVars, sessionVars, passVars, QueueInv, QueueTypeOK, PassesOK, PassOK,
              IsRetryable, OneEntryPerWrite, SyncingIsReplayed
<1> QED
  BY <1>1, <1>2, <1>3, <1>4, <1>5, <1>6 DEF QueueNext

(* Type correctness of the queue: in particular the retry count of an      *)
(* entry never passes the limit, whatever stale copies are written back.   *)
THEOREM QueueTypeCorrect == QueueSpec => []QueueTypeOK
<1>1. QueueInv => QueueTypeOK
  BY DEF QueueInv
<1> QED
  BY <1>1, QueueInvInit, QueueNextKeepsInv, PTL DEF QueueSpec

(* No entry is left behind in `syncing', a status no pass looks at and no  *)
(* screen shows, however many passes overlap.                              *)
THEOREM SyncingIsReplayedCorrect == QueueSpec => []SyncingIsReplayed
<1>1. QueueInv => SyncingIsReplayed
  BY DEF QueueInv
<1> QED
  BY <1>1, QueueInvInit, QueueNextKeepsInv, PTL DEF QueueSpec

-----------------------------------------------------------------------------
(* INV-3.  An upsert replaces an entry by one of the same write, and the   *)
(* cleanup picks only what is sent or failed; since the box has one entry  *)
(* per write, it picks no unsent write.                                    *)
LEMMA UpsertKeepsIds ==
    ASSUME NEW S, NEW x, NEW e \in S
    PROVE  e.id \in Ids(Upsert(S, x))
BY DEF Upsert, Ids

LEMMA CleanupSparesUnsent ==
    ASSUME NEW S, OneEntryPerWrite(S), NEW old, NEW e \in S, e.status \in Unsent
    PROVE  e.id \notin Ids(Expired(S, old)) /\ e.id \notin Ids(Trimmed(S))
BY DEF OneEntryPerWrite, Expired, Trimmed, Unsent, Ids

LEMMA PicksNoUnsent ==
    ASSUME QueueInv, [QueueNext]_queueVars, NEW e \in box, e.status \in Unsent,
           NEW p \in Passes, e.id \in pass'[p].doomed
    PROVE  e.id \in pass[p].doomed
<1>p. /\ pass \in [Passes -> Pass]
      /\ OneEntryPerWrite(box)
      /\ Idle.doomed = {}
  BY DEF QueueInv, PassesOK, Idle
<1>1. CASE pass' = pass
  BY <1>1
<1>2. CASE Kill
  BY <1>p, <1>2 DEF Kill
<1>3. ASSUME NEW r \in Passes, PassStep(r) PROVE e.id \in pass[p].doomed
  <2> DEFINE q == pass[r]
  <2>n. /\ q \in Pass
        /\ \A n : Proceeds(r, n) => pass' = [pass EXCEPT ![r] = n] /\ pass'[r] = n
    BY <1>p DEF Proceeds
  <2> SUFFICES e.id \in pass'[r].doomed => e.id \in q.doomed
    <3>1. \E n : Proceeds(r, n)
      BY <1>3 DEF PassStep, PassLocal, Cleanup, SyncPending, StayOffline, FlushStart, FlushSkip,
         FlushBackoff, FlushNoAdapter, FlushSend, ReplayAnswered, ReplaySucceeded, ReplayConflict,
         ReplayFailed, Answered, FlushEnd, CleanupDelete, CleanupTrim, PassEnd
    <3> QED
      BY <1>p, <2>n, <3>1
  <2>1. CASE SyncPending(r) \/ StayOffline(r) \/ FlushStart(r) \/ PassEnd(r)
    <3>1. pass'[r].doomed = {}
      <4>1. CASE SyncPending(r)
        BY <2>n, <4>1 DEF SyncPending, Idle
      <4>2. CASE StayOffline(r) \/ PassEnd(r)
        BY <2>n, <4>2 DEF StayOffline, PassEnd, Idle
      <4>3. CASE FlushStart(r)
        <5>1. PICK T : pass'[r] = [Idle EXCEPT !.stage = "visiting", !.todo = T]
          BY <1>p, <4>3 DEF FlushStart, Proceeds
        <5> QED
          BY <5>1 DEF Idle
      <4> QED
        BY <2>1, <4>1, <4>2, <4>3
    <3> QED
      BY <3>1
  <2>2. CASE FlushSkip(r)
    BY <2>n, <2>2 DEF FlushSkip, Pass
  <2>3. CASE FlushBackoff(r)
    <3>1. PICK T, B : pass'[r] = [q EXCEPT !.todo = T, !.blocked = B]
      <4>1. PICK d \in q.todo :
               Proceeds(r, [q EXCEPT !.todo = @ \ {d}, !.blocked = @ \cup {Domain(d)}])
        BY <2>3 DEF FlushBackoff
      <4>2. pass'[r] = [q EXCEPT !.todo = @ \ {d}, !.blocked = @ \cup {Domain(d)}]
        BY <2>n, <4>1
      <4> QED
        BY <4>2
    <3>2. [q EXCEPT !.todo = T, !.blocked = B].doomed = q.doomed
      BY <2>n DEF Pass
    <3> QED
      BY <3>1, <3>2
  <2>4. CASE FlushNoAdapter(r)
    BY <2>n, <2>4 DEF FlushNoAdapter, Pass
  <2>5. ASSUME NEW w \in Writes, FlushSend(r, w)
        PROVE  e.id \in pass'[r].doomed => e.id \in q.doomed
    <3>1. PICK d : Proceeds(r, [q EXCEPT !.todo = @ \ {d},
                                         !.current = {[d EXCEPT !.status = "syncing"]}])
      BY <2>5 DEF FlushSend
    <3>2. PICK T, S : pass'[r] = [q EXCEPT !.todo = T, !.current = S]
      BY <1>p, <3>1 DEF Proceeds
    <3> QED
      BY <2>n, <3>2 DEF Pass
  <2>6. CASE ReplayAnswered(r)
    <3>1. PICK B : pass'[r] = [q EXCEPT !.current = {}, !.blocked = B]
      BY <1>p, <2>6 DEF Proceeds, ReplayAnswered, ReplaySucceeded, ReplayConflict, ReplayFailed, Answered
    <3> QED
      BY <2>n, <3>1 DEF Pass
  <2>7. CASE FlushEnd(r)
    <3>1. PICK D : pass'[r] = [Idle EXCEPT !.stage = "cleaning", !.doomed = D] /\ e.id \notin D
      BY <1>p, <2>7, CleanupSparesUnsent DEF FlushEnd, Proceeds
    <3> QED
      BY <3>1 DEF Idle
  <2>8. CASE CleanupTrim(r)
    <3>1. PICK D : pass'[r] = [Idle EXCEPT !.stage = "trimming", !.doomed = D] /\ e.id \notin D
      BY <1>p, <2>8, CleanupSparesUnsent DEF CleanupTrim, Proceeds
    <3> QED
      BY <3>1 DEF Idle
  <2>9. CASE CleanupDelete(r)
    BY <2>n, <2>9 DEF CleanupDelete, Pass
  <2> QED
    BY <1>3, <2>1, <2>2, <2>3, <2>4, <2>5, <2>6, <2>7, <2>8, <2>9 DEF PassStep, PassLocal, Cleanup
<1>4. CASE Initialize \/ UserStep \/ UNCHANGED queueVars
  BY <1>1, <1>4 DEF Initialize, UserStep, RetryEntry, RetryFailedEntries, DeleteEntry, Logout,
     LogoutClears, Login, Taps, passVars, queueVars
<1>5. ASSUME NEW w \in Writes, Calling(w) PROVE e.id \in pass[p].doomed
  BY <1>1, <1>5 DEF Calling, CallOffline, CallOnline, DirectAnswered, DirectFailed, Calls, passVars
<1> QED
  BY <1>2, <1>3, <1>4, <1>5 DEF QueueNext

LEMMA LosesNoUnsent ==
    ASSUME QueueInv, [QueueNext]_queueVars, NEW e \in box, up, e.status \in Unsent,
           ~leaving, \A p \in Passes : e.id \notin pass[p].doomed
    PROVE  e.id \in Ids(box')
<1>t. box \subseteq Entry
  BY DEF QueueInv, QueueTypeOK
<1>1. (\E x : box' = Upsert(box, x)) => e.id \in Ids(box')
  BY UpsertKeepsIds
<1>2. e \in box' => e.id \in Ids(box')
  BY DEF Ids
<1>3. ASSUME NEW w \in Writes, Calling(w) PROVE e.id \in Ids(box')
  BY <1>1, <1>2, <1>3 DEF Calling, CallOffline, CallOnline, DirectAnswered, DirectFailed, Enqueue
<1>4. ASSUME NEW p \in Passes, PassStep(p) PROVE e.id \in Ids(box')
  <2>1. CASE SyncPending(p) \/ StayOffline(p) \/ FlushStart(p) \/ FlushSkip(p) \/ FlushBackoff(p)
    BY <1>2, <2>1 DEF SyncPending, StayOffline, FlushStart, FlushSkip, FlushBackoff
  <2>2. CASE FlushNoAdapter(p)
    BY <1>1, <2>2 DEF FlushNoAdapter
  <2>3. ASSUME NEW w \in Writes, FlushSend(p, w) PROVE e.id \in Ids(box')
    BY <1>1, <2>3 DEF FlushSend
  <2>4. CASE ReplayAnswered(p)
    BY <1>1, <2>4 DEF ReplayAnswered, ReplaySucceeded, ReplayConflict, ReplayFailed, Answered
  <2>5. CASE FlushEnd(p) \/ CleanupTrim(p) \/ PassEnd(p)
    BY <1>2, <2>5 DEF FlushEnd, CleanupTrim, PassEnd
  <2>6. CASE CleanupDelete(p)
    BY <1>2, <2>6 DEF CleanupDelete
  <2> QED
    BY <1>4, <2>1, <2>2, <2>3, <2>4, <2>5, <2>6 DEF PassStep, PassLocal, Cleanup
<1>5. CASE RetryEntry
  BY <1>1, <1>5 DEF RetryEntry
<1>6. CASE RetryFailedEntries
  BY <1>2, <1>6 DEF RetryFailedEntries, Unsent
<1>7. CASE DeleteEntry
  BY <1>2, <1>7 DEF DeleteEntry, Unsent
<1>8. CASE Initialize \/ Kill \/ Logout \/ LogoutClears \/ Login \/ UNCHANGED queueVars
  BY <1>2, <1>8 DEF Initialize, Kill, Logout, LogoutClears, Login, queueVars
<1> QED
  BY <1>3, <1>4, <1>5, <1>6, <1>7, <1>8 DEF QueueNext, UserStep

UnsentKeptStep ==
    \A e \in box : up /\ e.status \in Unsent =>
        /\ \A p \in Passes : e.id \in pass'[p].doomed => e.id \in pass[p].doomed
        /\ e.id \notin Ids(box') =>
              leaving \/ \E p \in Passes : e.id \in pass[p].doomed

(* While the app runs, an unsent write leaves the queue only with the      *)
(* session: no cleanup picks it and no stale copy written back displaces   *)
(* it.                                                                     *)
THEOREM UnsentKeptCorrect == QueueSpec => UnsentKept
<1>1. QueueInv /\ [QueueNext]_queueVars => [UnsentKeptStep]_queueVars
  BY PicksNoUnsent, LosesNoUnsent DEF UnsentKeptStep
<1> QED
  BY <1>1, QueueInvInit, QueueNextKeepsInv, PTL DEF QueueSpec, UnsentKept, UnsentKeptStep

-----------------------------------------------------------------------------
(* Passes in turn.  An entry that waits or is in replay has a retry left;  *)
(* one that failed with retries left was never sent, for want of an        *)
(* adapter, so it does not count as one that was overtaken.                *)
EntrySound(e) ==
    /\ e.status \in Unsent => IsRetryable(e)
    /\ e.status = "failed" /\ IsRetryable(e) => e.retry = 0
    /\ Domain(e) \notin Adapters /\ IsRetryable(e) => e.retry = 0

Visited(q) == q.todo \cup q.current

PassSound(q) ==
    /\ \A e \in Visited(q) : EntrySound(e)
    /\ \A e \in q.current : Domain(e) \in Adapters
    /\ \A d \in q.todo, e \in q.current : d.id # e.id
    /\ q.stage # "visiting" => Visited(q) = {}
    /\ OneEntryPerWrite(Visited(q))

QueueSound ==
    /\ \A e \in box : EntrySound(e)
    /\ \A p \in Passes : PassSound(pass[p])
    /\ ~up => \A p \in Passes : pass[p] = Idle

(* What a pass holds of the box S is as good as what the box says: nothing *)
(* it will write back has meanwhile failed for good.                       *)
Current(q, S) == \A d \in Visited(q), e \in S : e.id = d.id => IsRetryable(e)

(* An entry that waits for its next retry is before the later ones of its  *)
(* domain on the list, or its domain is held back.                         *)
Waits(f) == f.status = "pending" /\ f.retry > 0

Ordered(q, S) ==
    \A d \in q.todo, f \in S :
        Waits(f) /\ Domain(f) = Domain(d) /\ f.at < d.at
            => f \in q.todo \/ Domain(d) \in q.blocked

InStep(q, S) == Current(q, S) /\ Ordered(q, S)

OneVisits ==
    \A p, q \in Passes : pass[p].stage = "visiting" /\ pass[q].stage = "visiting" => p = q

InTurn == raced \/ (OneVisits /\ \A p \in Passes : InStep(pass[p], box))

TurnInv == QueueInv /\ QueueSound /\ InTurn

(* What a step of a pass has to show for the invariant: q is where the     *)
(* pass goes from here.                                                    *)
Moves(p, q) ==
    /\ Proceeds(p, q)
    /\ PassSound(q)
    /\ \A e \in box' : EntrySound(e)
    /\ ~raced' => ~raced
    /\ ~raced' /\ InStep(pass[p], box) => InStep(q, box')
    /\ box' \subseteq box \/ pass[p].stage = "visiting"
    /\ q.stage = "visiting" =>
          \/ pass[p].stage = "visiting"
          \/ raced'
          \/ \A r \in Passes \ {p} : pass[r].stage # "visiting"

LEMMA SubsetInStep ==
    ASSUME NEW q, NEW S, NEW T, T \subseteq S, InStep(q, S)
    PROVE  InStep(q, T)
BY DEF InStep, Current, Ordered

LEMMA NothingInStep ==
    ASSUME NEW q, Visited(q) = {}, NEW S
    PROVE  InStep(q, S)
BY DEF InStep, Current, Ordered, Visited

LEMMA PassFields ==
    ASSUME QueueInv, QueueSound, NEW p \in Passes
    PROVE  /\ pass[p] \in Pass /\ PassOK(pass[p]) /\ PassSound(pass[p])
           /\ \A e \in Visited(pass[p]) : e \in Entry /\ IsRetryable(e) /\ EntrySound(e)
           /\ BoxOK(box) /\ \A e \in box : e \in Entry /\ EntrySound(e)
           /\ pass \in [Passes -> Pass]
BY DEF QueueInv, QueueTypeOK, BoxOK, PassesOK, PassOK, Pass, Visited, QueueSound, PassSound

LEMMA MovesKeepTurn ==
    ASSUME TurnInv, NEW p \in Passes, NEW q, Moves(p, q), up, UNCHANGED up, QueueInv'
    PROVE  TurnInv'
<1>0. pass' = [pass EXCEPT ![p] = q] /\ pass \in [Passes -> Pass]
  BY PassFields DEF TurnInv, Moves, Proceeds
<1>1. pass'[p] = q /\ \A r \in Passes : r # p => pass'[r] = pass[r]
  BY <1>0
<1>2. QueueSound'
  <2>1. \A r \in Passes : PassSound(pass[r])'
    BY <1>1 DEF TurnInv, QueueSound, Moves, PassSound, EntrySound, Visited, IsRetryable, Domain,
                OneEntryPerWrite
  <2>2. \A e \in box' : EntrySound(e)'
    BY DEF Moves, EntrySound, IsRetryable, Domain
  <2> QED
    BY <2>1, <2>2 DEF QueueSound
<1>3. InTurn'
  <2> SUFFICES ASSUME ~raced' PROVE OneVisits' /\ \A r \in Passes : InStep(pass'[r], box')
    BY DEF InTurn, InStep, Current, Ordered, Visited, IsRetryable, Domain, Waits
  <2>1. ~raced /\ OneVisits /\ \A r \in Passes : InStep(pass[r], box)
    BY DEF Moves, TurnInv, InTurn
  <2>2. OneVisits'
    BY <1>1, <2>1 DEF OneVisits, Moves
  <2>3. ASSUME NEW r \in Passes PROVE InStep(pass'[r], box')
    <3>1. CASE r = p
      BY <3>1, <1>1, <2>1 DEF Moves
    <3>2. CASE r # p /\ box' \subseteq box
      BY <3>2, <1>1, <2>1, SubsetInStep
    <3>3. CASE r # p /\ pass[p].stage = "visiting"
      <4>1. pass[r].stage # "visiting"
        BY <3>3, <2>1 DEF OneVisits
      <4>2. Visited(pass[r]) = {}
        BY <4>1 DEF TurnInv, QueueSound, PassSound
      <4> QED BY <4>2, <3>3, <1>1, NothingInStep
    <3> QED BY <3>1, <3>2, <3>3 DEF Moves
  <2> QED BY <2>2, <2>3
<1> QED
  BY <1>2, <1>3 DEF TurnInv

(* The steps of a pass that visits nothing afterwards.                     *)
LEMMA MovesQuietly ==
    ASSUME QueueInv, QueueSound, NEW p \in Passes, NEW q, Proceeds(p, q),
           q.stage # "visiting", Visited(q) = {}, box' \subseteq box, UNCHANGED raced
    PROVE  Moves(p, q)
<1>1. PassSound(q)
  BY DEF PassSound, Visited, OneEntryPerWrite
<1>2. \A e \in box' : EntrySound(e)
  BY DEF QueueSound
<1>3. InStep(q, box')
  BY NothingInStep
<1> QED
  BY <1>1, <1>2, <1>3 DEF Moves

LEMMA RestMoves ==
    ASSUME QueueInv, QueueSound, NEW p \in Passes,
           SyncPending(p) \/ StayOffline(p) \/ FlushEnd(p) \/ Cleanup(p)
    PROVE  \E q : Moves(p, q)
<1> DEFINE was == pass[p]
<1>p. was \in Pass
  BY PassFields
<1>1. CASE SyncPending(p)
  <2> DEFINE q == [Idle EXCEPT !.stage = "asking"]
  <2>1. Proceeds(p, q) /\ box' = box /\ raced' = raced
    BY <1>1 DEF SyncPending
  <2>2. q.stage # "visiting" /\ Visited(q) = {}
    BY DEF Idle, Visited
  <2> QED BY <2>1, <2>2, MovesQuietly
<1>2. CASE StayOffline(p) \/ PassEnd(p)
  <2>1. Proceeds(p, Idle) /\ box' = box /\ raced' = raced
    BY <1>2 DEF StayOffline, PassEnd, Cleans
  <2>2. Idle.stage # "visiting" /\ Visited(Idle) = {}
    BY DEF Idle, Visited
  <2> QED BY <2>1, <2>2, MovesQuietly
<1>3. CASE FlushEnd(p) \/ CleanupTrim(p)
  <2>0. PICK s \in {"cleaning", "trimming"} : \E D :
           Proceeds(p, [Idle EXCEPT !.stage = s, !.doomed = D]) /\ box' = box /\ raced' = raced
    BY <1>3 DEF FlushEnd, CleanupTrim, Cleans
  <2>1. PICK D :
           Proceeds(p, [Idle EXCEPT !.stage = s, !.doomed = D]) /\ box' = box /\ raced' = raced
    BY <2>0
  <2> DEFINE q == [Idle EXCEPT !.stage = s, !.doomed = D]
  <2>2. q.stage # "visiting" /\ Visited(q) = {}
    BY DEF Idle, Visited
  <2> QED BY <2>1, <2>2, MovesQuietly
<1>4. CASE CleanupDelete(p)
  <2>1. PICK w \in was.doomed :
           Proceeds(p, [was EXCEPT !.doomed = @ \ {w}]) /\ box' \subseteq box /\ raced' = raced
    BY <1>4 DEF CleanupDelete, Cleans
  <2> DEFINE q == [was EXCEPT !.doomed = @ \ {w}]
  <2>2. q.stage = was.stage /\ q.todo = was.todo /\ q.current = was.current /\ q.blocked = was.blocked
    BY <1>p DEF Pass
  <2>3. Proceeds(p, q)
    BY <2>1
  <2> HIDE DEF q
  <2>4. PassSound(q)
    BY <2>2, PassFields DEF PassSound, Visited
  <2>5. InStep(was, box) => InStep(q, box)
    BY <2>2 DEF InStep, Current, Ordered, Visited
  <2>6. InStep(was, box) => InStep(q, box')
    BY <2>5, <2>1, SubsetInStep
  <2> QED BY <2>1, <2>2, <2>3, <2>4, <2>6 DEF Moves, QueueSound
<1> QED
  BY <1>1, <1>2, <1>3, <1>4 DEF Cleanup

(* A pass begins: it lists what waits in the box as the box has it.        *)
LEMMA FlushStartMoves ==
    ASSUME QueueInv, QueueSound, NEW p \in Passes, FlushStart(p)
    PROVE  \E q : Moves(p, q)
<1> DEFINE T == {e \in box : IsPending(e)}
           q == [Idle EXCEPT !.stage = "visiting", !.todo = T]
<1>1. Proceeds(p, q) /\ box' = box
  BY DEF FlushStart
<1>2. q.stage = "visiting" /\ q.todo = T /\ q.current = {} /\ q.blocked = {}
  BY DEF Idle
<1> HIDE DEF q
<1>3. \A e \in T : e \in box /\ IsRetryable(e) /\ EntrySound(e)
  BY DEF IsPending, QueueSound
<1>4. OneEntryPerWrite(T)
  BY <1>3 DEF QueueInv, OneEntryPerWrite
<1>5. PassSound(q)
  BY <1>2, <1>3, <1>4 DEF PassSound, Visited
<1>6. \A f \in box : Waits(f) => f \in T
  BY DEF Waits, QueueSound, EntrySound, Unsent, IsPending
<1>7. Current(q, box)
  BY <1>2, <1>3 DEF Current, Visited, QueueInv, OneEntryPerWrite
<1>8. Ordered(q, box)
  BY <1>2, <1>6 DEF Ordered
<1>9. /\ ~raced' => ~raced
      /\ raced' \/ \A r \in Passes \ {p} : pass[r].stage # "visiting"
  BY DEF FlushStart
<1> QED
  BY <1>1, <1>2, <1>5, <1>7, <1>8, <1>9 DEF Moves, InStep, QueueSound

(* An entry passed over: in a domain held back, or that is held back now   *)
(* for this entry's backoff.                                               *)
LEMMA PassedOverMoves ==
    ASSUME QueueInv, QueueSound, NEW p \in Passes, FlushSkip(p) \/ FlushBackoff(p)
    PROVE  \E q : Moves(p, q)
<1> DEFINE was == pass[p]
<1>p. was \in Pass /\ PassSound(was)
  BY PassFields
<1>d. \A e \in was.todo : Domain(e) \in Domains
  BY PassFields, DomainType DEF Visited
<1>1. PICK e \in was.todo, B \in SUBSET Domains :
         /\ Proceeds(p, [was EXCEPT !.todo = @ \ {e}, !.blocked = B])
         /\ was.blocked \subseteq B /\ Domain(e) \in B
         /\ was.stage = "visiting" /\ box' = box /\ raced' = raced
  <2>1. CASE FlushSkip(p)
    <3>1. PICK e \in was.todo :
             /\ Proceeds(p, [was EXCEPT !.todo = @ \ {e}]) /\ Visits(p, e) /\ IsBlocked(p, e) /\ box' = box
      BY <2>1 DEF FlushSkip
    <3>2. [was EXCEPT !.todo = @ \ {e}] = [was EXCEPT !.todo = @ \ {e}, !.blocked = was.blocked]
      BY <1>p DEF Pass
    <3>3. /\ Domain(e) \in was.blocked /\ was.stage = "visiting" /\ raced' = raced
          /\ was.blocked \in SUBSET Domains
      BY <3>1, <1>p DEF IsBlocked, Visits, Pass
    <3> QED BY <3>1, <3>2, <3>3
  <2>2. CASE FlushBackoff(p)
    <3>1. PICK e \in was.todo :
             /\ Proceeds(p, [was EXCEPT !.todo = @ \ {e}, !.blocked = @ \cup {Domain(e)}])
             /\ Visits(p, e) /\ box' = box
      BY <2>2 DEF FlushBackoff
    <3> DEFINE B == was.blocked \cup {Domain(e)}
    <3>2. Proceeds(p, [was EXCEPT !.todo = @ \ {e}, !.blocked = B])
      BY <3>1
    <3>3. was.stage = "visiting" /\ raced' = raced /\ B \in SUBSET Domains
      BY <3>1, <1>p, <1>d DEF Visits, Pass
    <3> QED BY <3>1, <3>2, <3>3
  <2> QED BY <2>1, <2>2
<1> DEFINE q == [was EXCEPT !.todo = @ \ {e}, !.blocked = B]
<1>2. q.stage = was.stage /\ q.todo = was.todo \ {e} /\ q.current = was.current /\ q.blocked = B
  BY <1>p DEF Pass
<1>3. Proceeds(p, q)
  BY <1>1
<1> HIDE DEF q
<1>4. PassSound(q)
  BY <1>p, <1>1, <1>2 DEF PassSound, Visited, OneEntryPerWrite
<1>5. Current(was, box) => Current(q, box)
  BY <1>2 DEF Current, Visited
<1>6. Ordered(was, box) => Ordered(q, box)
  BY <1>1, <1>2 DEF Ordered
<1> QED
  BY <1>1, <1>2, <1>3, <1>4, <1>5, <1>6 DEF Moves, QueueSound, InStep

(* An entry is written back in another status, off the list: in replay, or *)
(* failed because nothing can replay it.                                   *)
LEMMA WrittenMoves ==
    ASSUME QueueInv, QueueSound, NEW p \in Passes, NEW e \in Visited(pass[p]), NEW x, NEW B,
           pass[p].stage = "visiting", UNCHANGED raced,
           x.id = e.id, EntrySound(x), Waits(x) => Domain(x) \in B,
           NEW C, C = {} \/ (C = {x} /\ IsRetryable(x) /\ Domain(x) \in Adapters),
           NEW T, T = pass[p].todo \ {e}, pass[p].current \subseteq {e}, pass[p].blocked \subseteq B,
           box' = Upsert(box, x),
           Proceeds(p, [pass[p] EXCEPT !.todo = T, !.current = C, !.blocked = B])
    PROVE  \E q : Moves(p, q)
<1> DEFINE was == pass[p]
           q == [was EXCEPT !.todo = T, !.current = C, !.blocked = B]
<1>p. was \in Pass /\ PassSound(was)
  BY PassFields
<1>1. q.stage = was.stage /\ q.todo = T /\ q.current = C /\ q.blocked = B
  BY <1>p DEF Pass
<1>2. Proceeds(p, q)
  OBVIOUS
<1> HIDE DEF q
<1>3. \A d \in T : d \in was.todo /\ d.id # x.id
  BY <1>p DEF PassSound, OneEntryPerWrite, Visited
<1>4. PassSound(q)
  <2>1. \A d \in Visited(q) : d = x \/ d \in T
    BY <1>1 DEF Visited
  <2>2. \A d \in Visited(q) : EntrySound(d)
    BY <2>1, <1>3, <1>p DEF PassSound, Visited
  <2>3. OneEntryPerWrite(Visited(q))
    BY <2>1, <1>3, <1>p DEF PassSound, OneEntryPerWrite, Visited
  <2>4. \A d \in T, c \in C : d.id # c.id
    BY <1>3
  <2> QED BY <1>1, <2>2, <2>3, <2>4 DEF PassSound
<1>5. \A f \in box' : f = x \/ (f \in box /\ f.id # x.id)
  BY DEF Upsert
<1>6. \A f \in box' : EntrySound(f)
  BY <1>5 DEF QueueSound
<1>7. Current(was, box) => Current(q, box')
  <2> SUFFICES ASSUME Current(was, box), NEW d \in Visited(q), NEW f \in box', f.id = d.id
               PROVE  IsRetryable(f)
    BY DEF Current
  <2>1. CASE d \in T
    <3>1. f \in box /\ d \in Visited(was)
      BY <2>1, <1>3, <1>5 DEF Visited
    <3> QED BY <3>1 DEF Current
  <2>2. CASE C = {x} /\ d = x
    BY <2>2, <1>5
  <2> QED BY <2>1, <2>2, <1>1 DEF Visited
<1>8. Ordered(was, box) => Ordered(q, box')
  <2> SUFFICES ASSUME Ordered(was, box), NEW d \in T, NEW f \in box', Waits(f), Domain(f) = Domain(d),
                      f.at < d.at
               PROVE  f \in T \/ Domain(d) \in B
    BY <1>1 DEF Ordered
  <2>1. CASE f = x
    BY <2>1
  <2>2. CASE f \in box /\ f.id # x.id
    <3>1. f \in was.todo \/ Domain(d) \in was.blocked
      BY <2>2, <1>3 DEF Ordered
    <3> QED BY <3>1, <2>2
  <2> QED BY <2>1, <2>2, <1>5
<1> QED
  BY <1>1, <1>2, <1>4, <1>6, <1>7, <1>8 DEF Moves, InStep

LEMMA NoAdapterMoves ==
    ASSUME QueueInv, QueueSound, NEW p \in Passes, FlushNoAdapter(p)
    PROVE  \E q : Moves(p, q)
<1> DEFINE was == pass[p]
<1>p. was \in Pass
  BY PassFields
<1>1. PICK e \in was.todo :
         /\ Visits(p, e) /\ Domain(e) \notin Adapters
         /\ Proceeds(p, [was EXCEPT !.todo = @ \ {e}])
         /\ box' = Upsert(box, [e EXCEPT !.status = "failed"])
  BY DEF FlushNoAdapter
<1> DEFINE x == [e EXCEPT !.status = "failed"]
           T == was.todo \ {e}
<1>2. e \in Entry /\ IsRetryable(e) /\ EntrySound(e) /\ e \in Visited(was)
  BY PassFields DEF Visited
<1>3. x.id = e.id /\ x.status = "failed" /\ x.retry = e.retry
  BY <1>2 DEF Entry
<1>4. was.stage = "visiting" /\ was.current = {} /\ raced' = raced
  BY <1>1 DEF Visits
<1>5. [was EXCEPT !.todo = @ \ {e}] = [was EXCEPT !.todo = T, !.current = {}, !.blocked = was.blocked]
  BY <1>p, <1>4 DEF Pass
<1>6. box' = Upsert(box, x) /\ Proceeds(p, [was EXCEPT !.todo = T, !.current = {}, !.blocked = was.blocked])
  BY <1>1, <1>5
<1> HIDE DEF x
<1>7. EntrySound(x) /\ ~Waits(x)
  BY <1>1, <1>2, <1>3 DEF EntrySound, Waits, Unsent, IsRetryable, Domain
<1> QED
  BY <1>2, <1>3, <1>4, <1>6, <1>7, WrittenMoves

LEMMA FlushSendMoves ==
    ASSUME QueueInv, QueueSound, NEW p \in Passes, NEW w \in Writes, FlushSend(p, w)
    PROVE  \E q : Moves(p, q)
<1> DEFINE was == pass[p]
<1>p. was \in Pass
  BY PassFields
<1>1. PICK e \in was.todo :
         /\ Visits(p, e) /\ Domain(e) \in Adapters
         /\ Proceeds(p, [was EXCEPT !.todo = @ \ {e}, !.current = {[e EXCEPT !.status = "syncing"]}])
         /\ box' = Upsert(box, [e EXCEPT !.status = "syncing"])
  BY DEF FlushSend
<1> DEFINE x == [e EXCEPT !.status = "syncing"]
           T == was.todo \ {e}
           C == {x}
<1>2. e \in Entry /\ IsRetryable(e) /\ EntrySound(e) /\ e \in Visited(was)
  BY PassFields DEF Visited
<1>3. x.id = e.id /\ x.status = "syncing" /\ x.retry = e.retry
  BY <1>2 DEF Entry
<1>4. was.stage = "visiting" /\ was.current = {} /\ raced' = raced
  BY <1>1 DEF Visits
<1>5. [was EXCEPT !.todo = T, !.current = C] = [was EXCEPT !.todo = T, !.current = C, !.blocked = was.blocked]
  BY <1>p DEF Pass
<1>6. /\ box' = Upsert(box, x)
      /\ Proceeds(p, [was EXCEPT !.todo = T, !.current = C, !.blocked = was.blocked])
  BY <1>1, <1>5
<1> HIDE DEF x
<1>7. EntrySound(x) /\ ~Waits(x) /\ IsRetryable(x) /\ Domain(x) \in Adapters
  BY <1>1, <1>2, <1>3 DEF EntrySound, Waits, Unsent, IsRetryable, Domain
<1> QED
  BY <1>2, <1>3, <1>4, <1>6, <1>7, WrittenMoves

(* How the entry in replay is written back: sent, failed for good, or      *)
(* waiting with its domain held back.                                      *)
LEMMA ReplayAnsweredAs ==
    ASSUME QueueInv, QueueSound, NEW p \in Passes, ReplayAnswered(p)
    PROVE  \E e \in pass[p].current : \E s \in Status, n \in 0 .. MaxRetry, held \in SUBSET Domains :
              /\ Answered(p, [e EXCEPT !.status = s, !.retry = n], held)
              /\ \/ s = "synced" /\ n = 0
                 \/ s = "failed" /\ n = MaxRetry
                 \/ s = "pending" /\ n < MaxRetry /\ held = {Domain(e)}
<1>e. \A e \in pass[p].current : e \in Entry /\ IsRetryable(e) /\ Domain(e) \in Domains
  BY PassFields, DomainType DEF Visited
<1> DEFINE As(e, s, n, held) ==
              /\ Answered(p, [e EXCEPT !.status = s, !.retry = n], held)
              /\ \/ s = "synced" /\ n = 0
                 \/ s = "failed" /\ n = MaxRetry
                 \/ s = "pending" /\ n < MaxRetry /\ held = {Domain(e)}
<1> SUFFICES \E e \in pass[p].current : \E s \in Status, n \in 0 .. MaxRetry, held \in SUBSET Domains :
               As(e, s, n, held)
  OBVIOUS
<1>1. CASE ReplaySucceeded(p)
  <2>1. PICK e \in pass[p].current : Answered(p, [e EXCEPT !.status = "synced", !.retry = 0], {})
    BY <1>1 DEF ReplaySucceeded
  <2>2. As(e, "synced", 0, {})
    BY <2>1
  <2> HIDE DEF As
  <2> QED BY <2>2, Constants
<1>2. CASE ReplayConflict(p)
  <2>1. PICK e \in pass[p].current : Answered(p, [e EXCEPT !.status = "failed", !.retry = MaxRetry], {})
    BY <1>2 DEF ReplayConflict
  <2>2. As(e, "failed", MaxRetry, {})
    BY <2>1
  <2> HIDE DEF As
  <2> QED BY <2>2, Constants
<1>3. CASE ReplayFailed(p)
  <2>1. PICK e \in pass[p].current :
           LET terminal == e.retry + 1 >= MaxRetry
           IN  Answered(p, [e EXCEPT !.status = IF terminal THEN "failed" ELSE "pending",
                                     !.retry = @ + 1],
                        IF terminal THEN {} ELSE {Domain(e)})
    BY <1>3 DEF ReplayFailed
  <2> DEFINE n == e.retry + 1
  <2>2. n \in 0 .. MaxRetry /\ MaxRetry \in Nat
    BY <1>e, QueueAssumption DEF Entry, IsRetryable
  <2>3. CASE n >= MaxRetry
    <3>1. n = MaxRetry
      BY <2>2, <2>3
    <3>2. Answered(p, [e EXCEPT !.status = "failed", !.retry = n], {})
      BY <2>1, <2>3
    <3>3. As(e, "failed", n, {})
      BY <3>1, <3>2
    <3> HIDE DEF As, n
    <3> QED BY <2>2, <3>3, Constants
  <2>4. CASE ~(n >= MaxRetry)
    <3>1. n < MaxRetry
      BY <2>2, <2>4
    <3>2. Answered(p, [e EXCEPT !.status = "pending", !.retry = n], {Domain(e)})
      BY <2>1, <2>4
    <3>3. As(e, "pending", n, {Domain(e)})
      BY <3>1, <3>2
    <3> HIDE DEF As, n
    <3> QED BY <1>e, <2>2, <3>3, Constants
  <2> QED BY <2>3, <2>4
<1> QED
  BY <1>1, <1>2, <1>3 DEF ReplayAnswered

LEMMA ReplayMoves ==
    ASSUME QueueInv, QueueSound, NEW p \in Passes, ReplayAnswered(p)
    PROVE  \E q : Moves(p, q)
<1> DEFINE was == pass[p]
<1>p. was \in Pass /\ PassOK(was) /\ PassSound(was)
  BY PassFields
<1>1. PICK e \in was.current : \E s \in Status, n \in 0 .. MaxRetry, held \in SUBSET Domains :
         /\ Answered(p, [e EXCEPT !.status = s, !.retry = n], held)
         /\ \/ s = "synced" /\ n = 0
            \/ s = "failed" /\ n = MaxRetry
            \/ s = "pending" /\ n < MaxRetry /\ held = {Domain(e)}
  BY ReplayAnsweredAs
<1>2. PICK s \in Status, n \in 0 .. MaxRetry, held \in SUBSET Domains :
         /\ Answered(p, [e EXCEPT !.status = s, !.retry = n], held)
         /\ \/ s = "synced" /\ n = 0
            \/ s = "failed" /\ n = MaxRetry
            \/ s = "pending" /\ n < MaxRetry /\ held = {Domain(e)}
  BY <1>1
<1> DEFINE x == [e EXCEPT !.status = s, !.retry = n]
           T == was.todo \ {e}
           B == was.blocked \cup held
<1>3. e \in Entry /\ IsRetryable(e) /\ EntrySound(e) /\ e \in Visited(was) /\ Domain(e) \in Adapters
  BY PassFields DEF Visited, PassSound
<1>4. x.id = e.id /\ x.status = s /\ x.retry = n
  BY <1>3 DEF Entry
<1>5. box' = Upsert(box, x) /\ raced' = raced
      /\ Proceeds(p, [was EXCEPT !.current = {}, !.blocked = @ \cup held])
  BY <1>2 DEF Answered
<1> HIDE DEF x
<1>6. was.current \subseteq {e} /\ was.stage = "visiting"
  BY <1>p DEF PassOK
<1>7. T = was.todo \ {e} /\ was.blocked \subseteq B
  OBVIOUS
<1>8. EntrySound(x) /\ (Waits(x) => Domain(x) \in B)
  BY <1>2, <1>3, <1>4, QueueAssumption DEF EntrySound, Waits, Unsent, IsRetryable, Domain
<1>9. Proceeds(p, [was EXCEPT !.todo = T, !.current = {}, !.blocked = B])
  <2>1. T = was.todo
    BY <1>p DEF PassSound
  <2>2. [was EXCEPT !.current = {}, !.blocked = @ \cup held]
          = [was EXCEPT !.todo = T, !.current = {}, !.blocked = B]
    BY <1>p, <2>1 DEF Pass
  <2> QED BY <1>5, <2>2
<1> HIDE DEF T, B
<1> QED
  BY <1>3, <1>4, <1>5, <1>6, <1>7, <1>8, <1>9, WrittenMoves

LEMMA PassStepKeepsTurn ==
    ASSUME TurnInv, NEW p \in Passes, PassStep(p), QueueInv'
    PROVE  TurnInv'
<1>0. QueueInv /\ QueueSound
  BY DEF TurnInv
<1>1. \E q : Moves(p, q)
  BY <1>0, RestMoves, FlushStartMoves, PassedOverMoves, NoAdapterMoves, FlushSendMoves, ReplayMoves
     DEF PassStep, PassLocal
<1>2. up' = up
  BY <1>0, PassStepFrame
<1>3. up
  <2> SUFFICES ASSUME ~up PROVE FALSE
    OBVIOUS
  <2>1. pass[p] = Idle
    BY <1>0 DEF QueueSound
  <2>2. /\ pass[p].stage = "idle" /\ pass[p].todo = {} /\ pass[p].current = {} /\ pass[p].doomed = {}
    BY <2>1 DEF Idle
  <2> QED
    BY <2>2 DEF PassStep, PassLocal, SyncPending, StayOffline, FlushStart, FlushSkip, FlushBackoff,
       FlushNoAdapter, FlushSend, ReplayAnswered, ReplaySucceeded, ReplayConflict, ReplayFailed,
       FlushEnd, Cleanup, CleanupDelete, CleanupTrim, PassEnd
<1> QED
  BY <1>1, <1>2, <1>3, MovesKeepTurn

(* Steps of the helper and of the user: what they write starts over at     *)
(* retry 0, so it is no news to any pass.                                  *)
LEMMA StartsOverKeepsTurn ==
    ASSUME TurnInv, QueueInv', UNCHANGED <<pass, raced, up>>,
           \A f \in box' : f \in box \/ f.retry = 0
    PROVE  TurnInv'
<1>1. \A f \in box' : f.retry = 0 => EntrySound(f) /\ IsRetryable(f) /\ ~Waits(f)
  BY QueueAssumption DEF EntrySound, IsRetryable, Waits
<1>2. \A f \in box' : EntrySound(f)
  BY <1>1 DEF TurnInv, QueueSound
<1>3. QueueSound'
  BY <1>2 DEF TurnInv, QueueSound, PassSound, EntrySound, Visited, IsRetryable, Domain, OneEntryPerWrite
<1>4. ASSUME NEW p \in Passes, InStep(pass[p], box) PROVE InStep(pass'[p], box')
  BY <1>1, <1>4 DEF InStep, Current, Ordered
<1>5. InTurn'
  BY <1>4 DEF TurnInv, InTurn, OneVisits, InStep, Current, Ordered, Visited, IsRetryable, Domain, Waits
<1> QED
  BY <1>3, <1>5 DEF TurnInv

LEMMA CallingKeepsTurn ==
    ASSUME TurnInv, NEW w \in Writes, Calling(w), QueueInv'
    PROVE  TurnInv'
<1>1. UNCHANGED <<pass, raced, up>>
  BY DEF Calling, CallOffline, CallOnline, DirectAnswered, DirectFailed, Calls, passVars
<1>2. \A f \in box' : f \in box \/ f.retry = 0
  <2>1. ASSUME NEW k, Enqueue(w, k) PROVE \A f \in box' : f \in box \/ f.retry = 0
    <3> DEFINE x == [id |-> w, key |-> k, status |-> "pending", retry |-> 0, at |-> clock]
    <3>1. box' = Upsert(box, x) /\ x.retry = 0
      BY <2>1 DEF Enqueue
    <3> HIDE DEF x
    <3> QED BY <3>1 DEF Upsert
  <2>2. CASE CallOffline(w) \/ DirectFailed(w)
    BY <2>1, <2>2 DEF CallOffline, DirectFailed
  <2>3. CASE CallOnline(w) \/ DirectAnswered(w, "acked") \/ DirectAnswered(w, "refused")
    BY <2>3 DEF CallOnline, DirectAnswered
  <2> QED BY <2>2, <2>3 DEF Calling
<1> QED
  BY <1>1, <1>2, StartsOverKeepsTurn

LEMMA UserStepKeepsTurn ==
    ASSUME TurnInv, UserStep, QueueInv'
    PROVE  TurnInv'
<1>1. UNCHANGED <<pass, raced, up>>
  BY DEF UserStep, RetryEntry, RetryFailedEntries, DeleteEntry, Logout, LogoutClears, Login, Taps, passVars
<1>2. \A f \in box' : f \in box \/ f.retry = 0
  <2>e. \A e \in box : e \in Entry /\ EntrySound(e)
    BY DEF TurnInv, QueueInv, QueueTypeOK, QueueSound
  <2>1. CASE RetryEntry
    <3>1. PICK e \in box : box' = Upsert(box, [e EXCEPT !.status = "pending", !.retry = 0])
      BY <2>1 DEF RetryEntry
    <3> DEFINE x == [e EXCEPT !.status = "pending", !.retry = 0]
    <3>2. x.retry = 0 /\ box' = Upsert(box, x)
      BY <2>e, <3>1 DEF Entry
    <3> HIDE DEF x
    <3> QED BY <3>2 DEF Upsert
  <2>2. CASE RetryFailedEntries
    <3>1. ASSUME NEW f \in box' PROVE f \in box \/ f.retry = 0
      <4>1. PICK e \in box : f = IF e.status = "failed" /\ IsRetryable(e)
                                 THEN [e EXCEPT !.status = "pending"] ELSE e
        BY <2>2 DEF RetryFailedEntries
      <4>2. CASE e.status = "failed" /\ IsRetryable(e)
        <5>1. e.retry = 0 /\ e \in Entry
          BY <2>e, <4>2 DEF EntrySound
        <5> QED BY <4>1, <4>2, <5>1 DEF Entry
      <4>3. CASE ~(e.status = "failed" /\ IsRetryable(e))
        BY <4>1, <4>3
      <4> QED BY <4>2, <4>3
    <3> QED BY <3>1
  <2>3. CASE DeleteEntry \/ Logout \/ LogoutClears \/ Login
    BY <2>3 DEF DeleteEntry, Logout, LogoutClears, Login
  <2> QED BY <2>1, <2>2, <2>3 DEF UserStep
<1> QED
  BY <1>1, <1>2, StartsOverKeepsTurn

LEMMA IdleTurn ==
    ASSUME QueueInv, \A p \in Passes : pass[p] = Idle, \A e \in box : EntrySound(e)
    PROVE  TurnInv
<1>1. Visited(Idle) = {} /\ Idle.current = {} /\ Idle.todo = {} /\ Idle.stage = "idle"
  BY DEF Visited, Idle
<1>2. PassSound(Idle) /\ InStep(Idle, box)
  BY <1>1, NothingInStep DEF PassSound, OneEntryPerWrite
<1> QED
  BY <1>1, <1>2 DEF TurnInv, QueueSound, InTurn, OneVisits

LEMMA RecoveredSound ==
    ASSUME NEW e \in Entry, EntrySound(e)
    PROVE  EntrySound(Recovered(e))
<1>1. CASE e.status # "syncing"
  BY <1>1 DEF Recovered
<1>2. CASE e.status = "syncing"
  <2>1. IsRetryable(e)
    BY <1>2 DEF EntrySound, Unsent
  <2>2. Recovered(e).id = e.id
    BY RecoveredType
  <2>3. \/ Recovered(e).status = "pending" /\ Recovered(e).retry = e.retry
        \/ Recovered(e).status = "failed" /\ Recovered(e).retry = MaxRetry
    BY <1>2 DEF Recovered, Entry
  <2> HIDE DEF Recovered
  <2> QED
    BY <1>2, <2>1, <2>2, <2>3, QueueAssumption DEF EntrySound, Unsent, IsRetryable, Domain
<1> QED
  BY <1>1, <1>2

LEMMA TurnInit == QueueInit => TurnInv
<1> SUFFICES ASSUME QueueInit PROVE TurnInv
  OBVIOUS
<1>1. \A p \in Passes : pass[p] = Idle
  BY DEF QueueInit
<1>2. \A e \in box : e.retry = 0
  <2>1. PICK s \in [Legacy -> Unsent], n \in [Legacy -> 0 .. Cardinality(Legacy) - 1] :
           box = {LegacyEntry(w, s[w], n[w]) : w \in Legacy}
    BY DEF QueueInit
  <2> QED BY <2>1 DEF LegacyEntry
<1>3. \A e \in box : EntrySound(e)
  BY <1>2, QueueAssumption DEF EntrySound, IsRetryable
<1> QED
  BY <1>1, <1>3, QueueInvInit, IdleTurn

LEMMA TurnStep == TurnInv /\ [QueueNext]_queueVars => TurnInv'
<1> SUFFICES ASSUME TurnInv, [QueueNext]_queueVars PROVE TurnInv'
  OBVIOUS
<1>0. QueueInv /\ QueueInv' /\ QueueSound
  BY QueueNextKeepsInv DEF TurnInv
<1>e. \A e \in box : e \in Entry /\ EntrySound(e)
  BY <1>0 DEF QueueInv, QueueTypeOK, QueueSound
<1>1. CASE Initialize
  <2>1. pass' = pass /\ ~up /\ box' \subseteq {Recovered(e) : e \in box}
    BY <1>1, CleanedSubset DEF Initialize, passVars
  <2>2. \A p \in Passes : pass'[p] = Idle
    BY <1>0, <2>1 DEF QueueSound
  <2>3. \A f \in box' : EntrySound(f)
    BY <1>e, <2>1, RecoveredSound
  <2>4. (\A p \in Passes : pass[p] = Idle)' /\ (\A e \in box : EntrySound(e))'
    BY <2>2, <2>3 DEF EntrySound, IsRetryable, Domain
  <2> QED
    BY <1>0, <2>4, IdleTurn, PTL
<1>2. CASE Kill
  <2>1. box' = box /\ \A p \in Passes : pass'[p] = Idle
    BY <1>2 DEF Kill
  <2>2. (\A p \in Passes : pass[p] = Idle)' /\ (\A e \in box : EntrySound(e))'
    BY <1>e, <2>1 DEF EntrySound, IsRetryable, Domain
  <2> QED
    BY <1>0, <2>2, IdleTurn, PTL
<1>3. ASSUME NEW w \in Writes, Calling(w) PROVE TurnInv'
  BY <1>0, <1>3, CallingKeepsTurn
<1>4. ASSUME NEW p \in Passes, PassStep(p) PROVE TurnInv'
  BY <1>0, <1>4, PassStepKeepsTurn
<1>5. CASE UserStep
  BY <1>0, <1>5, UserStepKeepsTurn
<1>6. CASE UNCHANGED queueVars
  BY <1>0, <1>6, StartsOverKeepsTurn DEF queueVars, passVars
<1> QED
  BY <1>1, <1>2, <1>3, <1>4, <1>5, <1>6 DEF QueueNext

-----------------------------------------------------------------------------
(* What the turn invariant says of a step *)

(* The only step that puts an entry in replay is FlushSend.                *)
LEMMA SentUnlessHeldBack ==
    ASSUME TurnInv, ~raced, NEW p \in Passes, NEW w \in Writes, FlushSend(p, w),
           NEW r \in Passes, NEW e \in pass'[r].current \ pass[r].current
    PROVE  ~Overtakes(e)
<1> DEFINE was == pass[p]
<1>0. QueueInv /\ QueueSound
  BY DEF TurnInv
<1>1. was \in Pass /\ pass \in [Passes -> Pass]
  BY <1>0, PassFields
<1>2. PICK d \in was.todo :
         /\ Visits(p, d) /\ ~IsBlocked(p, d)
         /\ Proceeds(p, [was EXCEPT !.todo = @ \ {d}, !.current = {[d EXCEPT !.status = "syncing"]}])
  BY DEF FlushSend
<1> DEFINE x == [d EXCEPT !.status = "syncing"]
           n == [was EXCEPT !.todo = @ \ {d}, !.current = {x}]
<1>3. d \in Entry /\ x.id = d.id /\ x.at = d.at
  BY <1>0, PassFields DEF Visited, Entry
<1>4. n.current = {x}
  BY <1>1 DEF Pass
<1>5. pass' = [pass EXCEPT ![p] = n]
  BY <1>2 DEF Proceeds
<1> HIDE DEF n
<1>6. e = x
  BY <1>1, <1>4, <1>5
<1> HIDE DEF x
<1> SUFFICES ASSUME NEW f \in box, Domain(f) = Domain(d), f.at < d.at, Waits(f)
             PROVE  FALSE
  BY <1>3, <1>6 DEF Overtakes, Waits, Domain
<1>7. f \in was.todo \/ Domain(d) \in was.blocked
  BY DEF TurnInv, InTurn, InStep, Ordered
<1>8. f \in was.todo
  BY <1>2, <1>7 DEF IsBlocked
<1>9. d.at <= f.at
  BY <1>2, <1>8 DEF Visits
<1>10. d.at \in Nat /\ f.at \in Nat
  BY <1>0, <1>3, PassFields DEF Entry
<1> QED
  BY <1>9, <1>10

NotOvertakenStep ==
    \A p \in Passes : \A e \in pass'[p].current \ pass[p].current : raced \/ ~Overtakes(e)

LEMMA TurnNotOvertaken == TurnInv /\ [QueueNext]_queueVars => NotOvertakenStep
<1> SUFFICES ASSUME TurnInv, [QueueNext]_queueVars, ~raced,
                    NEW r \in Passes, NEW e \in pass'[r].current \ pass[r].current
             PROVE  ~Overtakes(e)
  BY DEF NotOvertakenStep
<1>0. QueueInv /\ pass \in [Passes -> Pass]
  BY PassFields DEF TurnInv
<1> SUFFICES \E p \in Passes, w \in Writes : FlushSend(p, w)
  BY SentUnlessHeldBack
<1> SUFFICES ASSUME ~\E p \in Passes, w \in Writes : FlushSend(p, w)
             PROVE  pass'[r].current \subseteq pass[r].current
  OBVIOUS
<1>1. CASE pass' = pass
  BY <1>1
<1>2. CASE Kill
  BY <1>2 DEF Kill, Idle
<1>3. ASSUME NEW p \in Passes, PassLocal(p) PROVE pass'[r].current \subseteq pass[r].current
  BY <1>0, <1>3, PassLocalOK DEF CurrentKept
<1>4. ASSUME NEW p \in Passes, ReplayAnswered(p) PROVE pass'[r].current \subseteq pass[r].current
  <2>1. PICK B : pass' = [pass EXCEPT ![p] = [pass[p] EXCEPT !.current = {}, !.blocked = B]]
    BY <1>4 DEF Proceeds, ReplayAnswered, ReplaySucceeded, ReplayConflict, ReplayFailed, Answered
  <2> DEFINE n == [pass[p] EXCEPT !.current = {}, !.blocked = B]
  <2>2. n.current = {}
    BY <1>0 DEF Pass
  <2> HIDE DEF n
  <2>3. r = p => pass'[r].current = {}
    BY <1>0, <2>1, <2>2 DEF n
  <2>4. r # p => pass'[r] = pass[r]
    BY <1>0, <2>1
  <2> QED BY <2>3, <2>4
<1>5. CASE Initialize \/ UserStep \/ UNCHANGED queueVars
  BY <1>1, <1>5 DEF Initialize, UserStep, RetryEntry, RetryFailedEntries, DeleteEntry, Logout,
     LogoutClears, Login, Taps, passVars, queueVars
<1>6. ASSUME NEW w \in Writes, Calling(w) PROVE pass' = pass
  BY <1>6 DEF Calling, CallOffline, CallOnline, DirectAnswered, DirectFailed, Calls, passVars
<1> QED
  BY <1>1, <1>2, <1>3, <1>4, <1>5, <1>6 DEF QueueNext, PassStep

TerminalStep ==
    \A e \in box : ~raced /\ e.status = "failed" /\ ~IsRetryable(e) =>
        \A f \in box' : f.id = e.id => f = e \/ (f.status = "pending" /\ f.retry = 0)

LEMMA TurnTerminal == TurnInv /\ [QueueNext]_queueVars => TerminalStep
<1> SUFFICES ASSUME TurnInv, [QueueNext]_queueVars, ~raced,
                    NEW e \in box, e.status = "failed", ~IsRetryable(e),
                    NEW f \in box', f.id = e.id
             PROVE  f = e \/ (f.status = "pending" /\ f.retry = 0)
  BY DEF TerminalStep
<1>0. QueueInv /\ QueueSound /\ e \in Entry /\ \A g \in box : g.id = e.id => g = e
  BY DEF TurnInv, QueueInv, QueueTypeOK, OneEntryPerWrite
<1>1. CASE f \in box
  BY <1>0, <1>1
<1>2. ASSUME NEW x, box' = Upsert(box, x), x.id # e.id PROVE f = e
  BY <1>0, <1>2 DEF Upsert
<1>3. ASSUME NEW p \in Passes, NEW d \in Visited(pass[p]), NEW x, x.id = d.id, box' = Upsert(box, x)
      PROVE  f = e
  <2>1. d.id # e.id
    BY DEF TurnInv, InTurn, InStep, Current
  <2> QED BY <1>2, <1>3, <2>1
<1>4. CASE Initialize
  <2>1. PICK g \in box : f = Recovered(g)
    BY <1>4, CleanedSubset DEF Initialize
  <2>2. g \in Entry
    BY <1>0 DEF QueueInv, QueueTypeOK
  <2>3. g = e
    BY <1>0, <2>1, <2>2, RecoveredType
  <2> QED BY <2>1, <2>3 DEF Recovered
<1>5. ASSUME NEW w \in Writes, Calling(w) PROVE f = e \/ (f.status = "pending" /\ f.retry = 0)
  <2>1. ASSUME NEW k, Enqueue(w, k) PROVE f \in box \/ (f.status = "pending" /\ f.retry = 0)
    <3> DEFINE x == [id |-> w, key |-> k, status |-> "pending", retry |-> 0, at |-> clock]
    <3>1. box' = Upsert(box, x) /\ x.retry = 0 /\ x.status = "pending"
      BY <2>1 DEF Enqueue
    <3> HIDE DEF x
    <3> QED BY <3>1 DEF Upsert
  <2>2. CASE CallOffline(w) \/ DirectFailed(w)
    BY <1>1, <2>1, <2>2 DEF CallOffline, DirectFailed
  <2>3. CASE CallOnline(w) \/ DirectAnswered(w, "acked") \/ DirectAnswered(w, "refused")
    BY <1>1, <2>3 DEF CallOnline, DirectAnswered
  <2> QED BY <1>5, <2>2, <2>3 DEF Calling
<1>6. ASSUME NEW p \in Passes, PassStep(p) PROVE f = e
  <2>v. \A d \in Visited(pass[p]) : d \in Entry
    BY <1>0, PassFields
  <2>1. CASE FlushNoAdapter(p) \/ \E w \in Writes : FlushSend(p, w)
    <3>1. PICK d \in pass[p].todo, s \in Status : box' = Upsert(box, [d EXCEPT !.status = s])
      BY <2>1, Constants DEF FlushNoAdapter, FlushSend
    <3> DEFINE x == [d EXCEPT !.status = s]
    <3>2. d \in Visited(pass[p]) /\ x.id = d.id /\ box' = Upsert(box, x)
      BY <2>v, <3>1 DEF Visited, Entry
    <3> HIDE DEF x
    <3> QED BY <1>3, <3>2
  <2>2. CASE ReplayAnswered(p)
    <3>1. PICK d \in pass[p].current : \E s \in Status, n \in 0 .. MaxRetry :
             box' = Upsert(box, [d EXCEPT !.status = s, !.retry = n])
      BY <1>0, <2>2, ReplayAnsweredAs DEF Answered
    <3>2. PICK s \in Status, n \in 0 .. MaxRetry : box' = Upsert(box, [d EXCEPT !.status = s, !.retry = n])
      BY <3>1
    <3> DEFINE x == [d EXCEPT !.status = s, !.retry = n]
    <3>3. d \in Visited(pass[p]) /\ x.id = d.id /\ box' = Upsert(box, x)
      BY <2>v, <3>2 DEF Visited, Entry
    <3> HIDE DEF x
    <3> QED BY <1>3, <3>3
  <2>3. CASE SyncPending(p) \/ StayOffline(p) \/ FlushStart(p) \/ FlushSkip(p) \/ FlushBackoff(p)
               \/ FlushEnd(p) \/ Cleanup(p)
    <3>1. box' \subseteq box
      BY <2>3 DEF SyncPending, StayOffline, FlushStart, FlushSkip, FlushBackoff, FlushEnd, Cleanup,
         CleanupDelete, CleanupTrim, PassEnd
    <3> QED BY <1>0, <3>1
  <2> QED BY <1>6, <2>1, <2>2, <2>3 DEF PassStep, PassLocal
<1>7. CASE UserStep
  <2>1. CASE RetryEntry
    <3>1. PICK g \in box : box' = Upsert(box, [g EXCEPT !.status = "pending", !.retry = 0])
      BY <2>1 DEF RetryEntry
    <3> DEFINE x == [g EXCEPT !.status = "pending", !.retry = 0]
    <3>2. x.status = "pending" /\ x.retry = 0 /\ box' = Upsert(box, x)
      <4>1. g \in Entry
        BY <1>0 DEF QueueInv, QueueTypeOK
      <4> QED BY <3>1, <4>1 DEF Entry
    <3> HIDE DEF x
    <3> QED BY <1>1, <3>2 DEF Upsert
  <2>2. CASE RetryFailedEntries
    <3>1. PICK g \in box : f = IF g.status = "failed" /\ IsRetryable(g)
                               THEN [g EXCEPT !.status = "pending"] ELSE g
      BY <2>2 DEF RetryFailedEntries
    <3>2. g \in Entry
      BY <1>0 DEF QueueInv, QueueTypeOK
    <3>3. f.id = g.id
      BY <3>1, <3>2 DEF Entry
    <3>4. g = e
      BY <1>0, <3>3
    <3> QED BY <3>1, <3>4
  <2>3. CASE DeleteEntry \/ Logout \/ LogoutClears \/ Login
    BY <1>1, <2>3 DEF DeleteEntry, Logout, LogoutClears, Login
  <2> QED BY <1>7, <2>1, <2>2, <2>3 DEF UserStep
<1>8. CASE Kill \/ UNCHANGED queueVars
  BY <1>1, <1>8 DEF Kill, queueVars
<1> QED
  BY <1>4, <1>5, <1>6, <1>7, <1>8 DEF QueueNext

(* S3: as long as passes do not overlap, no write goes out while an        *)
(* earlier one of its domain waits for its next retry.                     *)
THEOREM NotOvertakenCorrect == QueueSpec => NotOvertakenInTurn
<1>1. TurnInv /\ [QueueNext]_queueVars => [NotOvertakenStep]_queueVars
  BY TurnNotOvertaken
<1> QED
  BY <1>1, TurnInit, TurnStep, PTL DEF QueueSpec, NotOvertakenInTurn, NotOvertakenStep

(* #1162: as long as passes do not overlap, what has failed for good stays *)
(* so until the user asks to retry it.                                     *)
THEOREM TerminalCorrect == QueueSpec => TerminalUntilRetried
<1>1. TurnInv /\ [QueueNext]_queueVars => [TerminalStep]_queueVars
  BY TurnTerminal
<1> QED
  BY <1>1, TurnInit, TurnStep, PTL DEF QueueSpec, TerminalUntilRetried, TerminalStep

-----------------------------------------------------------------------------
(* The server *)

(* The request that holds the reservation of its key.                      *)
Holds(a) == Deduped(a) /\ att[a].stage \in {"running", "decided"}

(* What the request wrote is, or may still be, in the database.            *)
Live(a) == att[a].tx \in {"open", "committed"}

(* A request the middleware has an answer for is one it dedupes, and a     *)
(* transaction exists from the handler's "ok" on.                          *)
RequestOK(a, q) ==
    /\ q.stage \in {"new", "sent", "running"} => q.tx = "none"
    /\ q.stage = "decided" => a[1] \in Creates /\ q.reply \in Decisions
    /\ q.stage = "decided" /\ q.tx # "none" => q.reply = "ok"
    /\ q.tx # "none" => q.reply \in {"ok", "error"}
    /\ q.stage \in {"running", "decided"} \/ q.tx # "none" => q.user # NoUser

RequestsOK == \A a \in Attempts : RequestOK(a, att[a])

HolderReserved == \A a \in Attempts : Holds(a) => idem[RowOf(a)] = "reserved"

OneHolder ==
    \A a, b \in Attempts : SameKey(a, b) /\ Holds(a) /\ Holds(b) => a = b

(* A live effect pins its row: reserved for good or stored as "ok", and    *)
(* no other request may hold it.                                           *)
LivePins ==
    \A a \in Attempts : Deduped(a) /\ Live(a) => idem[RowOf(a)] \in {"reserved", "ok"}

LiveExcludes ==
    \A a, b \in Attempts :
        SameKey(a, b) /\ Live(a) /\ (Holds(b) \/ Live(b)) => a = b

AnswerStored ==
    \A a \in Attempts :
        Deduped(a) /\ att[a].stage = "answered" /\ att[a].reply \in Final
            => idem[RowOf(a)] = att[a].reply

ServerInv ==
    /\ ServerTypeOK
    /\ RequestsOK
    /\ HolderReserved
    /\ OneHolder
    /\ LivePins
    /\ LiveExcludes
    /\ AnswerStored

(* The two promises are consequences of the invariant.                     *)
LEMMA ServerInvSuffices == ServerInv => OncePerKey /\ OneAnswerPerKey
<1> SUFFICES ASSUME ServerInv PROVE OncePerKey /\ OneAnswerPerKey
  OBVIOUS
<1>1. OncePerKey
  BY DEF ServerInv, LiveExcludes, Live, OncePerKey, Applied
<1>2. OneAnswerPerKey
  BY DEF ServerInv, AnswerStored, OneAnswerPerKey, SameKey
<1> QED
  BY <1>1, <1>2

(* The database starts empty and no request was sent.                      *)
LEMMA ServerInvInit == ServerInit => ServerInv
<1> SUFFICES ASSUME ServerInit PROVE ServerInv
  OBVIOUS
<1>1. ServerTypeOK
  BY WritesAssumption DEF ServerInit, ServerTypeOK, NotSent, Request, Stage, Reply, Decisions,
     Tx, Row, Key
<1>2. \A a \in Attempts : att[a].stage = "new" /\ att[a].tx = "none"
  BY DEF ServerInit, NotSent
<1> QED
  BY <1>1, <1>2 DEF ServerInv, RequestsOK, RequestOK, HolderReserved, OneHolder, LivePins,
     LiveExcludes, AnswerStored, Holds, Live

(* Only the request a step is about changes, but for a crash.  The lemmas  *)
(* below take the steps one at a time.                                     *)
OthersKept(a) == \A b \in Attempts : b # a => att'[b] = att[b]

LEMMA RowInRows ==
    ASSUME ServerTypeOK, NEW a \in Attempts, att[a].user # NoUser
    PROVE  RowOf(a) \in Rows
BY DEF ServerTypeOK, RowOf, Rows, Request, Attempts

LEMMA OneBecomes ==
    ASSUME ServerTypeOK, NEW a \in Attempts, NEW q \in Request, Becomes(a, q)
    PROVE  att' \in [Attempts -> Request] /\ att'[a] = q /\ OthersKept(a)
BY DEF ServerTypeOK, Becomes, OthersKept

LEMMA SubmitKeepsServerInv ==
    ASSUME ServerInv, NEW a \in Attempts, NEW u \in Users \cup {NoUser}, NEW k \in Key,
           Submit(a, u, k)
    PROVE  ServerInv'
<1> USE DEF ServerInv
<1> DEFINE q == [att[a] EXCEPT !.stage = "sent", !.user = u, !.key = k]
<1>0. q \in Request /\ q.stage = "sent" /\ q.tx = att[a].tx
  BY DEF ServerTypeOK, Request, Stage
<1>1. ServerTypeOK'
  BY <1>0, OneBecomes DEF ServerTypeOK, Submit
<1>2. att'[a].stage = "sent" /\ att'[a].tx = "none" /\ OthersKept(a) /\ idem' = idem
  BY <1>0, OneBecomes DEF Submit, RequestsOK, RequestOK
<1>3. \A b \in Attempts : b # a =>
        /\ Deduped(b)' = Deduped(b) /\ RowOf(b)' = RowOf(b)
        /\ Holds(b)' = Holds(b) /\ Live(b)' = Live(b)
  BY <1>2 DEF OthersKept, Deduped, RowOf, Holds, Live
<1>4. ~Holds(a)' /\ ~Live(a)'
  BY <1>2 DEF Holds, Live
<1>5. RequestsOK'
  BY <1>2 DEF RequestsOK, RequestOK, OthersKept
<1>6. HolderReserved' /\ OneHolder'
  BY <1>2, <1>3, <1>4 DEF HolderReserved, OneHolder, SameKey
<1>7. LivePins' /\ LiveExcludes'
  BY <1>2, <1>3, <1>4 DEF LivePins, LiveExcludes, SameKey
<1>8. AnswerStored'
  BY <1>2, <1>3 DEF AnswerStored, OthersKept
<1> QED
  BY <1>1, <1>5, <1>6, <1>7, <1>8

(* Most steps leave the table alone: they preserve the invariant when the  *)
(* request gains neither a reservation nor an effect it had no right to,   *)
(* and tells the client nothing the table does not store.                  *)
LEMMA QuietStep ==
    ASSUME ServerInv, NEW a \in Attempts, NEW q \in Request, Becomes(a, q), idem' = idem,
           q.user = att[a].user, q.key = att[a].key, RequestOK(a, q),
           Deduped(a) /\ q.stage \in {"running", "decided"} => Holds(a),
           Deduped(a) /\ q.tx \in {"open", "committed"} => Live(a) \/ Holds(a),
           Deduped(a) /\ q.stage = "answered" /\ q.reply \in Final => idem[RowOf(a)] = q.reply
    PROVE  ServerInv'
<1> USE DEF ServerInv
<1>1. ServerTypeOK' /\ att'[a] = q /\ OthersKept(a)
  BY OneBecomes DEF ServerTypeOK
<1>2. \A b \in Attempts : Deduped(b)' = Deduped(b) /\ RowOf(b)' = RowOf(b)
  BY <1>1 DEF OthersKept, Deduped, RowOf
<1>3. \A b \in Attempts : b # a => Holds(b)' = Holds(b) /\ Live(b)' = Live(b)
  BY <1>1 DEF OthersKept, Holds, Live, Deduped
<1>4. Holds(a)' => Holds(a)
  BY <1>1, <1>2 DEF Holds
<1>5. Deduped(a) /\ Live(a)' => Live(a) \/ Holds(a)
  BY <1>1 DEF Live
<1>6. RequestsOK'
  BY <1>1 DEF RequestsOK, OthersKept, RequestOK
<1>7. HolderReserved' /\ OneHolder'
  BY <1>2, <1>3, <1>4 DEF HolderReserved, OneHolder, SameKey
<1>8. LivePins'
  BY <1>2, <1>3, <1>5 DEF LivePins, HolderReserved
<1>9. LiveExcludes'
  BY <1>2, <1>3, <1>4, <1>5 DEF LiveExcludes, OneHolder, SameKey
<1>10. AnswerStored'
  BY <1>1, <1>2 DEF AnswerStored, OthersKept
<1> QED
  BY <1>1, <1>6, <1>7, <1>8, <1>9, <1>10

(* The steps that leave the table alone.                                   *)
LEMMA QuietServerSteps ==
    ASSUME ServerInv, NEW a \in Attempts,
           \/ LoseRequest(a) \/ PassThrough(a) \/ AnswerInFlight(a) \/ Replay(a)
           \/ (\E d \in Decisions : Handle(a, d))
           \/ SettleFails(a) \/ Commit(a) \/ CommitFails(a)
    PROVE  ServerInv'
<1> USE DEF ServerInv
<1>t. att[a] \in Request
  BY DEF ServerTypeOK
<1>x. RequestOK(a, att[a])
  BY DEF RequestsOK, RequestOK
<1>1. CASE LoseRequest(a)
  <2> DEFINE q == [att[a] EXCEPT !.stage = "lost"]
  <2>1. q \in Request /\ RequestOK(a, q) /\ q.stage = "lost" /\ q.tx = att[a].tx
        /\ q.user = att[a].user /\ q.key = att[a].key
    BY <1>1, <1>t, <1>x DEF LoseRequest, Request, Stage, RequestOK
  <2> QED
    BY <1>1, <2>1, QuietStep DEF LoseRequest, Live
<1>2. CASE PassThrough(a)
  <2>1. CASE att[a].user = NoUser
    <3> DEFINE q == [att[a] EXCEPT !.stage = "answered", !.reply = "unauth"]
    <3>1. q \in Request /\ q.stage = "answered" /\ q.reply \notin Final /\ q.tx = att[a].tx
          /\ q.user = att[a].user /\ q.key = att[a].key
      BY <1>t DEF Request, Stage, Reply, Final
    <3>2. RequestOK(a, q)
      BY <1>2, <1>x, <3>1 DEF RequestOK, PassThrough
    <3> QED
      BY <1>2, <2>1, <3>1, <3>2, QuietStep DEF PassThrough, Answer, Live
  <2>2. CASE att[a].user # NoUser
    <3> DEFINE q == [att[a] EXCEPT !.stage = "running"]
    <3>1. q \in Request /\ q.stage = "running" /\ q.tx = att[a].tx
          /\ q.user = att[a].user /\ q.key = att[a].key
      BY <1>t DEF Request, Stage
    <3>2. RequestOK(a, q)
      BY <1>2, <1>x, <2>2, <3>1 DEF RequestOK, PassThrough
    <3>3. Becomes(a, q) /\ ~Deduped(a) /\ idem' = idem
      BY <1>2, <2>2 DEF PassThrough
    <3> QED
      BY <3>1, <3>2, <3>3, QuietStep DEF Live
  <2> QED
    BY <2>1, <2>2
<1>3. CASE AnswerInFlight(a)
  <2> DEFINE q == [att[a] EXCEPT !.stage = "answered", !.reply = "inflight"]
  <2>1. q \in Request /\ q.stage = "answered" /\ q.reply \notin Final /\ q.tx = att[a].tx
        /\ q.user = att[a].user /\ q.key = att[a].key
    BY <1>t DEF Request, Stage, Reply, Final
  <2>2. RequestOK(a, q)
    BY <1>3, <1>x, <2>1 DEF RequestOK, AnswerInFlight
  <2> QED
    BY <1>3, <2>1, <2>2, QuietStep DEF AnswerInFlight, Answer, Live
<1>4. CASE Replay(a)
  <2> DEFINE q == [att[a] EXCEPT !.stage = "answered", !.reply = idem[RowOf(a)]]
  <2>1. idem[RowOf(a)] \in Reply
    BY <1>4, <1>t, RowInRows DEF Replay, Deduped, ServerTypeOK, Row, Reply
  <2>2. q \in Request /\ q.stage = "answered" /\ q.reply = idem[RowOf(a)] /\ q.tx = att[a].tx
        /\ q.user = att[a].user /\ q.key = att[a].key
    BY <1>t, <2>1 DEF Request, Stage
  <2>3. RequestOK(a, q)
    BY <1>4, <1>x, <2>2 DEF RequestOK, Replay
  <2> QED
    BY <1>4, <2>2, <2>3, QuietStep DEF Replay, Answer, Live
<1>5. ASSUME NEW d \in Decisions, Handle(a, d)
      PROVE  ServerInv'
  <2> DEFINE q == [att[a] EXCEPT !.stage = IF Deduped(a) THEN "decided" ELSE "answered",
                                 !.reply = d,
                                 !.tx = IF d = "ok" THEN "open" ELSE "none"]
  <2>1. q \in Request /\ q.user = att[a].user /\ q.key = att[a].key /\ q.reply = d
    BY <1>t DEF Request, Stage, Reply, Decisions, Tx
  <2>2. q.stage = (IF Deduped(a) THEN "decided" ELSE "answered")
    BY <1>t DEF Request
  <2>3. q.tx = IF d = "ok" THEN "open" ELSE "none"
    BY <1>t DEF Request
  <2>4. att[a].user # NoUser
    BY <1>5 DEF Handle, RequestsOK, RequestOK
  <2>5. RequestOK(a, q)
    BY <2>1, <2>2, <2>3, <2>4 DEF RequestOK, Deduped
  <2>6. Becomes(a, q) /\ idem' = idem
    BY <1>5 DEF Handle
  <2>7. Deduped(a) => Holds(a) /\ q.stage = "decided"
    BY <1>5, <2>2 DEF Handle, Holds
  <2> QED
    BY <2>1, <2>5, <2>6, <2>7, QuietStep
<1>6. CASE SettleFails(a)
  <2> DEFINE q == [att[a] EXCEPT !.stage = "answered", !.reply = "error"]
  <2>1. q \in Request /\ q.stage = "answered" /\ q.reply = "error" /\ q.tx = att[a].tx
        /\ q.user = att[a].user /\ q.key = att[a].key
    BY <1>t DEF Request, Stage, Reply, Decisions
  <2>2. RequestOK(a, q)
    BY <1>x, <2>1 DEF RequestOK
  <2> QED
    BY <1>6, <2>1, <2>2, QuietStep DEF SettleFails, Answer, Live, Final
<1>7. CASE Commit(a) \/ CommitFails(a)
  <2>1. PICK t \in {"committed", "rolledback"} : Becomes(a, [att[a] EXCEPT !.tx = t])
    BY <1>7 DEF Commit, CommitFails
  <2> DEFINE q == [att[a] EXCEPT !.tx = t]
  <2>2. q \in Request /\ q.stage = att[a].stage /\ q.reply = att[a].reply
        /\ q.user = att[a].user /\ q.key = att[a].key /\ q.tx = t
    BY <1>t DEF Request, Tx
  <2>3. att[a].tx = "open" /\ idem' = idem
    BY <1>7 DEF Commit, CommitFails
  <2>4. RequestOK(a, q)
    BY <1>x, <2>2, <2>3 DEF RequestOK
  <2> QED
    BY <2>1, <2>2, <2>3, <2>4, QuietStep DEF Holds, Live, AnswerStored
<1> QED
  BY <1>1, <1>2, <1>3, <1>4, <1>5, <1>6, <1>7

(* The reservation: the row was absent, so nobody holds the key and no     *)
(* effect or answer of it is live.                                         *)
LEMMA ReserveKeepsServerInv ==
    ASSUME ServerInv, NEW a \in Attempts, Reserve(a)
    PROVE  ServerInv'
<1> USE DEF ServerInv
<1> DEFINE q == [att[a] EXCEPT !.stage = "running"]
<1>1. q \in Request /\ q.stage = "running" /\ q.tx = "none"
      /\ q.user = att[a].user /\ q.key = att[a].key
  BY DEF ServerTypeOK, Request, Stage, Reserve, RequestsOK, RequestOK
<1>2. att' \in [Attempts -> Request] /\ att'[a] = q /\ OthersKept(a)
  BY <1>1, OneBecomes DEF Reserve
<1>3. \A b \in Attempts : Deduped(b)' = Deduped(b) /\ RowOf(b)' = RowOf(b)
  BY <1>1, <1>2 DEF OthersKept, Deduped, RowOf
<1>4. \A b \in Attempts : b # a => Holds(b)' = Holds(b) /\ Live(b)' = Live(b)
  BY <1>2 DEF OthersKept, Holds, Live, Deduped
<1>5. ~Live(a)'
  BY <1>1, <1>2 DEF Live
<1>6. RowOf(a) \in Rows /\ idem[RowOf(a)] = "absent"
  BY RowInRows DEF Reserve, Deduped
<1>7. idem' = [idem EXCEPT ![RowOf(a)] = "reserved"]
  BY DEF Reserve
<1>8. \A r \in Rows : idem'[r] = IF r = RowOf(a) THEN "reserved" ELSE idem[r]
  BY <1>6, <1>7 DEF ServerTypeOK
<1>9. \A b \in Attempts : Deduped(b) => RowOf(b) \in Rows
  BY RowInRows DEF Deduped
<1>10. ServerTypeOK'
  BY <1>2, <1>6, <1>7 DEF ServerTypeOK, Row
<1>11. RequestsOK'
  <2>1. att[a].user # NoUser
    BY DEF Reserve, Deduped
  <2>2. RequestOK(a, q)
    BY <1>1, <2>1 DEF RequestOK
  <2>3. \A b \in Attempts : RequestOK(b, att'[b])
    BY <1>2, <2>2 DEF RequestsOK, OthersKept
  <2> QED
    BY <2>3 DEF RequestsOK, RequestOK
<1>12. \A b \in Attempts : SameKey(a, b) => ~Holds(b) /\ ~Live(b)
  BY <1>6 DEF SameKey, HolderReserved, LivePins
<1>13. HolderReserved'
  BY <1>3, <1>4, <1>8, <1>9 DEF HolderReserved, Holds
<1>14. OneHolder' /\ LiveExcludes'
  BY <1>3, <1>4, <1>5, <1>12 DEF OneHolder, LiveExcludes, SameKey
<1>15. LivePins'
  BY <1>3, <1>4, <1>5, <1>8, <1>9 DEF LivePins, Live, Deduped
<1>16. AnswerStored'
  <2> SUFFICES ASSUME NEW b \in Attempts, Deduped(b)', att'[b].stage = "answered",
                      att'[b].reply \in Final
               PROVE  idem'[RowOf(b)'] = att'[b].reply
    BY DEF AnswerStored
  <2>1. b # a /\ att'[b] = att[b]
    BY <1>1, <1>2 DEF OthersKept
  <2>2. idem[RowOf(b)] = att[b].reply /\ att[b].reply # "absent"
    BY <1>3, <2>1 DEF AnswerStored, Final
  <2> QED
    BY <1>3, <1>6, <1>8, <1>9, <2>1, <2>2
<1> QED
  BY <1>10, <1>11, <1>13, <1>14, <1>15, <1>16

(* The answer is stored, or the key released after a 5xx, by the request   *)
(* that holds it: its row held nothing yet, and an "ok" is not released.   *)
LEMMA SettleKeepsServerInv ==
    ASSUME ServerInv, NEW a \in Attempts, Settle(a), Deduped(a)
    PROVE  ServerInv'
<1> USE DEF ServerInv
<1> DEFINE q == [att[a] EXCEPT !.stage = "answered"]
           now == Settled(idem[RowOf(a)], att[a].reply)
<1>1. q \in Request /\ q.stage = "answered" /\ q.tx = att[a].tx /\ q.reply = att[a].reply
      /\ q.user = att[a].user /\ q.key = att[a].key
  BY DEF ServerTypeOK, Request, Stage
<1>2. att' \in [Attempts -> Request] /\ att'[a] = q /\ OthersKept(a)
  BY <1>1, OneBecomes DEF Settle
<1>3. \A b \in Attempts : Deduped(b)' = Deduped(b) /\ RowOf(b)' = RowOf(b)
  BY <1>1, <1>2 DEF OthersKept, Deduped, RowOf
<1>4. /\ \A b \in Attempts : Live(b)' = Live(b)
      /\ \A b \in Attempts : b # a => Holds(b)' = Holds(b)
  BY <1>1, <1>2 DEF OthersKept, Holds, Live, Deduped
<1>5. ~Holds(a)' /\ Holds(a) /\ att[a].stage = "decided"
  BY <1>1, <1>2 DEF Holds, Settle
<1>6. RowOf(a) \in Rows /\ idem[RowOf(a)] = "reserved"
  BY <1>5, RowInRows DEF HolderReserved, Deduped
<1>7. \A b \in Attempts : Deduped(b) => RowOf(b) \in Rows
  BY RowInRows DEF Deduped
<1>8. now = IF att[a].reply = "error" THEN "absent" ELSE att[a].reply
  BY <1>6 DEF Settled
<1>9. \A r \in Rows : idem'[r] = IF r = RowOf(a) THEN now ELSE idem[r]
  BY <1>6 DEF ServerTypeOK, Settle
<1>10. att[a].reply \in Decisions
  BY <1>5 DEF RequestsOK, RequestOK
<1>11. ServerTypeOK'
  BY <1>2, <1>6, <1>8, <1>10 DEF ServerTypeOK, Settle, Row
<1>12. RequestsOK'
  <2>1. RequestOK(a, att'[a])
    BY <1>1, <1>2, <1>5 DEF RequestsOK, RequestOK
  <2>2. \A b \in Attempts : b # a => RequestOK(b, att'[b])
    BY <1>2 DEF RequestsOK, OthersKept
  <2> QED
    BY <2>1, <2>2 DEF RequestsOK, RequestOK
<1>13. \A b \in Attempts : SameKey(a, b) /\ b # a => ~Holds(b) /\ ~Live(b)
  BY <1>5 DEF OneHolder, LiveExcludes, SameKey
<1>14. HolderReserved' /\ OneHolder'
  BY <1>3, <1>4, <1>5, <1>7, <1>9, <1>13 DEF HolderReserved, OneHolder, SameKey, Holds
<1>15. LiveExcludes'
  BY <1>3, <1>4, <1>5 DEF LiveExcludes, SameKey
<1>16. LivePins'
  <2> SUFFICES ASSUME NEW b \in Attempts, Deduped(b), Live(b)
               PROVE  idem'[RowOf(b)] \in {"reserved", "ok"}
    BY <1>3, <1>4 DEF LivePins
  <2>1. CASE RowOf(b) = RowOf(a)
    <3>1. b = a
      BY <1>5, <2>1 DEF LiveExcludes, SameKey
    <3>2. att[a].reply = "ok"
      BY <1>5, <3>1 DEF RequestsOK, RequestOK, Live
    <3> QED
      BY <1>6, <1>8, <1>9, <2>1, <3>2
  <2>2. CASE RowOf(b) # RowOf(a)
    BY <1>7, <1>9, <2>2 DEF LivePins
  <2> QED
    BY <2>1, <2>2
<1>17. AnswerStored'
  <2> SUFFICES ASSUME NEW b \in Attempts, Deduped(b), att'[b].stage = "answered",
                      att'[b].reply \in Final
               PROVE  idem'[RowOf(b)] = att'[b].reply
    BY <1>3 DEF AnswerStored
  <2>1. CASE b = a
    BY <1>1, <1>2, <1>6, <1>8, <1>9, <2>1 DEF Final
  <2>2. CASE b # a
    <3>1. att'[b] = att[b]
      BY <1>2, <2>2 DEF OthersKept
    <3>2. idem[RowOf(b)] = att[b].reply
      BY <3>1 DEF AnswerStored
    <3>3. RowOf(b) # RowOf(a)
      BY <1>6, <3>1, <3>2 DEF Final
    <3> QED
      BY <1>7, <1>9, <3>1, <3>2, <3>3
  <2> QED
    BY <2>1, <2>2
<1> QED
  BY <1>11, <1>12, <1>14, <1>15, <1>16, <1>17

(* A crash forgets work in progress and nothing else: the table keeps its  *)
(* rows, and a request that held a key no longer does.                     *)
LEMMA CrashKeepsServerInv ==
    ASSUME ServerInv, Crash
    PROVE  ServerInv'
<1> USE DEF ServerInv
<1>1. \A a \in Attempts : Crashed(att[a]) \in Request
  BY DEF ServerTypeOK, Crashed, Request, Stage, Tx
<1>2. att' \in [Attempts -> Request] /\ \A a \in Attempts : att'[a] = Crashed(att[a])
  BY <1>1 DEF Crash
<1>q. \A q \in Request :
        /\ Crashed(q).user = q.user /\ Crashed(q).key = q.key /\ Crashed(q).reply = q.reply
        /\ Crashed(q).stage = (IF q.stage \in {"running", "decided"} THEN "lost" ELSE q.stage)
        /\ Crashed(q).tx = (IF q.tx = "open" THEN "rolledback" ELSE q.tx)
  BY DEF Crashed, Request
<1>3. \A a \in Attempts :
        /\ att'[a].user = att[a].user /\ att'[a].key = att[a].key
        /\ att'[a].reply = att[a].reply
        /\ att'[a].stage = (IF att[a].stage \in {"running", "decided"} THEN "lost" ELSE att[a].stage)
        /\ att'[a].tx = (IF att[a].tx = "open" THEN "rolledback" ELSE att[a].tx)
  BY <1>2, <1>q DEF ServerTypeOK
<1>4. \A a \in Attempts : Deduped(a)' = Deduped(a) /\ RowOf(a)' = RowOf(a)
  BY <1>3 DEF Deduped, RowOf
<1>5. \A a \in Attempts : ~Holds(a)' /\ (Live(a)' => Live(a))
  BY <1>3 DEF Holds, Live
<1>6. idem' = idem
  BY DEF Crash
<1>7. ServerTypeOK'
  BY <1>2, <1>6 DEF ServerTypeOK
<1>8. RequestsOK'
  BY <1>3 DEF RequestsOK, RequestOK
<1>9. HolderReserved' /\ OneHolder'
  BY <1>5 DEF HolderReserved, OneHolder
<1>10. LivePins' /\ LiveExcludes'
  BY <1>4, <1>5, <1>6 DEF LivePins, LiveExcludes, SameKey
<1>11. AnswerStored'
  BY <1>3, <1>4, <1>6 DEF AnswerStored
<1> QED
  BY <1>7, <1>8, <1>9, <1>10, <1>11

LEMMA ServerNextKeepsServerInv ==
    ASSUME ServerInv, ServerNext
    PROVE  ServerInv'
<1>1. CASE Crash
  BY <1>1, CrashKeepsServerInv
<1>2. ASSUME NEW a \in Attempts, ServerStep(a)
      PROVE  ServerInv'
  <2>1. CASE Reserve(a)
    BY <2>1, ReserveKeepsServerInv
  <2>2. CASE Settle(a)
    <3>1. Deduped(a)
      BY <2>2 DEF Settle, ServerInv, RequestsOK, RequestOK, Deduped
    <3> QED
      BY <2>2, <3>1, SettleKeepsServerInv
  <2>3. CASE ~Reserve(a) /\ ~Settle(a)
    BY <1>2, <2>3, QuietServerSteps DEF ServerStep
  <2> QED
    BY <2>1, <2>2, <2>3
<1> QED
  BY <1>1, <1>2 DEF ServerNext

-----------------------------------------------------------------------------
(* The two sides together.  For the queue every step is one of its own, or *)
(* none; for the server every step of the app is a Submit, or none.        *)
LEMMA NextIsQueueNext == [Next]_vars => [QueueNext]_queueVars
<1> SUFFICES ASSUME [Next]_vars PROVE [QueueNext]_queueVars
  OBVIOUS
<1>1. ASSUME NEW w \in Writes, SendDirect(w) PROVE QueueNext
  BY <1>1 DEF SendDirect, QueueNext, Calling
<1>2. ASSUME NEW p \in Passes, NEW w \in Writes, SendReplay(p, w) PROVE QueueNext
  BY <1>2 DEF SendReplay, QueueNext, PassStep
<1>3. CASE ClientReceives
  BY <1>3 DEF ClientReceives, DirectSucceeds, DirectRefused, ReplaySucceeds, ReplayStale,
     QueueNext, Calling, PassStep, ReplayAnswered
<1>4. CASE ClientOther
  BY <1>4 DEF ClientOther, QueueNext, Calling, PassStep
<1>5. CASE UNCHANGED queueVars \/ UNCHANGED vars
  BY <1>5 DEF vars
<1> QED
  BY <1>1, <1>2, <1>3, <1>4, <1>5 DEF Next, ClientStep

AwaitedType == awaited \in [Passes -> 0 .. MaxSends]

LEMMA NextKeepsAwaitedType == AwaitedType /\ [Next]_vars => AwaitedType'
<1> SUFFICES ASSUME AwaitedType, [Next]_vars PROVE AwaitedType'
  OBVIOUS
<1>1. ASSUME NEW p \in Passes, NEW w \in Writes, SendReplay(p, w) PROVE AwaitedType'
  BY <1>1, WritesAssumption DEF SendReplay, AwaitedType
<1>2. CASE ClientStep
  BY <1>2, WritesAssumption DEF ClientStep, StillAwaited, AwaitedType
<1>3. ASSUME NEW w \in Writes, SendDirect(w) PROVE AwaitedType'
  BY <1>3 DEF SendDirect, AwaitedType
<1>4. CASE UNCHANGED awaited
  BY <1>4 DEF AwaitedType
<1> QED
  BY <1>1, <1>2, <1>3, <1>4 DEF Next, vars

LEMMA KeySentType ==
    ASSUME NEW k \in Key \cup {NoKey}, NEW n \in 1 .. MaxSends
    PROVE  KeySent(k, n) \in Key
BY WritesAssumption DEF KeySent, Key, NoKey

LEMMA NextKeepsServerInv == QueueInv /\ ServerInv /\ [Next]_vars => ServerInv'
<1> SUFFICES ASSUME QueueInv, ServerInv, [Next]_vars PROVE ServerInv'
  OBVIOUS
<1>s. session \in Users \cup {NoUser}
  BY DEF QueueInv, QueueTypeOK
<1>1. ASSUME NEW w \in Writes, SendDirect(w) PROVE ServerInv'
  <2>1. <<w, 1>> \in Attempts /\ KeySent(NoKey, 1) \in Key
    BY WritesAssumption DEF Attempts, KeySent, Key, NoKey
  <2> QED
    BY <1>s, <1>1, <2>1, SubmitKeepsServerInv DEF SendDirect
<1>2. ASSUME NEW p \in Passes, NEW w \in Writes, SendReplay(p, w) PROVE ServerInv'
  <2>1. PICK e \in pass[p].todo, n \in 1 .. MaxSends : Submit(<<w, n>>, session, ReplayKey(e, n))
    BY <1>2 DEF SendReplay
  <2>2. e.key \in Key \cup {NoKey}
    BY DEF QueueInv, PassesOK, PassOK, Pass, Entry
  <2>3. ReplayKey(e, n) \in Key
    BY <2>2, KeySentType DEF ReplayKey
  <2>4. <<w, n>> \in Attempts
    BY DEF Attempts
  <2> QED
    BY <1>s, <2>1, <2>3, <2>4, SubmitKeepsServerInv
<1>3. CASE ServerNext
  BY <1>3, ServerNextKeepsServerInv
<1>4. CASE UNCHANGED serverVars
  BY <1>4 DEF serverVars, ServerInv, ServerTypeOK, RequestsOK, HolderReserved, OneHolder,
     LivePins, LiveExcludes, AnswerStored, Holds, Live, Deduped, RowOf, SameKey
<1>5. CASE UNCHANGED vars
  BY <1>4, <1>5 DEF vars
<1> QED
  BY <1>1, <1>2, <1>3, <1>4, <1>5 DEF Next, ClientStep

LEMMA SpecKeepsInv == Spec => [](QueueInv /\ ServerInv /\ AwaitedType)
<1>1. Init => QueueInv /\ ServerInv /\ AwaitedType
  BY QueueInvInit, ServerInvInit, WritesAssumption DEF Init, AwaitedType
<1>2. QueueInv /\ ServerInv /\ AwaitedType /\ [Next]_vars
        => (QueueInv /\ ServerInv /\ AwaitedType)'
  BY NextIsQueueNext, QueueNextKeepsInv, NextKeepsServerInv, NextKeepsAwaitedType
<1> QED
  BY <1>1, <1>2, PTL DEF Spec

(* Queue and server together keep the types of both.                       *)
THEOREM TypeCorrect == Spec => []TypeOK
<1>1. QueueInv /\ ServerInv /\ AwaitedType => TypeOK
  BY DEF QueueInv, ServerInv, AwaitedType, TypeOK
<1> QED
  BY <1>1, SpecKeepsInv, PTL

(* Of the POSTs that carry one user's key, one at most takes effect,       *)
(* whatever requests the app sends, loses, repeats or gives up on and      *)
(* whenever the server crashes.                                            *)
THEOREM OncePerKeyCorrect == Spec => []OncePerKey
<1>1. QueueInv /\ ServerInv => OncePerKey
  BY ServerInvSuffices
<1> QED
  BY <1>1, SpecKeepsInv, PTL

(* No two of them are told different final answers.                        *)
THEOREM OneAnswerPerKeyCorrect == Spec => []OneAnswerPerKey
<1>1. QueueInv /\ ServerInv => OneAnswerPerKey
  BY ServerInvSuffices
<1> QED
  BY <1>1, SpecKeepsInv, PTL

-----------------------------------------------------------------------------
(* Each side keeps its promises in the company of the other, or of any.    *)

(* With the server behind it and an unreliable network between them the    *)
(* queue does only what it may do by itself, so sync_service.dart keeps    *)
(* all it promises: nothing is stranded in `syncing', no unsent write is   *)
(* dropped, and passes in turn keep the order of a domain and leave what   *)
(* has failed for good alone.                                              *)
THEOREM QueueKeptOnline ==
    Spec => /\ QueueInit /\ [][QueueNext]_queueVars
            /\ []SyncingIsReplayed
            /\ UnsentKept /\ NotOvertakenInTurn /\ TerminalUntilRetried
<1>1. Spec => QueueInit /\ [][QueueNext]_queueVars
  <2>1. Init => QueueInit
    BY DEF Init
  <2> QED
    BY <2>1, NextIsQueueNext, PTL DEF Spec
<1>2. QueueInit /\ [][QueueNext]_queueVars => []SyncingIsReplayed
  <2>1. QueueInv => SyncingIsReplayed
    BY DEF QueueInv
  <2> QED
    BY <2>1, QueueInvInit, QueueNextKeepsInv, PTL
<1>3. QueueInit /\ [][QueueNext]_queueVars => UnsentKept
  <2>1. QueueInv /\ [QueueNext]_queueVars => [UnsentKeptStep]_queueVars
    BY PicksNoUnsent, LosesNoUnsent DEF UnsentKeptStep
  <2> QED
    BY <2>1, QueueInvInit, QueueNextKeepsInv, PTL DEF UnsentKept, UnsentKeptStep
<1>4. QueueInit /\ [][QueueNext]_queueVars => NotOvertakenInTurn
  <2>1. TurnInv /\ [QueueNext]_queueVars => [NotOvertakenStep]_queueVars
    BY TurnNotOvertaken
  <2> QED
    BY <2>1, TurnInit, TurnStep, PTL DEF NotOvertakenInTurn, NotOvertakenStep
<1>5. QueueInit /\ [][QueueNext]_queueVars => TerminalUntilRetried
  <2>1. TurnInv /\ [QueueNext]_queueVars => [TerminalStep]_queueVars
    BY TurnTerminal
  <2> QED
    BY <2>1, TurnInit, TurnStep, PTL DEF TerminalUntilRetried, TerminalStep
<1> QED
  BY <1>1, <1>2, <1>3, <1>4, <1>5

(* Any client: requests of any user, or of none, with any key at any time. *)
AnyClient == \E a \in Attempts, u \in Users \cup {NoUser}, k \in Key : Submit(a, u, k)

(* The middleware dedupes whoever calls it: one effect and one final       *)
(* answer per key of a user do not depend on how the app makes its keys,   *)
(* how often it sends or whether it waits for an answer.                   *)
THEOREM MiddlewareAlone ==
    ServerInit /\ [][ServerNext \/ AnyClient]_serverVars => []OncePerKey /\ []OneAnswerPerKey
<1>1. ServerInv /\ [ServerNext \/ AnyClient]_serverVars => ServerInv'
  <2> SUFFICES ASSUME ServerInv, [ServerNext \/ AnyClient]_serverVars PROVE ServerInv'
    OBVIOUS
  <2>1. CASE ServerNext
    BY <2>1, ServerNextKeepsServerInv
  <2>2. CASE AnyClient
    BY <2>2, SubmitKeepsServerInv DEF AnyClient
  <2>3. CASE UNCHANGED serverVars
    BY <2>3 DEF serverVars, ServerInv, ServerTypeOK, RequestsOK, HolderReserved, OneHolder,
       LivePins, LiveExcludes, AnswerStored, Holds, Live, Deduped, RowOf, SameKey
  <2> QED
    BY <2>1, <2>2, <2>3
<1> QED
  BY <1>1, ServerInvInit, ServerInvSuffices, PTL

-----------------------------------------------------------------------------
(* One create, one key.  The server's guarantee is per key; what is left   *)
(* is that the app never sends one create under two keys.  Entries only    *)
(* ever copy an entry of their write, and the first one takes its key from *)
(* the direct request or is made before any request.                       *)
Sent(a) == att[a].stage # "new"

EntriesShareKey ==
    \A d, e \in Queued : d.id = e.id /\ d.id \in Promised => d.key = e.key /\ d.key # NoKey

EntriesKeepSentKey ==
    \A e \in Queued, a \in Attempts :
        a[1] = e.id /\ e.id \in Promised /\ Sent(a) => att[a].key = e.key

SentShareKey ==
    \A a, b \in Attempts :
        a[1] = b[1] /\ a[1] \in Promised /\ Sent(a) /\ Sent(b) => att[a].key = att[b].key

(* Before its call ends in the queue, a write has no entry and was sent at *)
(* most once, directly.                                                    *)
NotQueuedYet ==
    \A w \in Writes : call[w] \in {"new", "direct", "refused"} =>
        /\ \A e \in Queued : e.id # w
        /\ \A a \in Attempts : a[1] = w /\ Sent(a) => a[2] = 1 /\ att[a].key = 1

NotSentYet ==
    \A w \in Writes : call[w] = "new" => \A a \in Attempts : a[1] = w => ~Sent(a)

RefusedNoEffect ==
    \A w \in Writes : call[w] = "refused" =>
        \A a \in Attempts : a[1] = w => att[a].tx = "none" /\ att[a].stage \in {"new", "answered"}

WriteInv ==
    /\ EntriesShareKey
    /\ EntriesKeepSentKey
    /\ SentShareKey
    /\ NotQueuedYet
    /\ NotSentYet
    /\ RefusedNoEffect

LEMMA WriteInvSuffices ==
    QueueInv /\ ServerInv /\ WriteInv => NoDuplicateCreate /\ RefusedIsFinal
<1> SUFFICES ASSUME QueueInv, ServerInv, WriteInv PROVE NoDuplicateCreate /\ RefusedIsFinal
  OBVIOUS
<1>1. NoDuplicateCreate
  <2> SUFFICES ASSUME NEW a \in Attempts, NEW b \in Attempts,
                      a[1] = b[1], a[1] \in Promised, att[a].user = att[b].user,
                      Applied(a), Applied(b)
               PROVE  a = b
    BY DEF NoDuplicateCreate
  <2>1. Sent(a) /\ Sent(b) /\ att[a].user # NoUser
    BY DEF Applied, Sent, ServerInv, RequestsOK, RequestOK
  <2>2. SameKey(a, b)
    BY <2>1 DEF SameKey, Deduped, RowOf, Promised, WriteInv, SentShareKey
  <2> QED
    BY <2>2 DEF ServerInv, LiveExcludes, Live, Applied
<1>2. RefusedIsFinal
  BY DEF RefusedIsFinal, WriteInv, RefusedNoEffect, NotQueuedYet, Ids
<1> QED
  BY <1>1, <1>2

LEMMA WriteInvInit == Init => WriteInv
<1> SUFFICES ASSUME Init PROVE WriteInv
  OBVIOUS
<1>1. \A a \in Attempts : ~Sent(a) /\ att[a].tx = "none" /\ att[a].stage = "new"
  BY DEF Init, ServerInit, NotSent, Sent
<1>2. \A e \in Queued : e.id \in Legacy
  BY DEF Init, QueueInit, Queued, Held, Idle, LegacyEntry
<1>3. \A w \in Legacy : call[w] = "queued"
  BY WritesAssumption DEF Init, QueueInit
<1> QED
  BY <1>1, <1>2, <1>3 DEF WriteInv, EntriesShareKey, EntriesKeepSentKey, SentShareKey,
     NotQueuedYet, NotSentYet, RefusedNoEffect, Promised

(* Most steps of the queue copy entries and end calls, and send nothing.   *)
Carried(e) == \E d \in Queued : d.id = e.id /\ d.key = e.key

OnlyCopies == \A e \in Queued' : Carried(e)

CallsOnlyEnd ==
    \A w \in Writes : call'[w] \in {"new", "direct", "refused"} => call'[w] = call[w]

QuietQueueStep ==
    \/ Initialize \/ Kill
    \/ \E w \in Writes : DirectAnswered(w, "acked")
    \/ \E p \in Passes : PassLocal(p) \/ ReplayAnswered(p)
    \/ UserStep
    \/ UNCHANGED queueVars

LEMMA EntriesTyped == QueueInv => Queued \subseteq Entry
BY DEF QueueInv, QueueTypeOK, PassesOK, PassOK, Pass, Queued, Held

LEMMA CopyCarried ==
    ASSUME QueueInv, NEW e \in Queued, NEW s, NEW r
    PROVE  /\ Carried(e)
           /\ Carried([e EXCEPT !.status = s])
           /\ Carried([e EXCEPT !.status = s, !.retry = r])
<1>1. e \in Entry
  BY EntriesTyped
<1>2. [e EXCEPT !.status = s].id = e.id /\ [e EXCEPT !.status = s].key = e.key
  BY <1>1 DEF Entry
<1>3. /\ [e EXCEPT !.status = s, !.retry = r].id = e.id
      /\ [e EXCEPT !.status = s, !.retry = r].key = e.key
  BY <1>1 DEF Entry
<1> QED
  BY <1>2, <1>3 DEF Carried

LEMMA RecoveredCarried ==
    ASSUME QueueInv, NEW e \in Queued
    PROVE  Carried(Recovered(e))
BY CopyCarried DEF Recovered

LEMMA BoxCarried == QueueInv => \A e \in box : Carried(e)
BY CopyCarried DEF Queued

LEMMA HeldCarried ==
    ASSUME QueueInv, NEW p \in Passes
    PROVE  /\ pass[p] \in Pass
           /\ \A e \in pass[p].todo \cup pass[p].current : e \in Queued /\ Carried(e)
<1>1. pass[p] \in Pass
  BY DEF QueueInv, PassesOK
<1>2. \A e \in pass[p].todo \cup pass[p].current : e \in Queued
  BY DEF Queued, Held
<1> QED
  BY <1>1, <1>2, CopyCarried

LEMMA UpsertCarried ==
    ASSUME QueueInv, NEW x, Carried(x), box' = Upsert(box, x)
    PROVE  \A e \in box' : Carried(e)
BY BoxCarried DEF Upsert

(* One pass goes on with copies, or none does.                             *)
LEMMA PassCopies ==
    ASSUME QueueInv, NEW p \in Passes, NEW n, pass' = [pass EXCEPT ![p] = n],
           \A e \in n.todo \cup n.current : Carried(e),
           \A e \in box' : Carried(e)
    PROVE  OnlyCopies
<1>1. pass \in [Passes -> Pass]
  BY DEF QueueInv, PassesOK
<1>2. \A r \in Passes \ {p} : Held(r)' = Held(r)
  BY <1>1 DEF Held
<1>3. Held(p)' = n.todo \cup n.current
  BY <1>1 DEF Held
<1>4. \A r \in Passes : \A e \in Held(r)' : Carried(e)
  BY <1>2, <1>3, CopyCarried DEF Queued
<1> QED
  BY <1>4 DEF OnlyCopies, Queued

LEMMA IdleCopies ==
    ASSUME QueueInv, pass' = pass, \A e \in box' : Carried(e)
    PROVE  OnlyCopies
<1>1. \A p \in Passes : Held(p)' = Held(p)
  BY DEF Held
<1>2. \A p \in Passes : \A e \in Held(p)' : Carried(e)
  BY <1>1, CopyCarried DEF Queued
<1> QED
  BY <1>2 DEF OnlyCopies, Queued

LEMMA PassLocalCopies ==
    ASSUME QueueInv, NEW p \in Passes, PassLocal(p)
    PROVE  OnlyCopies /\ call' = call
<1> DEFINE q == pass[p]
<1>q. q \in Pass /\ \A e \in q.todo \cup q.current : Carried(e) /\ e \in Queued
  BY HeldCarried
<1>1. call' = call
  BY DEF PassLocal, Cleanup, SyncPending, StayOffline, FlushStart, FlushSkip, FlushBackoff,
     FlushNoAdapter, Visits, FlushEnd, CleanupDelete, CleanupTrim, PassEnd, Cleans
<1>2. \A e \in box' : Carried(e)
  <2>1. CASE FlushNoAdapter(p)
    <3>1. PICK e \in q.todo : box' = Upsert(box, [e EXCEPT !.status = "failed"])
      BY <2>1 DEF FlushNoAdapter
    <3> QED
      BY <1>q, <3>1, CopyCarried, UpsertCarried
  <2>2. CASE SyncPending(p) \/ StayOffline(p) \/ FlushStart(p) \/ FlushSkip(p) \/ FlushBackoff(p)
    BY <2>2, BoxCarried DEF SyncPending, StayOffline, FlushStart, FlushSkip, FlushBackoff
  <2>3. CASE FlushEnd(p) \/ Cleanup(p)
    BY <2>3, BoxCarried DEF FlushEnd, Cleanup, CleanupDelete, CleanupTrim, PassEnd
  <2> QED
    BY <2>1, <2>2, <2>3 DEF PassLocal
<1>3. ASSUME NEW n, pass' = [pass EXCEPT ![p] = n], n.todo \subseteq q.todo \cup box,
             n.current \subseteq q.current
      PROVE  OnlyCopies
  BY <1>q, <1>2, <1>3, BoxCarried, PassCopies
<1>4. CASE SyncPending(p)
  <2> DEFINE n == [Idle EXCEPT !.stage = "asking"]
  <2>1. pass' = [pass EXCEPT ![p] = n] /\ n.todo = {} /\ n.current = {}
    BY <1>4 DEF SyncPending, Proceeds, Idle
  <2> HIDE DEF n
  <2> QED
    BY <1>1, <1>3, <2>1
<1>5. CASE StayOffline(p) \/ PassEnd(p)
  <2>1. pass' = [pass EXCEPT ![p] = Idle] /\ Idle.todo = {} /\ Idle.current = {}
    BY <1>5 DEF StayOffline, PassEnd, Proceeds, Idle
  <2> QED
    BY <1>1, <1>3, <2>1
<1>6. CASE FlushStart(p)
  <2> DEFINE n == [Idle EXCEPT !.stage = "visiting", !.todo = {e \in box : IsPending(e)}]
  <2>1. pass' = [pass EXCEPT ![p] = n]
    BY <1>6 DEF FlushStart, Proceeds
  <2>2. n.todo \subseteq box /\ n.current = {}
    BY DEF Idle
  <2> HIDE DEF n
  <2> QED
    BY <1>1, <1>3, <2>1, <2>2
<1>7. CASE FlushSkip(p) \/ FlushNoAdapter(p)
  <2>1. PICK e \in q.todo : pass' = [pass EXCEPT ![p] = [q EXCEPT !.todo = @ \ {e}]]
    BY <1>7 DEF FlushSkip, FlushNoAdapter, Proceeds
  <2> DEFINE n == [q EXCEPT !.todo = @ \ {e}]
  <2>2. n.todo \subseteq q.todo /\ n.current = q.current
    BY <1>q DEF Pass
  <2>3. pass' = [pass EXCEPT ![p] = n]
    BY <2>1
  <2> HIDE DEF n
  <2> QED
    BY <1>1, <1>3, <2>2, <2>3
<1>8. CASE FlushBackoff(p)
  <2>1. PICK e \in q.todo : pass' = [pass EXCEPT ![p] =
                                     [q EXCEPT !.todo = @ \ {e}, !.blocked = @ \cup {Domain(e)}]]
    BY <1>8 DEF FlushBackoff, Proceeds
  <2> DEFINE n == [q EXCEPT !.todo = @ \ {e}, !.blocked = @ \cup {Domain(e)}]
  <2>2. n.todo \subseteq q.todo /\ n.current = q.current
    BY <1>q DEF Pass
  <2>3. pass' = [pass EXCEPT ![p] = n]
    BY <2>1
  <2> HIDE DEF n
  <2> QED
    BY <1>1, <1>3, <2>2, <2>3
<1>9. CASE FlushEnd(p) \/ CleanupTrim(p)
  <2>1. PICK s, D : pass' = [pass EXCEPT ![p] = [Idle EXCEPT !.stage = s, !.doomed = D]]
    BY <1>9 DEF FlushEnd, CleanupTrim, Proceeds
  <2> DEFINE n == [Idle EXCEPT !.stage = s, !.doomed = D]
  <2>2. n.todo = {} /\ n.current = {} /\ pass' = [pass EXCEPT ![p] = n]
    BY <2>1 DEF Idle
  <2> HIDE DEF n
  <2> QED
    BY <1>1, <1>3, <2>2
<1>10. CASE CleanupDelete(p)
  <2>1. PICK w \in q.doomed : pass' = [pass EXCEPT ![p] = [q EXCEPT !.doomed = @ \ {w}]]
    BY <1>10 DEF CleanupDelete, Proceeds
  <2> DEFINE n == [q EXCEPT !.doomed = @ \ {w}]
  <2>2. n.todo = q.todo /\ n.current = q.current
    BY <1>q DEF Pass
  <2>3. pass' = [pass EXCEPT ![p] = n]
    BY <2>1
  <2> HIDE DEF n
  <2> QED
    BY <1>1, <1>3, <2>2, <2>3
<1> QED
  BY <1>4, <1>5, <1>6, <1>7, <1>8, <1>9, <1>10 DEF PassLocal, Cleanup

LEMMA ReplayCopies ==
    ASSUME QueueInv, NEW p \in Passes, ReplayAnswered(p)
    PROVE  OnlyCopies /\ CallsOnlyEnd
<1> DEFINE q == pass[p]
<1>q. q \in Pass /\ \A e \in q.todo \cup q.current : Carried(e) /\ e \in Queued
  BY HeldCarried
<1>1. PICK e, s, r, held :
         e \in q.current /\ Answered(p, [e EXCEPT !.status = s, !.retry = r], held)
  BY DEF ReplayAnswered, ReplaySucceeded, ReplayConflict, ReplayFailed
<1>2. \A d \in box' : Carried(d)
  BY <1>q, <1>1, CopyCarried, UpsertCarried DEF Answered
<1> DEFINE n == [q EXCEPT !.current = {}, !.blocked = @ \cup held]
<1>3. pass' = [pass EXCEPT ![p] = n]
  BY <1>1 DEF Answered, Proceeds
<1>4. n.todo = q.todo /\ n.current = {}
  BY <1>q DEF Pass
<1> HIDE DEF n
<1>5. OnlyCopies
  BY <1>q, <1>2, <1>3, <1>4, PassCopies
<1>6. CallsOnlyEnd
  BY DEF ReplayAnswered, ReplaySucceeded, ReplayConflict, ReplayFailed, CallsOnlyEnd, QueueInv,
     QueueTypeOK
<1> QED
  BY <1>5, <1>6

LEMMA UserStepCopies ==
    ASSUME QueueInv, UserStep
    PROVE  OnlyCopies /\ call' = call
<1>1. pass' = pass /\ call' = call
  BY DEF UserStep, RetryEntry, RetryFailedEntries, DeleteEntry, Logout, LogoutClears, Login, Taps,
     passVars
<1>2. \A e \in box' : Carried(e)
  <2>b. \A e \in box : Carried(e) /\ e \in Queued
    BY BoxCarried DEF Queued
  <2>1. CASE RetryEntry
    <3>1. PICK e \in box : box' = Upsert(box, [e EXCEPT !.status = "pending", !.retry = 0])
      BY <2>1 DEF RetryEntry
    <3> QED
      BY <2>b, <3>1, CopyCarried, UpsertCarried
  <2>2. CASE RetryFailedEntries
    <3>1. \A e \in box : Carried([e EXCEPT !.status = "pending"])
      BY <2>b, CopyCarried
    <3> QED
      BY <2>b, <2>2, <3>1 DEF RetryFailedEntries
  <2>3. CASE DeleteEntry \/ Logout \/ LogoutClears \/ Login
    BY <2>b, <2>3 DEF DeleteEntry, Logout, LogoutClears, Login
  <2> QED
    BY <2>1, <2>2, <2>3 DEF UserStep
<1> QED
  BY <1>1, <1>2, IdleCopies

LEMMA QuietQueueStepEffect ==
    ASSUME QueueInv, QuietQueueStep
    PROVE  OnlyCopies /\ CallsOnlyEnd
<1>c. call \in [Writes -> Call]
  BY DEF QueueInv, QueueTypeOK
<1>1. CASE Initialize
  <2>1. \A e \in box' : Carried(e)
    BY <1>1, CleanedSubset, RecoveredCarried DEF Initialize, Queued
  <2>2. pass' = pass /\ call' = call
    BY <1>1 DEF Initialize, passVars
  <2> QED
    BY <2>1, <2>2, IdleCopies DEF CallsOnlyEnd
<1>2. CASE Kill
  <2>1. \A p \in Passes : Held(p)' = {}
    BY <1>2 DEF Kill, Held, Idle
  <2>2. OnlyCopies
    BY <1>2, <2>1, BoxCarried DEF OnlyCopies, Queued, Kill
  <2> QED
    BY <1>2, <1>c, <2>2 DEF Kill, CallsOnlyEnd
<1>3. CASE \E w \in Writes : DirectAnswered(w, "acked")
  <2>1. OnlyCopies
    BY <1>3, BoxCarried, IdleCopies DEF DirectAnswered, passVars
  <2> QED
    BY <1>3, <1>c, <2>1 DEF DirectAnswered, CallsOnlyEnd
<1>4. CASE UNCHANGED queueVars
  BY <1>4, BoxCarried, IdleCopies DEF queueVars, passVars, CallsOnlyEnd
<1>5. CASE UserStep
  BY <1>5, UserStepCopies DEF CallsOnlyEnd
<1>6. ASSUME NEW p \in Passes, PassLocal(p) PROVE OnlyCopies /\ CallsOnlyEnd
  BY <1>6, PassLocalCopies DEF CallsOnlyEnd
<1>7. ASSUME NEW p \in Passes, ReplayAnswered(p) PROVE OnlyCopies /\ CallsOnlyEnd
  BY <1>7, ReplayCopies
<1> QED
  BY <1>1, <1>2, <1>3, <1>4, <1>5, <1>6, <1>7 DEF QuietQueueStep

(* What the steps of the server leave alone.                               *)
RequestsKeepKey ==
    \A a \in Attempts : /\ Sent(a)' = Sent(a)
                        /\ Sent(a) => att'[a].key = att[a].key

LEMMA QuietStepKeepsWriteInv ==
    ASSUME WriteInv, OnlyCopies, CallsOnlyEnd, UNCHANGED serverVars
    PROVE  WriteInv'
<1> USE DEF WriteInv
<1>1. att' = att /\ \A a \in Attempts : Sent(a)' = Sent(a)
  BY DEF serverVars, Sent
<1>2. EntriesShareKey'
  BY DEF EntriesShareKey, OnlyCopies, Carried
<1>3. EntriesKeepSentKey'
  BY <1>1 DEF EntriesKeepSentKey, OnlyCopies, Carried
<1>4. SentShareKey'
  BY <1>1 DEF SentShareKey
<1>5. NotQueuedYet'
  BY <1>1 DEF NotQueuedYet, CallsOnlyEnd, OnlyCopies, Carried
<1>6. NotSentYet' /\ RefusedNoEffect'
  BY <1>1 DEF NotSentYet, RefusedNoEffect, CallsOnlyEnd
<1> QED
  BY <1>2, <1>3, <1>4, <1>5, <1>6

(* A call that queues its write makes its first entry, under the key its   *)
(* direct request carried if there was one.                                *)
LEMMA EnqueueKeepsWriteInv ==
    ASSUME QueueInv, WriteInv, NEW w \in Writes, UNCHANGED serverVars,
           CallOffline(w) \/ DirectFailed(w)
    PROVE  WriteInv'
<1> USE DEF WriteInv
<1>1. att' = att /\ \A a \in Attempts : Sent(a)' = Sent(a)
  BY DEF serverVars, Sent
<1>2. PICK k \in Key : /\ Enqueue(w, k)
                       /\ \A a \in Attempts : a[1] = w /\ Sent(a) => att[a].key = k
  <2>1. CASE CallOffline(w)
    BY <2>1, WritesAssumption DEF CallOffline, Calls, NotSentYet, OfflineKey, Key
  <2>2. CASE DirectFailed(w)
    BY <2>2, WritesAssumption DEF DirectFailed, NotQueuedYet, FallbackKey, KeySent, Key
  <2> QED
    BY <2>1, <2>2
<1>3. k # NoKey
  BY WritesAssumption DEF Key, NoKey
<1>4. \A p \in Passes : Held(p)' = Held(p)
  BY DEF CallOffline, DirectFailed, Calls, passVars, Held
<1>5. \A e \in Queued : e.id # w
  BY DEF CallOffline, DirectFailed, Calls, NotQueuedYet
<1>6. \A e \in Queued' : e \in Queued \/ (e.id = w /\ e.key = k)
  BY <1>2, <1>4 DEF Enqueue, Upsert, Queued
<1>7. call' = [call EXCEPT ![w] = "queued"]
  BY <1>2 DEF Enqueue
<1>8. \A v \in Writes : call'[v] \in {"new", "direct", "refused"} => v # w /\ call'[v] = call[v]
  BY <1>7 DEF QueueInv, QueueTypeOK
<1>9. EntriesShareKey'
  BY <1>3, <1>5, <1>6 DEF EntriesShareKey
<1>10. EntriesKeepSentKey'
  BY <1>1, <1>2, <1>6 DEF EntriesKeepSentKey
<1>11. SentShareKey'
  BY <1>1 DEF SentShareKey
<1>12. NotQueuedYet'
  BY <1>1, <1>6, <1>8 DEF NotQueuedYet
<1>13. NotSentYet' /\ RefusedNoEffect'
  BY <1>1, <1>8 DEF NotSentYet, RefusedNoEffect
<1> QED
  BY <1>9, <1>10, <1>11, <1>12, <1>13

LEMMA SendDirectKeepsWriteInv ==
    ASSUME QueueInv, ServerInv, WriteInv, NEW w \in Writes, SendDirect(w)
    PROVE  WriteInv'
<1> USE DEF WriteInv
<1> DEFINE a == <<w, 1>>
           q == [att[a] EXCEPT !.stage = "sent", !.user = session, !.key = 1]
<1>1. a \in Attempts /\ a[1] = w /\ a[2] = 1
  BY WritesAssumption DEF Attempts
<1>2. att \in [Attempts -> Request] /\ att[a] \in Request
  BY <1>1 DEF ServerInv, ServerTypeOK
<1>3. att' = [att EXCEPT ![a] = q]
  BY DEF SendDirect, Submit, Becomes, KeySent
<1>4. att'[a].stage = "sent" /\ att'[a].key = 1
  BY <1>1, <1>2, <1>3 DEF Request
<1>5. \A b \in Attempts : b # a => att'[b] = att[b] /\ Sent(b)' = Sent(b)
  BY <1>2, <1>3 DEF Sent
<1>6. call[w] = "new" /\ call' = [call EXCEPT ![w] = "direct"] /\ Queued' = Queued
  BY DEF SendDirect, CallOnline, Calls, Queued, Held, passVars
<1>7. \A v \in Writes : v # w => call'[v] = call[v]
  BY <1>6 DEF QueueInv, QueueTypeOK
<1>8. call'[w] = "direct"
  BY <1>6 DEF QueueInv, QueueTypeOK
<1>9. \A b \in Attempts : b[1] = w => ~Sent(b)
  BY <1>6 DEF NotSentYet
<1>10. \A b \in Attempts : b[1] = w /\ Sent(b)' => b = a
  BY <1>5, <1>9
<1>11. EntriesShareKey'
  BY <1>6 DEF EntriesShareKey
<1>12. EntriesKeepSentKey'
  BY <1>1, <1>5, <1>6 DEF EntriesKeepSentKey, NotQueuedYet
<1>13. SentShareKey'
  BY <1>1, <1>5, <1>10 DEF SentShareKey
<1>14. NotQueuedYet'
  BY <1>1, <1>4, <1>5, <1>6, <1>7, <1>8, <1>10 DEF NotQueuedYet
<1>15. NotSentYet'
  BY <1>1, <1>5, <1>7, <1>8 DEF NotSentYet
<1>16. RefusedNoEffect'
  BY <1>1, <1>5, <1>7, <1>8 DEF RefusedNoEffect
<1> QED
  BY <1>11, <1>12, <1>13, <1>14, <1>15, <1>16

(* A replay carries the key its entry stores.                              *)
LEMMA SendReplayKeepsWriteInv ==
    ASSUME QueueInv, ServerInv, WriteInv, NEW p \in Passes, NEW w \in Writes, SendReplay(p, w)
    PROVE  WriteInv'
<1> USE DEF WriteInv
<1>1. PICK e \in pass[p].todo, n \in 1 .. MaxSends :
         /\ e.id = w /\ FlushSend(p, w) /\ Submit(<<w, n>>, session, ReplayKey(e, n))
  BY DEF SendReplay
<1> DEFINE a == <<w, n>>
           q == [att[a] EXCEPT !.stage = "sent", !.user = session, !.key = ReplayKey(e, n)]
<1>2. a \in Attempts /\ a[1] = w
  BY DEF Attempts
<1>3. att \in [Attempts -> Request] /\ att[a] \in Request
  BY <1>2 DEF ServerInv, ServerTypeOK
<1>4. att' = [att EXCEPT ![a] = q]
  BY <1>1 DEF Submit, Becomes
<1>5. att'[a].stage = "sent" /\ att'[a].key = ReplayKey(e, n)
  BY <1>2, <1>3, <1>4 DEF Request
<1>6. \A b \in Attempts : b # a => att'[b] = att[b] /\ Sent(b)' = Sent(b)
  BY <1>3, <1>4 DEF Sent
<1>7. OnlyCopies /\ call' = call
  <2> DEFINE z == pass[p]
  <2>q. z \in Pass /\ \A d \in z.todo : Carried(d) /\ d \in Queued
    BY HeldCarried
  <2>1. PICK d \in z.todo :
           /\ pass' = [pass EXCEPT ![p] = [z EXCEPT !.todo = @ \ {d},
                                                    !.current = {[d EXCEPT !.status = "syncing"]}]]
           /\ box' = Upsert(box, [d EXCEPT !.status = "syncing"])
           /\ call' = call
    BY <1>1 DEF FlushSend, Proceeds, Visits
  <2> DEFINE x == [d EXCEPT !.status = "syncing"]
             m == [z EXCEPT !.todo = @ \ {d}, !.current = {x}]
  <2>2. Carried(x) /\ box' = Upsert(box, x)
    BY <2>q, <2>1, CopyCarried
  <2>3. pass' = [pass EXCEPT ![p] = m]
    BY <2>1
  <2> HIDE DEF x
  <2>4. m.todo \subseteq z.todo /\ m.current = {x}
    BY <2>q DEF Pass
  <2> HIDE DEF m
  <2> QED
    BY <2>q, <2>1, <2>2, <2>3, <2>4, UpsertCarried, PassCopies
<1>8. e \in Queued
  BY DEF Queued, Held
<1>9. w \in Promised => att'[a].key = e.key
  BY <1>1, <1>5, <1>8 DEF ReplayKey, KeySent, EntriesShareKey
<1>10. call[w] \notin {"new", "direct", "refused"}
  BY <1>1, <1>8 DEF NotQueuedYet
<1>11. EntriesShareKey'
  BY <1>7 DEF EntriesShareKey, OnlyCopies, Carried
<1>12. EntriesKeepSentKey'
  <2> SUFFICES ASSUME NEW f \in Queued', NEW b \in Attempts, b[1] = f.id, f.id \in Promised,
                      Sent(b)'
               PROVE  att'[b].key = f.key
    BY DEF EntriesKeepSentKey
  <2>1. PICK d \in Queued : d.id = f.id /\ d.key = f.key
    BY <1>7 DEF OnlyCopies, Carried
  <2>2. CASE b = a
    BY <1>1, <1>2, <1>8, <1>9, <2>1, <2>2 DEF EntriesShareKey
  <2>3. CASE b # a
    BY <1>6, <2>1, <2>3 DEF EntriesKeepSentKey
  <2> QED
    BY <2>2, <2>3
<1>13. SentShareKey'
  <2>1. \A b \in Attempts : b[1] = w /\ w \in Promised /\ Sent(b)' => att'[b].key = e.key
    BY <1>1, <1>2, <1>6, <1>8, <1>9 DEF EntriesKeepSentKey
  <2> QED
    BY <1>2, <1>6, <2>1 DEF SentShareKey
<1>14. NotQueuedYet'
  BY <1>2, <1>6, <1>7, <1>10 DEF NotQueuedYet, OnlyCopies, Carried
<1>15. NotSentYet' /\ RefusedNoEffect'
  BY <1>2, <1>6, <1>7, <1>10 DEF NotSentYet, RefusedNoEffect
<1> QED
  BY <1>11, <1>12, <1>13, <1>14, <1>15

(* The refusal the caller is shown answers the only request of its write.  *)
LEMMA DirectRefusedKeepsWriteInv ==
    ASSUME QueueInv, ServerInv, WriteInv, NEW w \in Writes, DirectRefused(w),
           UNCHANGED serverVars
    PROVE  WriteInv'
<1> USE DEF WriteInv
<1>1. att' = att /\ \A a \in Attempts : Sent(a)' = Sent(a)
  BY DEF serverVars, Sent
<1>2. call[w] = "direct" /\ call' = [call EXCEPT ![w] = "refused"] /\ Queued' = Queued
  BY DEF DirectRefused, DirectAnswered, Queued, Held, passVars
<1>3. \A v \in Writes : v # w => call'[v] = call[v]
  BY <1>2 DEF QueueInv, QueueTypeOK
<1>4. call'[w] = "refused"
  BY <1>2 DEF QueueInv, QueueTypeOK
<1>5. PICK a \in Attempts : /\ a[1] = w /\ Sent(a) /\ att[a].stage = "answered"
                            /\ att[a].reply \in {"rejected", "stale", "inflight", "unauth"}
  <2>1. <<w, 1>> \in Attempts /\ <<w, 1>>[1] = w
    BY WritesAssumption DEF Attempts
  <2> QED
    BY <2>1 DEF DirectRefused, HasReply, Sent
<1>6. att[a].tx = "none"
  BY <1>5 DEF ServerInv, RequestsOK, RequestOK
<1>7. \A b \in Attempts : b[1] = w /\ Sent(b) => b = a
  BY <1>2, <1>5 DEF NotQueuedYet, Attempts
<1>8. \A b \in Attempts : b[1] = w /\ b # a => att[b].stage = "new" /\ att[b].tx = "none"
  BY <1>7 DEF Sent, ServerInv, RequestsOK, RequestOK
<1>9. EntriesShareKey' /\ EntriesKeepSentKey' /\ SentShareKey'
  BY <1>1, <1>2 DEF EntriesShareKey, EntriesKeepSentKey, SentShareKey
<1>10. NotQueuedYet' /\ NotSentYet'
  BY <1>1, <1>2, <1>3, <1>4 DEF NotQueuedYet, NotSentYet
<1>11. RefusedNoEffect'
  BY <1>1, <1>3, <1>4, <1>5, <1>6, <1>8 DEF RefusedNoEffect
<1> QED
  BY <1>9, <1>10, <1>11

(* The server answers and commits; it neither sends nor renames a request, *)
(* and one that is answered without an effect stays so.                    *)
LEMMA ServerNextKeepsWriteInv ==
    ASSUME ServerInv, WriteInv, ServerNext, UNCHANGED queueVars
    PROVE  WriteInv'
<1> USE DEF WriteInv
<1>t. att \in [Attempts -> Request]
  BY DEF ServerInv, ServerTypeOK
<1>1. /\ RequestsKeepKey
      /\ \A a \in Attempts : att[a].tx = "none" /\ att[a].stage \in {"new", "answered"}
                              => att'[a].tx = "none" /\ att'[a].stage = att[a].stage
  <2>1. CASE Crash
    <3>1. \A a \in Attempts : att'[a] = Crashed(att[a])
      BY <2>1 DEF Crash
    <3>2. \A q \in Request :
            /\ Crashed(q).key = q.key
            /\ (Crashed(q).stage # "new") = (q.stage # "new")
            /\ q.tx = "none" /\ q.stage \in {"new", "answered"}
                  => Crashed(q).tx = "none" /\ Crashed(q).stage = q.stage
      BY DEF Crashed, Request
    <3> QED
      BY <1>t, <3>1, <3>2 DEF RequestsKeepKey, Sent
  <2>2. ASSUME NEW a \in Attempts, ServerStep(a)
        PROVE  /\ Sent(a) /\ (att[a].tx # "none" \/ att[a].stage # "answered")
               /\ att'[a].stage # "new" /\ att'[a].key = att[a].key
               /\ \A b \in Attempts : b # a => att'[b] = att[b]
    <3>1. att[a] \in Request /\ RequestOK(a, att[a])
      BY <1>t DEF ServerInv, RequestsOK, RequestOK
    <3>2. Sent(a) /\ (att[a].tx # "none" \/ att[a].stage # "answered")
      BY <2>2, <3>1 DEF ServerStep, PassThrough, Reserve, AnswerInFlight, Replay, Handle, Settle,
         SettleFails, Commit, CommitFails, LoseRequest, Sent, RequestOK
    <3>3. PICK q : att' = [att EXCEPT ![a] = q]
      BY <2>2 DEF ServerStep, PassThrough, Reserve, AnswerInFlight, Replay, Handle, Settle,
         SettleFails, Commit, CommitFails, LoseRequest, Answer, Becomes
    <3>4. att'[a].stage # "new" /\ att'[a].key = att[a].key
      <4>1. CASE PassThrough(a)
        BY <1>t, <3>1, <4>1 DEF PassThrough, Answer, Becomes, Request
      <4>2. CASE Reserve(a) \/ AnswerInFlight(a) \/ Replay(a)
        BY <1>t, <3>1, <4>2 DEF Reserve, AnswerInFlight, Replay, Answer, Becomes, Request
      <4>3. CASE \E d \in Decisions : Handle(a, d)
        BY <1>t, <3>1, <4>3 DEF Handle, Becomes, Request
      <4>4. CASE Settle(a) \/ SettleFails(a) \/ LoseRequest(a)
        BY <1>t, <3>1, <4>4 DEF Settle, SettleFails, LoseRequest, Answer, Becomes, Request
      <4>5. CASE Commit(a) \/ CommitFails(a)
        BY <1>t, <3>1, <3>2, <4>5 DEF Commit, CommitFails, Sent, Becomes, Request
      <4> QED
        BY <2>2, <4>1, <4>2, <4>3, <4>4, <4>5 DEF ServerStep
    <3> QED
      BY <1>t, <3>2, <3>3, <3>4
  <2> QED
    BY <2>1, <2>2 DEF ServerNext, RequestsKeepKey, Sent
<1>2. Queued' = Queued /\ call' = call
  BY DEF queueVars, passVars, Queued, Held
<1>3. EntriesShareKey' /\ EntriesKeepSentKey' /\ SentShareKey'
  BY <1>1, <1>2 DEF EntriesShareKey, EntriesKeepSentKey, SentShareKey, RequestsKeepKey
<1>4. NotQueuedYet' /\ NotSentYet' /\ RefusedNoEffect'
  BY <1>1, <1>2 DEF NotQueuedYet, NotSentYet, RefusedNoEffect, RequestsKeepKey
<1> QED
  BY <1>3, <1>4

LEMMA NextKeepsWriteInv == QueueInv /\ ServerInv /\ WriteInv /\ [Next]_vars => WriteInv'
<1> SUFFICES ASSUME QueueInv, ServerInv, WriteInv, [Next]_vars PROVE WriteInv'
  OBVIOUS
<1>1. ASSUME NEW w \in Writes, SendDirect(w) PROVE WriteInv'
  BY <1>1, SendDirectKeepsWriteInv
<1>2. ASSUME NEW p \in Passes, NEW w \in Writes, SendReplay(p, w) PROVE WriteInv'
  BY <1>2, SendReplayKeepsWriteInv
<1>3. ASSUME QuietQueueStep, UNCHANGED serverVars PROVE WriteInv'
  BY <1>3, QuietQueueStepEffect, QuietStepKeepsWriteInv
<1>4. CASE ClientReceives /\ UNCHANGED serverVars
  <2>1. ASSUME NEW w \in Writes, DirectRefused(w) PROVE WriteInv'
    BY <1>4, <2>1, DirectRefusedKeepsWriteInv
  <2>2. ASSUME NEW w \in Writes, DirectFailed(w) PROVE WriteInv'
    BY <1>4, <2>2, EnqueueKeepsWriteInv
  <2> QED
    BY <1>3, <1>4, <2>1, <2>2
    DEF ClientReceives, DirectSucceeds, ReplaySucceeds, ReplayStale, ReplayAnswered,
        QuietQueueStep
<1>5. CASE ClientOther /\ UNCHANGED serverVars
  <2>1. ASSUME NEW w \in Writes, CallOffline(w) PROVE WriteInv'
    BY <1>5, <2>1, EnqueueKeepsWriteInv
  <2> QED
    BY <1>3, <1>5, <2>1 DEF ClientOther, QuietQueueStep
<1>6. CASE ServerNext /\ UNCHANGED queueVars
  BY <1>6, ServerNextKeepsWriteInv
<1>7. CASE UNCHANGED vars
  BY <1>3, <1>7 DEF vars, QuietQueueStep
<1> QED
  BY <1>1, <1>2, <1>4, <1>5, <1>6, <1>7 DEF Next, ClientStep

LEMMA SpecKeepsWriteInv == Spec => []WriteInv
<1>1. Init => WriteInv
  BY WriteInvInit
<1> QED
  BY <1>1, SpecKeepsInv, NextKeepsWriteInv, PTL DEF Spec

(* INV-2: a create that carries a key takes effect at most once for its    *)
(* user, for any number of writes, users, retries, requests and crashes.   *)
THEOREM NoDuplicateCreateCorrect == Spec => []NoDuplicateCreate
<1>1. QueueInv /\ ServerInv /\ WriteInv => NoDuplicateCreate
  BY WriteInvSuffices
<1> QED
  BY <1>1, SpecKeepsInv, SpecKeepsWriteInv, PTL

(* A write the user was told is refused never takes effect.                *)
THEOREM RefusedIsFinalCorrect == Spec => []RefusedIsFinal
<1>1. QueueInv /\ ServerInv /\ WriteInv => RefusedIsFinal
  BY WriteInvSuffices
<1> QED
  BY <1>1, SpecKeepsInv, SpecKeepsWriteInv, PTL

-----------------------------------------------------------------------------
(* The refinement of CreateOnce: what its three variables stand for, the   *)
(* steps that change none of them, and the four that are steps of it.      *)
Asked == {w \in Promised : call[w] # "new"}
Refused == {w \in Promised : call[w] = "refused"}
Effect == [p \in Promised \X Users |->
              {a \in Attempts : a[1] = p[1] /\ att[a].user = p[2] /\ Applied(a)}]

CallsKept ==
    \A w \in Writes : /\ call'[w] = "new" <=> call[w] = "new"
                      /\ call'[w] = "refused" <=> call[w] = "refused"

EffectsKept ==
    \A a \in Attempts : /\ Applied(a)' <=> Applied(a)
                        /\ Applied(a) => att'[a].user = att[a].user

LEMMA PromisedAreWrites == Promised \subseteq Writes
BY WritesAssumption DEF Promised

LEMMA CallsKeptStutter == CallsKept => UNCHANGED <<Asked, Refused>>
BY PromisedAreWrites DEF CallsKept, Asked, Refused

LEMMA EffectsKeptStutter == EffectsKept => UNCHANGED Effect
<1> SUFFICES ASSUME EffectsKept PROVE Effect' = Effect
  OBVIOUS
<1>1. \A p \in Promised \X Users :
        {a \in Attempts : a[1] = p[1] /\ att[a].user = p[2] /\ Applied(a)}'
          = {a \in Attempts : a[1] = p[1] /\ att[a].user = p[2] /\ Applied(a)}
  BY DEF EffectsKept
<1> QED
  BY <1>1 DEF Effect

(* What happens to the queue ends calls that have begun and refuses none.  *)
LEMMA QuietQueueStepKeepsCalls ==
    ASSUME QueueInv, WriteInv, QuietQueueStep
    PROVE  CallsKept
<1>c. call \in [Writes -> Call]
  BY DEF QueueInv, QueueTypeOK
<1>1. CASE Initialize \/ UNCHANGED queueVars
  BY <1>1 DEF Initialize, queueVars, CallsKept
<1>2. CASE Kill
  BY <1>2 DEF Kill, CallsKept
<1>3. CASE \E w \in Writes : DirectAnswered(w, "acked")
  BY <1>3, <1>c DEF DirectAnswered, CallsKept
<1>4. CASE UserStep
  BY <1>4, UserStepCopies DEF CallsKept
<1>5. ASSUME NEW p \in Passes, PassLocal(p) PROVE CallsKept
  BY <1>5, PassLocalCopies DEF CallsKept
<1>6. ASSUME NEW p \in Passes, ReplayAnswered(p) PROVE CallsKept
  <2>1. \A e \in pass[p].current : e \in Queued /\ call[e.id] \notin {"new", "refused"}
    <3>1. \A e \in pass[p].current : e \in Queued /\ e.id \in Writes
      BY HeldCarried, EntriesTyped DEF Entry
    <3> QED
      BY <3>1 DEF WriteInv, NotQueuedYet
  <2>2. CASE ReplaySucceeded(p)
    <3>1. PICK e \in pass[p].current : call' = [call EXCEPT ![e.id] = "acked"]
      BY <2>2 DEF ReplaySucceeded
    <3> QED
      BY <1>c, <2>1, <3>1 DEF CallsKept
  <2>3. CASE ReplayConflict(p) \/ ReplayFailed(p)
    BY <2>3 DEF ReplayConflict, ReplayFailed, CallsKept
  <2> QED
    BY <1>6, <2>2, <2>3 DEF ReplayAnswered
<1> QED
  BY <1>1, <1>2, <1>3, <1>4, <1>5, <1>6 DEF QuietQueueStep

(* A request that goes out has no effect yet.                              *)
LEMMA SubmitKeepsEffects ==
    ASSUME ServerInv, NEW a \in Attempts, NEW u, NEW k, Submit(a, u, k)
    PROVE  EffectsKept
<1>1. att \in [Attempts -> Request] /\ att[a] \in Request
  BY DEF ServerInv, ServerTypeOK
<1>2. att[a].tx = "none"
  BY DEF ServerInv, RequestsOK, RequestOK, Submit
<1> DEFINE q == [att[a] EXCEPT !.stage = "sent", !.user = u, !.key = k]
<1>3. att' = [att EXCEPT ![a] = q]
  BY DEF Submit, Becomes
<1>4. q.tx = att[a].tx
  BY <1>1 DEF Request
<1> HIDE DEF q
<1>5. att'[a].tx = "none" /\ \A b \in Attempts : b # a => att'[b] = att[b]
  BY <1>1, <1>2, <1>3, <1>4
<1> QED
  BY <1>2, <1>5 DEF EffectsKept, Applied

(* Only a commit has an effect.                                            *)
LEMMA ServerKeepsEffects ==
    ASSUME ServerInv, ServerNext
    PROVE  EffectsKept \/ \E a \in Attempts : Commit(a)
<1>t. att \in [Attempts -> Request]
  BY DEF ServerInv, ServerTypeOK
<1>1. CASE Crash
  <2>1. \A a \in Attempts : att'[a] = Crashed(att[a])
    BY <1>1 DEF Crash
  <2>2. \A q \in Request : /\ Crashed(q).tx = "committed" <=> q.tx = "committed"
                           /\ Crashed(q).user = q.user
    BY DEF Crashed, Request
  <2> QED
    BY <1>t, <2>1, <2>2 DEF EffectsKept, Applied
<1>2. ASSUME NEW a \in Attempts, NEW q, Becomes(a, q), q.user = att[a].user,
             q.tx = "committed" <=> att[a].tx = "committed"
      PROVE  EffectsKept
  BY <1>t, <1>2 DEF Becomes, EffectsKept, Applied
<1>3. ASSUME NEW a \in Attempts, ServerStep(a), ~Commit(a) PROVE EffectsKept
  <2>t. att[a] \in Request
    BY <1>t
  <2>x. RequestOK(a, att[a])
    BY DEF ServerInv, RequestsOK, RequestOK
  <2>1. CASE PassThrough(a) \/ Reserve(a) \/ LoseRequest(a) \/ Settle(a)
    <3>1. ASSUME NEW s, NEW r,
                 \/ Becomes(a, [att[a] EXCEPT !.stage = s])
                 \/ Becomes(a, [att[a] EXCEPT !.stage = s, !.reply = r])
          PROVE  EffectsKept
      <4>1. /\ [att[a] EXCEPT !.stage = s].user = att[a].user
            /\ [att[a] EXCEPT !.stage = s].tx = att[a].tx
            /\ [att[a] EXCEPT !.stage = s, !.reply = r].user = att[a].user
            /\ [att[a] EXCEPT !.stage = s, !.reply = r].tx = att[a].tx
        BY <2>t DEF Request
      <4> QED
        BY <1>2, <3>1, <4>1
    <3> QED
      BY <2>1, <3>1 DEF PassThrough, Reserve, LoseRequest, Settle, Answer
  <2>2. CASE AnswerInFlight(a) \/ Replay(a) \/ SettleFails(a)
    <3>1. PICK r : Becomes(a, [att[a] EXCEPT !.stage = "answered", !.reply = r])
      BY <2>2 DEF AnswerInFlight, Replay, SettleFails, Answer
    <3> DEFINE q == [att[a] EXCEPT !.stage = "answered", !.reply = r]
    <3>2. q.user = att[a].user /\ q.tx = att[a].tx
      BY <2>t DEF Request
    <3> QED
      BY <1>2, <3>1, <3>2
  <2>3. ASSUME NEW d \in Decisions, Handle(a, d) PROVE EffectsKept
    <3> DEFINE q == [att[a] EXCEPT !.stage = IF Deduped(a) THEN "decided" ELSE "answered",
                                   !.reply = d,
                                   !.tx = IF d = "ok" THEN "open" ELSE "none"]
    <3>1. Becomes(a, q) /\ att[a].tx = "none"
      BY <2>3, <2>x DEF Handle, RequestOK
    <3>2. q.user = att[a].user /\ q.tx # "committed"
      BY <2>t DEF Request
    <3> QED
      BY <1>2, <3>1, <3>2
  <2>4. CASE CommitFails(a)
    <3> DEFINE q == [att[a] EXCEPT !.tx = "rolledback"]
    <3>1. Becomes(a, q) /\ att[a].tx = "open"
      BY <2>4 DEF CommitFails
    <3>2. q.user = att[a].user /\ q.tx = "rolledback"
      BY <2>t DEF Request
    <3> QED
      BY <1>2, <3>1, <3>2
  <2> QED
    BY <1>3, <2>1, <2>2, <2>3, <2>4 DEF ServerStep
<1> QED
  BY <1>1, <1>3 DEF ServerNext

(* A call begins: the create is asked for.                                 *)
LEMMA CallAsks ==
    ASSUME QueueInv, NEW w \in Writes, NEW c, c \notin {"new", "refused"},
           call[w] = "new", call' = [call EXCEPT ![w] = c], EffectsKept
    PROVE  [Abstract!Next]_<<Asked, Refused, Effect>>
<1>1. call \in [Writes -> Call]
  BY DEF QueueInv, QueueTypeOK
<1>2. Refused' = Refused /\ Effect' = Effect
  BY <1>1, PromisedAreWrites, EffectsKeptStutter DEF Refused
<1>3. CASE w \in Promised
  <2>1. w \notin Asked /\ Asked' = Asked \cup {w}
    BY <1>1, <1>3, PromisedAreWrites DEF Asked
  <2>2. Abstract!Ask(w)
    BY <1>2, <2>1 DEF Abstract!Ask, Asked, Refused, Effect
  <2> QED
    BY <1>3, <2>2 DEF Abstract!Next
<1>4. CASE w \notin Promised
  <2>1. Asked' = Asked
    BY <1>1, <1>4, PromisedAreWrites DEF Asked
  <2> QED
    BY <1>2, <2>1
<1> QED
  BY <1>3, <1>4

(* A refusal: no request of the write has an effect, nor will one.         *)
LEMMA RefusalRefuses ==
    ASSUME QueueInv, WriteInv', NEW w \in Writes, DirectRefused(w), UNCHANGED serverVars
    PROVE  [Abstract!Next]_<<Asked, Refused, Effect>>
<1>1. call \in [Writes -> Call]
  BY DEF QueueInv, QueueTypeOK
<1>2. call[w] = "direct" /\ call' = [call EXCEPT ![w] = "refused"] /\ att' = att
  BY DEF DirectRefused, DirectAnswered, serverVars
<1>3. Asked' = Asked
  BY <1>1, <1>2, PromisedAreWrites DEF Asked
<1>4. Effect' = Effect
  BY <1>2, EffectsKeptStutter DEF EffectsKept, Applied
<1>5. CASE w \in Promised
  <2>1. w \in Asked \ Refused /\ Refused' = Refused \cup {w}
    BY <1>1, <1>2, <1>5, PromisedAreWrites DEF Asked, Refused
  <2>2. \A a \in Attempts : a[1] = w => ~Applied(a)
    <3>1. call'[w] = "refused"
      BY <1>1, <1>2
    <3> QED
      BY <1>2, <3>1 DEF WriteInv, RefusedNoEffect, Applied
  <2>3. \A u \in Users : Effect[<<w, u>>] = {}
    BY <1>5, <2>2 DEF Effect
  <2>4. Abstract!Refuse(w)
    BY <1>3, <1>4, <2>1, <2>3 DEF Abstract!Refuse, Asked, Refused, Effect
  <2> QED
    BY <1>5, <2>4 DEF Abstract!Next
<1>6. CASE w \notin Promised
  <2>1. Refused' = Refused
    BY <1>1, <1>2, <1>6, PromisedAreWrites DEF Refused
  <2> QED
    BY <1>3, <1>4, <2>1
<1> QED
  BY <1>5, <1>6

(* A commit: the create was asked for, is not refused, and no other        *)
(* request of the user has had its effect.                                 *)
LEMMA CommitTakesEffect ==
    ASSUME ServerInv, WriteInv, NEW a \in Attempts, Commit(a), call' = call
    PROVE  [Abstract!Next]_<<Asked, Refused, Effect>>
<1> DEFINE w == a[1]
           q == [att[a] EXCEPT !.tx = "committed"]
<1>1. att \in [Attempts -> Request] /\ att[a] \in Request
  BY DEF ServerInv, ServerTypeOK
<1>2. att[a].tx = "open" /\ att' = [att EXCEPT ![a] = q]
  BY DEF Commit, Becomes
<1>3. q.user = att[a].user /\ q.tx = "committed"
  BY <1>1 DEF Request
<1>s. Sent(a) /\ att[a].user \in Users
  BY <1>1, <1>2 DEF Request, ServerInv, RequestsOK, RequestOK, Sent
<1>4. PICK u \in Users : u = att[a].user
  BY <1>s
<1> HIDE DEF q
<1>5. /\ att'[a].user = u /\ Applied(a)' /\ ~Applied(a)
      /\ \A b \in Attempts : b # a => att'[b] = att[b] /\ (Applied(b)' <=> Applied(b))
  BY <1>1, <1>2, <1>3, <1>4 DEF Applied
<1>6. Asked' = Asked /\ Refused' = Refused
  BY DEF Asked, Refused
<1>7. CASE w \in Promised
  <2>1. w \in Writes /\ w \in Asked \ Refused
    BY <1>2, <1>s, <1>7, PromisedAreWrites
    DEF Asked, Refused, WriteInv, NotSentYet, RefusedNoEffect
  <2>2. ASSUME NEW b \in Attempts, b[1] = w, att[b].user = u, Applied(b) PROVE FALSE
    <3>1. Sent(b)
      BY <2>2 DEF Applied, Sent, ServerInv, RequestsOK, RequestOK
    <3>2. SameKey(a, b)
      BY <1>s, <1>4, <1>7, <2>2, <3>1, WritesAssumption
      DEF SameKey, Deduped, RowOf, Promised, WriteInv, SentShareKey
    <3> QED
      BY <1>2, <2>2, <3>2 DEF ServerInv, LiveExcludes, Live, Applied
  <2>3. Effect[<<w, u>>] = {}
    BY <1>4, <1>7, <2>2 DEF Effect
  <2>4. Effect' = [Effect EXCEPT ![<<w, u>>] = {a}]
    <3>1. ASSUME NEW p \in Promised \X Users
          PROVE  Effect'[p] = IF p = <<w, u>> THEN {a} ELSE Effect[p]
      <4>1. Effect'[p] = {b \in Attempts : b[1] = p[1] /\ att'[b].user = p[2] /\ Applied(b)'}
        BY <3>1 DEF Effect
      <4>2. CASE p = <<w, u>>
        BY <1>5, <2>2, <4>1, <4>2
      <4>3. CASE p # <<w, u>>
        <5>1. ~(a[1] = p[1] /\ u = p[2])
          BY <3>1, <4>3
        <5>2. \A b \in Attempts : b[1] = p[1] /\ att'[b].user = p[2] /\ Applied(b)'
                 <=> b[1] = p[1] /\ att[b].user = p[2] /\ Applied(b)
          BY <1>5, <5>1
        <5> QED
          BY <3>1, <4>1, <4>3, <5>2 DEF Effect
      <4> QED
        BY <4>2, <4>3
    <3> QED
      BY <3>1 DEF Effect
  <2>5. Abstract!TakeEffect(w, u, a)
    BY <1>6, <2>1, <2>3, <2>4 DEF Abstract!TakeEffect, Asked, Refused, Effect
  <2> QED
    BY <1>7, <2>5 DEF Abstract!Next
<1>8. CASE w \notin Promised
  <2>1. \A p \in Promised \X Users :
          {b \in Attempts : b[1] = p[1] /\ att'[b].user = p[2] /\ Applied(b)'}
            = {b \in Attempts : b[1] = p[1] /\ att[b].user = p[2] /\ Applied(b)}
    BY <1>5, <1>8
  <2>2. Effect' = Effect
    BY <2>1 DEF Effect
  <2> QED
    BY <1>6, <2>2
<1> QED
  BY <1>7, <1>8

LEMMA NextImplementsAbstract ==
    ASSUME QueueInv, ServerInv, WriteInv, WriteInv', [Next]_vars
    PROVE  [Abstract!Next]_<<Asked, Refused, Effect>>
<1>1. ASSUME CallsKept, EffectsKept PROVE [Abstract!Next]_<<Asked, Refused, Effect>>
  BY <1>1, CallsKeptStutter, EffectsKeptStutter
<1>2. UNCHANGED serverVars => EffectsKept
  BY DEF serverVars, EffectsKept, Applied
<1>3. ASSUME NEW w \in Writes, SendDirect(w) PROVE [Abstract!Next]_<<Asked, Refused, Effect>>
  <2>1. <<w, 1>> \in Attempts
    BY WritesAssumption DEF Attempts
  <2>2. EffectsKept
    BY <1>3, <2>1, SubmitKeepsEffects DEF SendDirect
  <2>3. call[w] = "new" /\ call' = [call EXCEPT ![w] = "direct"]
    BY <1>3 DEF SendDirect, CallOnline, Calls
  <2> QED
    BY <2>2, <2>3, CallAsks
<1>4. ASSUME NEW p \in Passes, NEW w \in Writes, SendReplay(p, w)
      PROVE  [Abstract!Next]_<<Asked, Refused, Effect>>
  <2>1. PICK n \in 1 .. MaxSends : \E k : Submit(<<w, n>>, session, k)
    BY <1>4 DEF SendReplay
  <2>2. EffectsKept
    BY <2>1, SubmitKeepsEffects DEF Attempts
  <2>3. CallsKept
    BY <1>4 DEF SendReplay, FlushSend, Visits, CallsKept
  <2> QED
    BY <1>1, <2>2, <2>3
<1>5. ASSUME QuietQueueStep, UNCHANGED serverVars
      PROVE  [Abstract!Next]_<<Asked, Refused, Effect>>
  BY <1>1, <1>2, <1>5, QuietQueueStepKeepsCalls
<1>6. CASE ClientReceives /\ UNCHANGED serverVars
  <2>1. ASSUME NEW w \in Writes, DirectRefused(w)
        PROVE  [Abstract!Next]_<<Asked, Refused, Effect>>
    BY <1>6, <2>1, RefusalRefuses
  <2>2. ASSUME NEW w \in Writes, DirectFailed(w)
        PROVE  [Abstract!Next]_<<Asked, Refused, Effect>>
    <3>1. call \in [Writes -> Call]
      BY DEF QueueInv, QueueTypeOK
    <3>2. CallsKept
      BY <2>2, <3>1 DEF DirectFailed, Enqueue, CallsKept
    <3> QED
      BY <1>1, <1>2, <1>6, <3>2
  <2> QED
    BY <1>5, <1>6, <2>1, <2>2
    DEF ClientReceives, DirectSucceeds, ReplaySucceeds, ReplayStale, ReplayAnswered,
        QuietQueueStep
<1>7. CASE ClientOther /\ UNCHANGED serverVars
  <2>1. ASSUME NEW w \in Writes, CallOffline(w)
        PROVE  [Abstract!Next]_<<Asked, Refused, Effect>>
    <3>1. call[w] = "new" /\ call' = [call EXCEPT ![w] = "queued"]
      BY <2>1 DEF CallOffline, Calls, Enqueue
    <3> QED
      BY <1>2, <1>7, <3>1, CallAsks
  <2> QED
    BY <1>5, <1>7, <2>1 DEF ClientOther, QuietQueueStep
<1>8. CASE ServerNext /\ UNCHANGED queueVars
  <2>1. call' = call
    BY <1>8 DEF queueVars
  <2>2. CallsKept
    BY <2>1 DEF CallsKept
  <2> QED
    BY <1>1, <1>8, <2>1, <2>2, ServerKeepsEffects, CommitTakesEffect
<1>9. CASE UNCHANGED vars
  BY <1>5, <1>9 DEF vars, QuietQueueStep
<1> QED
  BY <1>3, <1>4, <1>6, <1>7, <1>8, <1>9 DEF Next, ClientStep

LEMMA InitImplementsAbstract == Init => Abstract!Init
<1> SUFFICES ASSUME Init PROVE Abstract!Init
  OBVIOUS
<1>1. \A w \in Promised : call[w] = "new"
  BY PromisedAreWrites DEF Init, QueueInit, Promised
<1>2. \A a \in Attempts : ~Applied(a)
  BY DEF Init, ServerInit, NotSent, Applied
<1>3. Asked = {} /\ Refused = {}
  BY <1>1 DEF Asked, Refused
<1>4. Effect = [p \in Promised \X Users |-> {}]
  BY <1>2 DEF Effect
<1> QED
  BY <1>3, <1>4 DEF Abstract!Init, Asked, Refused, Effect

(* Queue, network and middleware together keep the promise of CreateOnce:  *)
(* every step of theirs is a step of it or changes nothing it speaks of.   *)
THEOREM CreatesHappenOnceCorrect == Spec => CreatesHappenOnce
<1>1. QueueInv /\ ServerInv /\ WriteInv /\ WriteInv' /\ [Next]_vars
        => [Abstract!Next]_<<Asked, Refused, Effect>>
  BY NextImplementsAbstract
<1>2. Spec => Abstract!Init /\ [][Abstract!Next]_<<Asked, Refused, Effect>>
  BY <1>1, InitImplementsAbstract, SpecKeepsInv, SpecKeepsWriteInv, PTL DEF Spec
<1> QED
  BY <1>2, PTL DEF CreatesHappenOnce, Abstract!Spec, Asked, Refused, Effect

==============================================================================
