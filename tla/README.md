# A TLA+ model of the lesson app

The lesson app connects private music teachers with students and their parents.
It is a Flutter client (`frontend/`), a FastAPI server over PostgreSQL
(`backend/`) and a few outside services (push, chat messages, storage, the app
stores). This directory models the parts whose correctness depends on the order
in which things happen: the client's offline write queue with the server's
idempotency table beneath it, the accounting of lesson sessions, and the parts
of the server where two parties and a scheduled job act on one contract:
proposals, the calendar, group classes, changes of a schedule, the nightly expiry
and its locks, and the matching of payments. Paths are
relative to the repository's root; `lib` stands for `frontend/lib` and `app` for
`backend/app`.

1. [Inventory](#1-inventory)
2. [Plan](#2-plan)
3. [Offline writes](#3-offline-writes)
4. [Server transactions](#4-server-transactions)
   ([lesson charges](#lesson-charges), [proposals](#proposals), [calendar](#calendar),
   [group classes](#group-classes), [academy payments](#academy-payments),
   [schedule changes](#schedule-changes), [job locks and the expiry job](#job-locks-and-the-expiry-job))
5. [Runs](#5-runs)
6. [Proofs](#6-proofs)
7. [Where code and documentation disagree](#7-where-code-and-documentation-disagree)
8. [Not modelled](#8-not-modelled)

To repeat the checks: `tlc -config MCSyncQueue.cfg MCSyncQueue.tla` (and so on
for every configuration), `tlapm OfflineWrites_proofs.tla` (and the
other seven).

## 1. Inventory

### How the parts interact

A screen of the app calls a repository, which wraps every mutation in
`MutationQueueHelper`. That sends it directly when the device seems online and
puts it into `SyncQueueStore` when it is not, or when sending fails for a reason
of the network. `SyncService` replays the queue through one adapter per domain.
Each request goes through interceptors (token, Idempotency-Key, response cache)
to the server, where `IdempotencyMiddleware` deduplicates POSTs and the handler
runs its service in one database transaction (`get_db`). The same services are
called from the jobs of `app/core/scheduler.py`. Lessons, subscriptions and
usage rows are shared by lesson screens, bookings, group classes, refunds and the
attendance job, all of which charge or release sessions.

### Components

| Component | State | Operations | Hard behaviour | Correct when |
|---|---|---|---|---|
| Offline write queue (`lib/core/sync`) | Hive box of entries, `_isRunning`, copies held by a pass, the session's token | enqueue, direct call, `syncPending`, replay, cleanup, recovery of orphans, retry, delete, logout, login | passes that overlap across an await, a kill anywhere, stale copies written back, logout under a running pass | nothing unsent is lost or stranded, order within a domain, only the author's token |
| Idempotency middleware (`app/core/idempotency.py`) | table `idempotency_keys`, two transactions per request | reserve, replay, in-flight answer, store, release | concurrent duplicates, crash between two commits, a commit that fails after the answer | one effect and one final answer per key |
| Lesson charges (`lesson_service`, `attendance_scheduler_service`, `subscription_service`, `refund_request_service`) | lesson status, `used_lessons`, `payment_confirmed_at`, `first_lesson_consumed_at`, `subscription_usages` | change status, auto-complete, delete, add usage, deduct, confirm and undo payment, refund, update | READ COMMITTED transactions that lock some reads and not others; the app's record racing the server's | one charge per lesson, only when paid, counter equal to rows |
| Subscription lifecycle (`subscription_expiry_service`, `_dispatcher`, `subscription_service`) | status column, dates, `subscription_expiry_dispatch_log` | nightly check, dispatch, change status, edit dates, pause, resume | nightly job against requests; transitions judged on unlocked reads | a notice once per subscription and day |
| Proposals and renewal (`subscription_service`, `payment_tracking_service`) | proposal row, preview lessons, linked request | propose, renew, accept, reject, cancel, revoke, expire, confirm | two parties and an expiry job answer at once | one outcome; one subscription per proposal, and only on notice of payment |
| Schedule change negotiation (`subscription_service.add_event`, `lesson_request_service.add_event`, `schedule_change_expiry_jobs`) | event log per session, allowance counter | propose, counter, cancel, answer, remind, expire, use, set | two endpoints of which one judges turns; hourly job in every process, judged by the log it reads | judged answers take turns; marked once; no use or return of an allowance lost or invented |
| Bookings (`schedule_service`, `lesson_service`) | `lesson_bookings`, lessons, changes left | book, approve, move, edit, cancel, delete, single lesson, bulk change | one slot taken twice; two moves for the last change; moves that cost nothing | a slot given once; a move that asks for a change pays one |
| Schedule confirmation (`schedule_confirmation_service`) | card, the series it makes | confirm, reject, dismiss, register | two series generated at once; the card judged before the lock | series of one teacher do not collide |
| Group classes (`schedule_ext_service`) | seats, waiting list, bookings, no-show records | book, cancel, promote, mark, deduct | last seat taken twice; policy and deduction at once; cancellation racing promotion | a booking charged once; never over capacity |
| Scheduled jobs and advisory locks (`app/core/scheduler.py`, `app/jobs`) | advisory locks on pooled connections | acquire, run, unlock, fail | a connection returned to the pool with its lock | one instance runs a job; the job runs again |
| Lesson requests | request, counter-proposals | ask, counter, accept, withdraw, expire | both sides answer at once | one outcome |
| Refund requests | request status | request, approve, complete, reject, withdraw | complete against withdraw | money and sessions agree |
| Makeup credits | credit status, expiry | grant, use, return, expire | use against expiry | a credit is used at most once |
| Vacation mode | date range, extended subscriptions | start, change, cancel | applied twice, undone after a renewal | extension equals vacation days |
| Invites, relationships | code, status, relationship row | invite, accept, end, resume | accepted twice, expired while accepted | one active relationship per pair |
| Sign-in and tokens | access and refresh token | sign in, refresh, log out | concurrent 401s refresh at once | one refresh; no logout by accident |
| Phone verification, rate limits | code, attempts | send, verify, expire | attempts counted concurrently | never more attempts than allowed |
| Academy governance | members, roles, owner | invite, transfer, leave | transfer racing leave | always an owner |
| Academy billing and payment matching (`academy_payment_matching_service`, `academy_billing_service`) | deposits, invoices, payments, suggestions | suggest, match, split, ignore, revert, record, send | one deposit matched twice; statuses computed from unlocked sums | a deposit spent once; paid means received |
| App store billing | purchase rows | verify, webhook | repeated notifications | a row per purchase |
| Response cache (app) | entries by URL | read, store, invalidate | a stale answer stored after a mutation | no answer older than the last mutation |
| Connectivity, initial pull (app) | online flag | probe, pull | flaps | the queue is woken |
| Notifications, practice, profiles, audio, screens, migrations | various | various | little interaction | see section 8 |

`PROJECT.json` lists all of them with their sources, and under "hazards" the
lines where something can go wrong that a test would hardly reach, with the
properties that watch them or the reason why none does yet.

## 2. Plan

The order follows what costs a user most when it fails: a lost or doubled write,
a lost or doubled session, then the life of the contract around those sessions.

| Step | Modules | What it adds | Theorems |
|---|---|---|---|
| A, done | `SyncTypes`, `SyncQueue`, `IdempotencyMiddleware`, `OfflineWrites` (composes the two), `CreateOnce` (abstract) | the write path from the tap to the database | proved: types, nothing stranded, nothing lost, order and final failures in turn, once per key, one answer, no duplicate create, refused is final, and the refinement of `CreateOnce` |
| B, done | `LessonCharges` | everything that charges or releases a session | proved: counter bounds, charged once by the server, paid, completion charged, counter equals rows |
| C, done | `JobLocks`, `SubscriptionExpiry` (built on it) | advisory locks on pooled connections with several processes; the nightly job | proved: types, one run at a time, notice once, push once |
| D, done | `ScheduleChange` | the event log of a negotiation, its job, the allowance | proved: types, marked once, allowances add up, answered in turn |
| E, done | `Calendar`, `GroupClasses` | slots, series, moves; seats, waiting list, attendance | proved: first come first served, series disjoint, moves paid; booking charged once, marker, seats in turn |
| F, done | `Proposals`, `AcademyPayments` | an offer with one outcome; a deposit spent once | proved: types, minted once, issued on notice, issues backed; matched is backed, suggestions decided, paid in turn |
| G, left | `LessonRequests`, `MakeupCredits`, refund requests | a request that one side accepts while the other withdraws it; a credit spent and given back | one outcome, a credit used once |
| H, left | `TokenRefresh`, `ResponseCache` | a refresh whose answer is lost; a stale answer stored after an invalidation | one refresh per expiry |

Bounds are small everywhere: two actors of every kind that can collide, one or two
of everything they collide over.

## 3. Offline writes

### Modules and code

`SyncTypes` holds what both sides share: writes, users, domains, and keys. A
write is one call of `MutationQueueHelper`. A key, a uuid in the code, is a number
under its write: 0 for the key the helper draws when it queues a write offline,
n for the one the interceptor draws on the n-th send of a request that carries
none. Distinct draws are distinct keys, which is all the uuid is for.

`SyncQueue` is the client.

| Variable | Code |
|---|---|
| `box` | the Hive box of `SyncQueueStore`: status, retryCount, idempotencyKey, createdAt (`at`) |
| `up` | the process is alive and `SyncService.initialize` has cleaned the box |
| `session`, `leaving` | `TokenStorage`; between `logout`'s clearing of the tokens and of the box |
| `call` | where each `MutationQueueHelper` call stands, and what its caller was told |
| `running` | `_isRunning` |
| `pass` | one record per `syncPending` under way: its stage, the entries it read and has yet to visit, the domains it holds back, the entry it replays, what its cleanup has picked |
| `raced` | history only: whether two passes have overlapped |

Dart runs a callback until its next await, so one action is what lies between
two awaits of the network, the disk or the platform. That cut matters twice:
`syncPending` tests `_isRunning`, then awaits `isOnline`, then sets it
(`SyncPending`, then `FlushStart` or `StayOffline`), so passes may overlap; and a
pass works on copies it read at its beginning (`todo`, `current`), which it
writes back whatever has happened to the box meanwhile (`Upsert`). `Kill` leaves
`box` and `session`; `Initialize` then recovers the entries left in `syncing` (back
to pending if they carry a key or are no POST, else to failed and out of
retries) and cleans up. `FlushSend`, `ReplaySucceeded`, `ReplayConflict`,
`ReplayFailed`, `FlushSkip`, `FlushBackoff`, `FlushNoAdapter` are the branches of
`_flushQueue`; `FlushEnd`, `CleanupDelete`, `CleanupTrim`, `PassEnd` are `cleanup`,
which picks and then deletes one entry per await. `RetryEntry`,
`RetryFailedEntries`, `DeleteEntry` are the buttons of the banner.

`IdempotencyMiddleware` is the server's side of a write. Each attempt (the n-th
request for a write) runs through the network, the middleware and the handler;
`att[a].tx` is the handler's own transaction, which `get_db` commits after the
answer has left the handler, so that it and the middleware's stored answer are
committed in either order (`Settle`, `Commit`). `SettleFails`, `CommitFails` and
`Crash` are the failures. Only POSTs with a user are deduplicated.

`OfflineWrites` joins them: `SendDirect` and `SendReplay` submit an attempt, the
client's `ReplaySucceeds`, `ReplayStale`, `DirectSucceeds` and `DirectRefused` need
the matching answer of the attempt they wait for, and the failures need none,
because a timeout may come before, instead of or after the answer. An attempt
that nobody waits for stays in the network and may take effect much later.

`CreateOnce` is the promise in one page: asked, refused, effect. The composed
specification is shown to implement it with `Abstract == INSTANCE CreateOnce WITH`
in `OfflineWrites`: a create is asked for when its call begins, refused when its
caller is told so, and its effect is the set of attempts whose transaction has
committed.

### Abstractions

- Payloads, statistics, streams and the invalidation of read caches are left out.
- The clock is left out. A backoff may be over or not (`FlushBackoff` or
  `FlushSend`); which entries are older than seven days is any subset.
- `initialize` starts unawaited in `main.dart` (152-162); the model lets nothing else
  use the box before it is through.
- A tap in the banner acts on entries still in `failed`. The banner's list may in
  fact be a moment old (see the hazards).
- The first attempt of a write is the direct call's. A write queued offline
  starts its replays at the first attempt too.
- One write is one user intention: a user who types the same lesson twice has
  made two writes.

### Fairness

`QueueFairness` is used by one run, `settles`. The app is opened again after a
kill (WF `Initialize`); the 30 second poll of `SyncService` calls `syncPending` for
ever (WF); a pass that asks finds the device online again and again (SF
`FlushStart`; connectivity may flap, so WF would say nothing); Dart resumes what
can run (WF on the local steps of a pass and on cleanup); every request gets an
answer or a timeout, as the client sets one (WF `ReplayAnswered`); a write
that is visited again and again is not in backoff every time, since backoffs are
bounded (SF `FlushSend`). `Settles` itself assumes that kills stop some day:
with an app killed before every answer nothing can be promised.

## 4. Server transactions

A request of the server, and a run of a job, is one database transaction at READ
COMMITTED (`get_db`; a job that commits twice is two). Every module below cuts it into
at most three steps:

1. *Begin*: what it reads and judges without a lock; the code's early returns are the
   guards;
2. *Lock*: its first `SELECT ... FOR UPDATE`, advisory lock or flushed write, enabled only
   while no other transaction holds that row or lock, with the reads after it;
3. *Commit*: the writes, all at once, as the values the handler computed from what it
   had read. `Abort` stands for a failed check, an error, the victim of a deadlock or a
   crash.

The fields of a transaction are therefore what it has read, and a guard in step 1 says
nothing about the database in step 3. Two rules of SQLAlchemy decide what is fresh. A
column is written only if its new value differs from the one that was read (`SetStatus`
in `Proposals`, `CommitApproval` and `CommitRewrite` in `Calendar`). And a locked read refreshes an object only
if the session does not hold it any more: an object that was dropped after the
first read is read again under the lock (`confirm_proposal`), one that is still
referenced keeps its old columns (`Charges` in `GroupClasses`).

### Lesson charges

`LessonCharges` models every path that charges a session, gives one back or sets
the counter. `seen` (the lesson's status) and, for the operations that take no lock, `used`
are read when a transaction begins; the lock is that of the subscription's row.

| Action | Code |
|---|---|
| `UpdateStatus`, `CommitStatus` | `LessonService.update_status`: the status, then deduct or release by the old and new status and the policy |
| `AutoComplete`, `CommitAuto` | `AttendanceSchedulerService`, 24 h after the lesson |
| `DeleteLesson`, `CommitDelete` | `LessonService.delete` |
| `PostUsage`, `AddUsage`, `CommitUsage` | the app's `handleLessonNonCompletion` and `SubscriptionService.add_usage` |
| `DeductLesson`, `CommitDeduct` | `deduct_lesson`, with or without `deducted` |
| `ConfirmPayment`, `CommitConfirm` | `confirm_payment` |
| `UndoConfirmPayment`, `CommitUndo` | `undo_confirm_payment`, which also cancels generated lessons |
| `CompleteRefund`, `UpdateSubscription` | the two that set `used_lessons` to a value, from an unlocked read |
| `Charge`, `Release`, `Records` | `deduct_for_completed_lesson`, `release_lesson_usage`, and the insert of a usage row |

Abstractions:

- A row lock on the lesson itself is not modelled: an unlocked write of its status
  that waits for another transaction is the same as one made right after it.
- The ownership check reads the subscription before the locked read does; that
  object is no longer referenced by then, so the locked read is a fresh one.
- Undo picks the lessons it cancels at its commit.
- The app posts at most one usage record for a lesson, and the key of that record
  lets one request with it run at a time, which is what section 3 establishes.
  It may name any subscription of the student.
- `refunded` stands for the status of the refund request.
- The table's `CHECK` on the counter is what `Records` and the type invariant use.
- Left out: previews, lessons of a makeup credit, lessons without a subscription,
  unlimited subscriptions, a monthly plan without a total, the subscription's
  status column, changes of capacity, several lessons in one transaction of the
  job. Bookings and group classes make the same deduct and release calls.

### Proposals

`Proposals` is what one teacher offers one student: `proposal` (status, deadline passed,
`subscription_id`), `minted` (subscriptions issued for it, each with its confirmation card),
`relation` (the subscription the relationship was last activated with), `request` (the lesson
request the offer answers) and `lesson` (the preview lessons booked beyond the last
session).

| Action | Code |
|---|---|
| `CreateProposal`, `CreateRenewalProposal`, `CommitCreate` | `create_proposal` with `_assert_no_active_proposal`; `create_renewal_proposal` without it |
| `Respond`, `CommitAccept`, `CommitEnd` | `respond_to_proposal` (accept, reject, cancel) and `payment_tracking_service.revoke` |
| `ExpireProposal`, `CommitEnd` | the nightly sweep and the teacher's `expire_old_proposals` |
| `ConfirmProposal`, `CommitConfirm` | `confirm_proposal`: read FOR UPDATE, reuse the hinted subscription or issue one, promote the previews, move the request on |
| `Deadline`, `CreatePreview`, `EndLesson` | the clock, `_apply_overflow_mode`, a lesson that ends |

Only `confirm` judges the status under the lock; the others write over whatever is
there by then. Amounts, discounts, membership and notifications are left out. A
counter-proposal is a proposal; the sweep, which expires many rows in one transaction,
is one transaction per proposal.

### Calendar

`Calendar` is the calendar of one teacher: `booking` (rows of `lesson_bookings`), `lesson`
(rows of `lessons`), `card` (the confirmation card of the subscription all share), `used`
(`used_reschedule_count`). History that no action reads: `kept` marks a booking that has
stayed pending or confirmed in its first slot, and a lesson that was never moved, cancelled
or revived; `balance` is the count as last set by hand, with what was spent and given back
since; `unpaid` says that a student's PUT has moved a booking for nothing.

| Action | Code | Lock |
|---|---|---|
| `CreateBooking` | `ScheduleService.create_booking`, `_check_booking_overlap` | the teacher's row |
| `ConfirmCard` | `ScheduleConfirmationService.confirm_card`, `update_card_status` | advisory, by teacher |
| `CreateStandaloneRegularLessons` | the service method of that name | advisory, by teacher |
| `CreateLesson` | `LessonService.create` with `check_time_conflict` | none |
| `ApproveBooking` | `approve_booking` | none |
| `ChangeBooking`, `UpdateBooking`, `CommitMove` | `change_booking`, and a PUT that names no other status: they spend a change | the subscription's row |
| `UpdateBooking`, `CommitRewrite` | a PUT of the teacher that names another status with the new slot: it spends none | none |
| `SetStatus`, `DeleteBooking`, `CloseCard` | complete, reject, cancel, PUT of a status, delete, dismiss | none |
| `MoveLesson`, `SetLessonStatus` | `LessonService.update`, `update_status`, `delete` | none |
| `BulkChange` | `SubscriptionService.bulk_change`, `_sync_lesson_to_booking_change` | none |
| `ApplyScheduleChange` | `LessonRequestService._apply_schedule_change_to_lessons` and the bulk form of it | none |
| `UseReschedule`, `RestoreCredit`, `UpdateSubscription` | the other writers of the count: the teacher's use, the hourly job, PUT of the subscription | the subscription's row |

`Overlaps` and `Conflicts` see what the two checks of the code see, and no more: a
direct booking carries the teacher's user id, everything else the profile id, and
`_check_booking_overlap` looks for the former among bookings only. A booking and a lesson
are one occurrence when teacher id and slot agree (`SameOccurrence`), as no key joins the
tables. A series is one occurrence, and a bulk change one booking at a time; whether the new slot
was taken, and the occurrence lost, is left open: the code looks there at bookings with the same
teacher id (an accepted change at those of other subscriptions) and at no lesson. Availability, exceptions, makeup bookings, bookings of no subscription
(they move for nothing) and grants of bonus changes (`patch_reschedule_credits`) are left out.

### Group classes

`GroupClasses` is one session of a class: `booking` (row of a student: status, place in the
line, `is_deducted`), `seats` and `waiting` (the two counters of the schedule row), `records`
(no-show records), `charged` (usage rows the class has recorded), `used` (the student's
`used_lessons`). `raced` and `handed` are history.

| Action | Code |
|---|---|
| `CreateGroupBooking`, `CommitBooking` | `create_group_booking`: the counters are read without a lock |
| `CancelGroupBooking`, `CommitCancel` | `cancel_group_booking`, `_promote_from_waitlist` |
| `PromoteFromWaitlistPublic`, `CommitPromotion` | the teacher's promotion, which leaves the counters alone |
| `MarkNoShow`, `CommitNoShow` | `mark_attendance`, `_process_no_show` with the class's policy |
| `DeductSubscription`, `CommitDeduction` | `deduct_subscription`, FOR UPDATE of the booking, then `add_usage` |
| `MarkAttended`, `AutoCancelWaitlist`, `ChargeLesson` | single writes; the last is a charge of section "Lesson charges" to the same subscription |

Classes and their recurrence, fixed members and makeup credits as a policy are left out, and the
no-show record the teacher writes by hand (`create_no_show_record`, `schedule_ext_service.py`
1096-1115), which touches neither a booking nor a counter.

### Academy payments

`AcademyPayments` is the owner's bank statement and the invoices of the students:
`state` of a bank transaction, `payment` (rows with its `bank_tx_ref`, by invoice), `cash`
(payments recorded by hand), `suggestion` (`user_decision`), `status` and `sent` of an invoice.
A request is one record of what it is about to write, computed when it begins.

| Action | Code |
|---|---|
| `Match`, `CommitMatch` | `confirm_match` and `split_match`, which differ only in how many invoices they name |
| `IgnoreTransaction`, `RevertMatch`, `SuggestMatches` and their commits | the methods of those names |
| `RecordPayment`, `BulkSendInvoices` and their commits | `AcademyBillingService`; nothing is locked |

`GetTransaction` is the locked read of the bank transaction. The fuzzy score is the constant
`Likely`. `record_payment` with a client's own `bank_tx_ref` is left out, as the app never
sends one; so are editing, CSV import, rules, policies and settlements.

### Schedule changes

`ScheduleChange` is the log of events of one session and the hourly job of every server
process: `log`, `age` (how long the last proposal waits: less than 24 hours, more, more
than 72), `used` (`used_reschedule_count`), `tx` (answers under way) and `run`. No action reads
the history: `balance` (the count as last set by hand, with what was used and given back since),
`restored` (how often one was given back), `raced` (an event has come in the midst of an answer).

| Action | Code |
|---|---|
| `Propose` | `SubscriptionService.add_event` with anything but an answer: nothing is judged |
| `Answer`, `CommitAnswer`, `AbortAnswer` | the same with an answer; `MayAnswer` is `_validate_subscription_event_turn` |
| `AddRequestEvent` | `LessonRequestService.add_event`: every event, of the authenticated actor, nothing judged |
| `UseReschedule`, `UpdateSubscription` | `use_reschedule`, FOR UPDATE; PUT of the subscription, which sets the count to what the client says |
| `StartRun` | the job under its advisory lock: `_get_pending_threads` and the age of what it finds |
| `Flush` | `_has_event`, the event, `_restore_reschedule_credit` FOR UPDATE; flushed and not yet seen by others |
| `CommitRun`, `AbortRun` | its commit; an error or a dead process |

`by` of an event is what its `actor_type` says. `via` is the endpoint that wrote it: an event
of the lesson request names the subscription or not, and if not ("bare") the turn check, which
looks for the subscription's events, does not see it. The app names none
(`unified_lesson_request_providers.dart` 926-997). `RequestEventService.create_event` has the
same path as `LessonRequestService.add_event`, whose router is included first
(`api/v1/__init__.py` 145-147), so no request reaches it.

A counter-proposal is a proposal without a credit. Withdrawing an approval, messages and
pushes are left out, so are an answer without a session number, which is judged over the log of
all sessions (`subscription_service.py` 1103), and the refusal of parents. The advisory lock is
the plain mutual exclusion `LockGranted`. The job commits at line 422 and unlocks at 450, when its
session may have another connection, so its lock may leak as in the next section; a leaked lock
refuses runs, so `LockGranted` grants every run that the code grants and more, and what holds
for all of these holds for fewer.

### Job locks and the expiry job

`JobLocks` is what all jobs stand on: per process a `pool` of idle connections and those
`lent` to requests, and per connection how often its database session `holds` the advisory
lock. `pg_try_advisory_lock` belongs to a database session and is re-entrant there; an
`AsyncSession` takes a connection for its first statement after a commit and gives it
back with the next one. A pool that is full closes the connection, and the lock goes with it.

`SubscriptionExpiry` builds on it: `day`, `sub` (status and end date), `edit` (a status change
under way), `log` (the dispatch log, whose UNIQUE is that `Notice` is a set), `inbox`, `pushed`,
`run`, and the history `broken`. A run is `Start` (lock, scan), `CheckCommit`, `DispatchBegin`,
`Send` (push), `Record` (log row, which waits for another's and is refused if it is there),
`DispatchCommit`, `Unlock` (on whatever connection the session has by then), `End`; it may
raise (`Raises`), lose its transaction (`Fails`) or die with its process (`Dies`). `UpdateStatus`
and `SetEnd` are the teacher, `Traffic` other requests that borrow connections. The
milestones are those a subscription has enabled, and part of the UNIQUE key (`Notice`); pausing
with its dates is left out.

## 5. Runs

Every property of a passing run has a mutant in `PROJECT.json`: a change of one
definition, the way a plausible bug would make it, under which TLC finds the property
violated. The mutated definitions stand beside the ones they change, marked
"Mutant".

| Run | Instance | Question and answer |
|---|---|---|
| `queue` | a keyless create an earlier version left, a new create of its domain, two passes, `MaxRetry` 3, capacity 1; 0.6 M states | `SyncingIsReplayed`: an entry in `syncing` is always in the hands of a pass, so none is stranded, also when passes overlap. `UnsentKept`: cleanup picks no unsent write, and stale copies do not drop one. `NotOvertakenInTurn`: a failed write holds back its domain as long as no passes overlapped. `TerminalUntilRetried`: a keyless create that may have been sent is not sent again on its own. |
| `settles` | one pass and a third write whose domain has no adapter any more; 22 k states | `Settles`, under fairness: every queued write ends. |
| `offline` | one create, two passes, two sends, two retries, crashes, losses; 0.8 M states | `OncePerKey`, `OneAnswerPerKey`, `NoDuplicateCreate`; `RefusedIsFinal`: once the user is told no, nothing of the write is left anywhere; and the refinement `CreatesHappenOnce`. |
| `charges` | one lesson, one subscription with one session, two transactions; 2.1 M states | `ServerChargesOnce`, `CounterMatchesRows`, `ChargesArePaid`, `CompletionIsCharged`. |
| `proposals` | a proposal that answers a request and a renewal, one preview, two transactions; 2.9 M states | `MintedOnce`: one subscription per proposal, also when a late answer reopens it. `IssuedOnNotice`: no rejection, cancellation or expiry slips in before an issue. `IssuesBacked`: what request, relationship and lessons point to has been issued. |
| `calendar` | two entries, two slots, two transactions, one change; 1.3 M states | `FirstComeFirstServed`, `SeriesDisjoint`: each lock keeps apart what it is there for, bookings and lessons that nobody has moved or revived since. `MovesArePaid`: of the moves that ask for a change none is lost from the count and none made up, whatever else writes it, and no student's PUT moves for nothing. Both entries may be used up, so deadlock is not checked. |
| `classes` | two students, one seat, one place in the line, two transactions; 1.7 M states | `BookingChargedOnce`, `MarkerTellsCharge`: attendance and no-show policy see each other. `NotOverbookedInTurn`: requests one after the other keep to the capacity. |
| `matching` | two deposits, two invoices, one payment by hand, two requests; 1.2 M states | `MatchedIsBacked`: a deposit is spent once and never over its amount. `DecidedWhileMatched`: suggestions follow it. `PaidInTurn`: requests one after the other leave paid only what was received. |
| `change` | two parties, two processes, a log of three, two allowances; 0.8 M states | `MarkedOnce`: one reminder, one expiry. `CreditsAddUp`: between job, uses and PUTs no write of the count is lost, and nothing is given back without an expiry. `AnsweredInTurn`: the answers that are judged are to an open proposal said to be another's, once, whatever the endpoint that judges nothing and the job add, as long as no event comes in the midst of an answer. |
| `expiry` | two processes, three connections, one subscription, the milestones 0 and 1, two days; 1.1 M states | `NoticeOnce`: one notice a milestone, day and recipient, also when runs overlap, fail or die. `PushOnce`: one push, unless a run broke; a lock left behind is not enough. |
| `lock_leak` | as `expiry` | `LockReleased`, violated; section 7. |
| `second_expiry` | as `change` | `OverdueExpires`, violated; section 7. |

Every property of a passing run holds.

### Bounds, and why they are enough

- `Passes` 2: the hazards of the queue are between the pass that runs and the one
  that got past the test of `_isRunning` before it; the proofs hold for any number.
- `Writes` 2 or 3: one domain needs an earlier and a later write, and one more to
  have a domain without an adapter.
- `MaxRetry` 3, 2 or 1 (5 in the code): what matters is a first failure, one in
  between where order is at stake, and the last one.
- `MaxEntries` 1 (500 in the code): with a second entry the box is over its capacity.
- `MaxSends` 2: one abandoned attempt and one more. A third attempt
  meets the same three kinds of row (absent, reserved, stored).
- `Tx` 2 and `Usages` 2: two transactions are the least that can interleave, and a
  second charge the least that is wrong; capacity 1 makes each the last session. The
  proofs hold for any number of both, and of lessons and subscriptions.
- `Proposals`, `Entries`, `Students`, `BankTxs`, `Invoices` 2: everything these hold is
  judged in pairs (an active proposal against a new one, a slot against a slot, the
  last seat, a deposit split over invoices, an invoice filled by two deposits). Capacity,
  line, changes and cash are 1, so that the second request meets the limit.
- `Statuses` of `calendar` are "confirmed" and "cancelled": one that keeps a slot and one that
  frees it; "completed" is like the first for every check, and the proofs are for all of them.
- `Milestones` 0 and 1 are two milestones that one subscription meets on two days, or, when its
  end is moved, one day; `Asked` "paused" is a status that is neither live nor final. With a
  second one the run finds nothing else and takes four times as long.
- `MaxEvents` 3 is a proposal, its mark and a second proposal, or a proposal, a
  counter-proposal and an answer. `second_expiry` needs no more.
- `Conns` 3 with `PoolSize` 2: two processes, of which one has a second connection, so
  that an unlock can miss; a pool may overflow. `MaxDay` 1 lets the job run again.
- Symmetry is used over interchangeable sets that no property names: transactions, row
  ids, entries, slots, students, parties, processes, connections.

Deadlock checking is on except in `calendar`.

## 6. Proofs

Eight modules hold the theorems; each EXTENDS the specification it is about.
They assume only the named assumptions of the specifications (`WritesAssumption`,
`QueueAssumption`, `ChargesAssumption`, `ProposalsAssumption`, `CalendarAssumption`,
`ClassesAssumption`, `PaymentsAssumption`, `LocksAssumption`, `ExpiryAssumption`,
`ChangeAssumption`), which TLC evaluates in every run of theirs: the types of the constants,
finitely many writes, bank rows and invoices (the rows of a table; a sum over them has to
end), at least one retry, one send, one seat, one pooled connection, no empty deposit.
Behind each theorem are the same three facts: an inductive invariant holds initially, every step keeps it, and it
implies the property (for an action property: each step that starts in it has the property).

**`OfflineWrites_proofs`, the queue by itself**: `QueueTypeCorrect`, `SyncingIsReplayedCorrect`,
`UnsentKeptCorrect`, `NotOvertakenCorrect`, `TerminalCorrect`. The inductive invariant `QueueInv`
adds to the types and `SyncingIsReplayed` two facts. `OneEntryPerWrite`: the box holds one entry
per write. `PassesOK`: a pass holds only entries that had retries left when it read them (so
that a stale copy with one more retry stays within the limit), at most one of them is
being replayed, and only a visiting pass replays. A second pass cannot take an entry
in `syncing` from the box, but it can hold an older copy of it; writing such a copy
back either makes it that pass's own current entry or takes it out of `syncing`.

The last two speak of passes in turn and need `TurnInv`. `QueueSound` holds always: what waits has
a retry left, what failed with retries left was never sent, and no pass runs before the box is
opened. While passes have not overlapped one pass visits (`OneVisits`), and its list is in
step with the box (`InStep`). That is two things. What it holds is not out of retries in the box
(`Current`), so that nothing it writes back brings a failed entry to life. An entry that waits
for its next retry comes before the later ones of its domain on that list, or its domain is held
back (`Ordered`). A pass takes the earliest entry of its list first, hence never overtakes. The user
may touch the box in the midst of a pass, and every such step keeps the list in step:
a failed entry that becomes pending again has no retries counted, so it is not one that waits.

**`OfflineWrites_proofs`, queue and server**: `TypeCorrect`, `OncePerKeyCorrect`,
`OneAnswerPerKeyCorrect`, `QueueKeptOnline`, `MiddlewareAlone`, `NoDuplicateCreateCorrect`,
`RefusedIsFinalCorrect`, `CreatesHappenOnceCorrect`. None of the properties is inductive by
itself, as they speak of what is committed and not of what may still be. `ServerInv` says of each user and key: a request that holds the
reservation has its row reserved (`HolderReserved`), at most one holds it
(`OneHolder`), an open or committed effect pins the row to "reserved" or "ok" and
excludes every other holder and effect (`LivePins`, `LiveExcludes`), and a final answer
is the stored one (`AnswerStored`). From the server's point of view every step of
the app is a `Submit` or a stutter, which is the lemma that lifts `ServerInv` to the
composition. The same split gives two theorems of their own. `QueueKeptOnline`: every step of
the composition is one of the queue or leaves it alone, so the queue's promises hold online
as well. `MiddlewareAlone`: the two guarantees per key hold against any client that submits any
request at any time, so no change of the app can take them away. What
is left for `NoDuplicateCreate` is that the app never sends one create under two keys: `WriteInv` follows the key from the direct request to the first
entry and on to its copies in the box and in the passes (`EntriesShareKey`,
`EntriesKeepSentKey`, `SentShareKey`), and says that a call that has not ended in the
queue has no entry and was sent at most once (`NotQueuedYet`, `NotSentYet`), which is
also why a refusal is final. `CreatesHappenOnceCorrect` is the refinement. A step of the
composition is a call that begins (`Ask`), a caller that is told no (`Refuse`), a commit
(`TakeEffect`, which `LiveExcludes` and `SentShareKey` allow for the first attempt of a
create only), or one that changes none of the three, which is one lemma for the calls
(`CallsKept`) and one for the effects (`EffectsKept`).

**`LessonCharges_proofs`**: `LedgerTypeCorrect`, `ServerChargesOnceCorrect`,
`ChargesArePaidCorrect`, `CompletionIsChargedCorrect`, `CounterMatchesRowsCorrect`. The
counter is written from a read made earlier, so the invariant `LockInv` carries what the
row lock is for: two transactions never hold one subscription's row (`Exclusive`), and
what the holder has read is still so (`ColumnsFresh` for the counter and the payment,
`ChargesFresh` for the server's rows of the lesson). `SubIsOwn` ties a lesson's transaction
to the lesson's subscription, and `Bounded` keeps the values read within capacity.
The lemma `EndKeepsLockInv` is the common case: a commit that disturbs only
subscriptions whose lock is free or its own keeps all of that.
`CounterMatchesRowsCorrect` assumes that the student has one subscription. With
two it is false, because `release_lesson_usage` removes the lesson's rows of both and
credits one.

**`Proposals_proofs`**: `ProposalsTypeCorrect`, `MintedOnceCorrect`, `IssuedOnNoticeCorrect`,
`IssuesBackedCorrect`. Nearly every write of a status goes over whatever is there, so no
invariant speaks of the statuses themselves. What holds is `RowInv`: at most one transaction has a
proposal's row (`Exclusive`), and a confirmation, which reads again under the lock, knows
status and subscription as they are (`Fresh`). With `OwnSub` (a proposal has no
subscription but one of its own or the hinted one) that gives one issue per proposal: the
second confirmation finds the first one's subscription, even when the status was set back in between.

**`Calendar_proofs`**: `CalendarTypeCorrect`, `FirstComeFirstServedCorrect`,
`SeriesDisjointCorrect`, `MovesArePaidCorrect`. Three locks and one form of argument: what a
request judged under its lock (`BookedSlotFree`, `SeriesSlotFree`, `CountRead`) still holds
at its commit, because only a request with the same lock could have spoiled it (`Exclusive`):
every other step either leaves the slot alone or takes `kept` away, and the other writers of the count
wait for the row. `RowsInv` says that an entry in the making has no row yet and one maker,
without which a commit could overwrite another's row, and that what is kept is live (`KeptStays`,
`KeptIsLive`), so that the checks, which look at live rows only, see it. `Asked` says that no student's
request under way is one of those that move for nothing.

**`GroupClasses_proofs`**: `ClassesTypeCorrect`, `BookingChargedOnceCorrect`,
`MarkerTellsChargeCorrect`, `NotOverbookedInTurnCorrect`. `ChargeInv` says that one request holds a
booking's row (`Exclusive`), that the holder knows marker and number of records as they are
(`Fresh`), and that a no-show has a record and whoever has read "no-show" knows it
(`Recorded`); the last is needed because a repeated no-show works without the row lock.
`SeatInv` is for the seats: while no two requests have overlapped, the counter is not less than
the number of those confirmed, and what the request under way read of it is current. If the
cancelling student has left in the meantime (marked attended, say), a seat is to spare, so
that promoting the first in line does not take one too many.

**`AcademyPayments_proofs`**: `PaymentsInvariant`, `PaymentsTyped`, `MatchedBacked`,
`SuggestionsDecided`, `PaidCoveredInTurn`. The properties speak of sums over all bank rows or all
invoices. A theorem of the library on induction takes an operator as its parameter, which the
provers cannot instantiate; but the sum is a fold, that is a recursive function over the subsets
of a finite set, and a least counterexample does the same in first-order steps: of the subsets
where a claim fails take one of least cardinality (`LeastOf`, from the well-foundedness of < on
the naturals); take the fold's element out, and the claim holds of the rest.
`PartSumsEquation` (the function exists), `PartSumsType`, `PartSumsRemove` (any element may be
taken out first) and `PartSumsAgree` are shown that way, and give what the module needs: a sum is
a natural number (`SumType`), and changing one summand changes the sum by the difference
(`SumUpdate`). The invariant `PaymentsInv` has two halves. Under the row lock of a bank
transaction (`OneHolder`) what a request has read of it still holds at its commit (`Relies`):
an unmatched one carries no payments, so the split computed from its amount is all that will
stand on it. An invoice has no lock, so that half is under `raced`: while requests follow one another, a
status computed before the commit is right after it (`Computed`), for instance a revert leaves an
invoice paid only if the other payments still cover it.

**`SubscriptionExpiry_proofs`**: `ExpiryTypeCorrect`, `OneRunCorrect`, `NoticeOnceCorrect`,
`PushOnceCorrect`. The
notices need no lock: the log rows of open transactions are new and disjoint (`RowsNew`), since a
second insert of a row waits and is then refused. The pushes need it: `LockInv` says that
processes share no connection (`Separate`) and that, unless something broke, a run's lock is held
by a connection of its own process (`Held`), hence one run holds one (`OneRun`);
`PushesAccounted` then says that a push is out exactly when its notice is in the log or in
the hands of that run.

**`ScheduleChange_proofs`**: `ChangeTypeCorrect`, `MarkedOnceCorrect`, `CreditsAddUpCorrect`,
`AnsweredInTurnCorrect`. `ChangeInv`: one run at a time (`OneRun`), a flushed event is that run's
(`FlushedIsOwn`), a run that gives back has read the count under its lock (`RunInv`), and what was
given back is at most one allowance, with an expiry for all to see (`RestoredOnce`); no matter how
often a PUT sets the count, for a run that gives back has the row, and then nobody writes it. `TurnInv`: while no
event has come in the midst of an answer, an answer under way is still due (`AnswerIsDue`): the last
event of its subscription, the job's marks and bare events aside (`Ignored`), is a proposal said to be
another's. An aborted run takes its mark out of the log, which
shifts all that follows; the proof carries every answer's proposal across that shift.

With that every invariant and every action property that a passing run checks is also proved.
Only model-checked: `Settles`, because liveness under fairness is out of the prover's reach, and
the counterexamples of the two violated properties. `CounterMatchesRowsCorrect` is the one
theorem with a hypothesis beyond the assumptions of its specification.

## 7. Where code and documentation disagree

Two of these are runs whose single property states what the repository says; TLC finds
it violated by the modelled code. `PROJECT.json` quotes the lines.

- `LockReleased` (`lock_leak`): the job's first commit gives the connection that owns
  its lock back to the pool; the unlock in `finally` may run on another, does nothing there,
  and the next run of another process is refused (`subscription_expiry_job.py` 68-80).
- `OverdueExpires` (`second_expiry`): the job looks for an expiry anywhere in a session's
  log, so after a first expired negotiation a second one is never reminded or expired, and
  its allowance stays used (`schedule_change_expiry_jobs.py` 103-118, 287).

The others were met while modelling. The modules have the steps, and the properties
are stated so that they hold in spite of them ("in turn", "kept", `broken`).

*Offline writes*

- Overlapping passes: `_isRunning` is tested before an await and set after it
  (`sync_service.dart` 146-155). The second pass does not see the entry the first is
  replaying, and a later write of a domain overtakes an earlier one.
- A pass that runs through a logout and the next login sends the first user's
  writes with the second user's token (INV-4, `auth_provider.dart` 371-382).
- A server that dies between reservation and answer leaves the key reserved for ever,
  and every retry is answered 409 (`idempotency.py` 87-90).
- The 2xx leaves before `get_db` commits; a failed commit is an acknowledged write that
  is not there, also for its replays (`database.py` 26-30).
- `cleanup` deletes an entry it has picked although the user has tapped "retry" since, and
  `initialize` deletes an orphan older than seven days that it has just recovered to
  failed and that nobody has seen (`sync_queue_store.dart` 149, `sync_service.dart` 105).

*Charges and contracts*

- The app's record of a missed lesson, delayed by the queue, arrives after the server's
  penalty and charges the lesson again (`lesson_confirmation_provider.dart` 96-100).
- Undoing a deposit decides on an unlocked read and may commit after a lesson has
  been charged (`subscription_service.py` 1343-1349).
- `update_status` and the nightly job each judge a status of their own reading; a
  subscription cancelled in between comes back as expired or expiringSoon, though 854
  calls cancelled terminal.
- Two proposals of one pair may be active: a renewal does not ask, and two creates
  ask at the same time (`subscription_service.py` 1803, 2026). An expired proposal can still
  be confirmed when an acceptance was under way. Revoking leaves a renewal's previews
  standing.
- A push whose run died before its commit goes out again with the next run of that
  day; if none follows before midnight the notice is never listed, as the milestone is over.
- The push due after 60 hours of a negotiation is never sent: the job resolves its
  recipients through `app.models.lesson_request`, which does not exist.

*Schedule changes*

- Whether a move of a booking costs a change depends on its way. A teacher's PUT that names
  another status moves for nothing (`schedule_service.py` 1164), so does `bulk_change`
  (`subscription_service.py` 633-756) and an accepted change of the schedule
  (`lesson_request_service.py` 291-463). `MovesArePaid` speaks of the moves that ask for one.
- PUT of a subscription writes `used_reschedule_count` as the client says, from an unlocked
  read (`subscription_service.py` 332-347). The app sends its whole copy with every update
  (`subscription.g.dart` 103), also through the offline queue, so a late one undoes what was
  used or given back since. `MovesArePaid` and `CreditsAddUp` count from the value it sets.
- Of the two endpoints that write a session's log one judges no turn at all
  (`lesson_request_service.py` 185-273): an answer by it may follow anything, the answerer's own
  proposal or nothing. The other compares the last proposal's actor with the one the client
  names (`subscription_service.py` 1050, 1112), not with the authenticated user.
- The hourly job unlocks after its commit, so its lock may be left behind as that of the nightly
  job is (`schedule_change_expiry_jobs.py` 422, 450).

*Calendar, classes, payments*

- A direct booking and a series, or a single lesson and anything else, can share a slot:
  each path takes another lock or none, and the booking's check knows neither profile ids nor
  lessons. A card that two requests judge before the lock places its series twice
  (`schedule_confirmation_service.py` 553).
- A lesson is moved by PUT, revived by a status or moved by a bulk change without a look at the
  lessons already there (`lesson_service.py` 507-531, 608; `subscription_service.py` 790-794), so two
  series may come to share a slot. `SeriesDisjoint` speaks of lessons that were not.
- `deduct_subscription` writes `used_lessons` from the copy it chose the subscription by;
  a session charged in between by a lesson is lost from the counter, not from the rows
  (`schedule_ext_service.py` 1020).
- Two bookings of the last seat both get it; a promotion by hand leaves the counters
  as they were, and automatic cancellation of the line does not reset its count.
- Overlapping requests leave an invoice paid though not received, or received and never
  paid: its status comes from unlocked sums (`academy_payment_matching_service.py` 192-215).
- `suggest_matches` without candidates leaves a transaction `suggested` with no open
  suggestion, against its docstring.

## 8. Not modelled

Left for later (section 2): lesson requests, refund requests (only what a completed one
does to the counter is in `LessonCharges`), makeup credits, token refresh, the response
cache, vacation mode, invites and relationships, phone verification, academy governance.
What a first reading of some of them found, for whoever takes them up:

- *Lesson requests*: a terminal status may be overwritten by a concurrent acceptance or
  expiry, and counter-proposals are one JSON column that is read, extended and written
  without a lock, so that one of two is lost (`lesson_request_service.py` 608-824).
- *Sign-in and tokens*: the retry after a refresh is sent from inside a queued
  interceptor, and its failure queues behind the handler that awaits it
  (`refresh_interceptor.dart` 90). A refresh token is used once: when the answer to a refresh
  is lost, the next refresh is refused and the session cleared. `tokens_revoked_at`, written
  before a 401 is raised, is rolled back with it. A refresh that ends after a logout saves
  its tokens again.
- *Makeup credits*: `use_credit` checks a credit without a lock.
- *Response cache*: a GET under way when a mutation invalidates its entry may store the
  older answer afterwards, also in another user's session.

Of the modelled components, what each leaves out is said in section 4 and in the notes
of `PROJECT.json`; most of it is the creation and editing of rows that nobody competes for.

Left out for good: notifications and messages (best effort by design, their failures
are swallowed by the callers), practice logs and gamification, profiles,
settings and content (rows of one user that nobody competes for), app store
billing (verified by the stores), audio (signal processing), screens and widgets
(what they ask of the sync layer is modelled), migrations, scripts and
deployment.
