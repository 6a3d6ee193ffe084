---------------------------- MODULE LessonCharges ----------------------------
(***************************************************************************)
(* What a lesson costs: lesson status changes, the attendance job and the  *)
(* app's own usage records, all charging the sessions of a subscription.   *)
(*                                                                         *)
(* Every request and every job run is one database transaction (get_db) at *)
(* READ COMMITTED.  It reads the lesson or the subscription first, takes   *)
(* the subscription's row lock only where the code says with_for_update,   *)
(* and writes absolute column values; a column that did not change is not  *)
(* written.  So a transaction is three steps here: what it reads without a *)
(* lock, what it reads under the lock, and its commit.                     *)
(*                                                                         *)
(* `capacity' is total_lessons (1 for a trial) plus bonus_count.  Left out *)
(* are previews and lessons funded by a makeup credit, which are never     *)
(* charged, and lessons without a subscription.                            *)
(***************************************************************************)
EXTENDS Integers, FiniteSets

CONSTANTS
    Lessons,
    Subs,         \* subscriptions
    SubOf,        \* the subscription each lesson belongs to
    Capacity,     \* sessions of each subscription
    Generated,    \* lessons that were created from their subscription
    Penalised,    \* statuses the teacher's LessonPolicy charges for
    Usages,       \* bound: ids of usage rows
    Tx            \* bound: transactions under way at once

ASSUME ChargesAssumption ==
    /\ SubOf \in [Lessons -> Subs]
    /\ Capacity \in [Subs -> Nat]
    /\ Generated \subseteq Lessons
    /\ Penalised \subseteq {"noShow", "late"}

VARIABLES
    lesson,     \* per lesson: its status
    sub,        \* per subscription: the columns the charges touch
    rows,       \* the table subscription_usages
    tx,         \* the transactions under way
    post,       \* per lesson: the usage record the app sends of its own
    corrected   \* ghost: used_lessons was set by hand or by a refund

vars == <<lesson, sub, rows, tx, post, corrected>>

(* late: cancelledByStudentLate; absent: studentAbsent; cancelled: the     *)
(* cancellations that cost nothing; deleted: there is no such row.         *)
Status == {"scheduled", "completed", "noShow", "late", "absent", "cancelled"}
LessonStatus == Status \cup {"deleted"}

Deducting == {"completed", "noShow", "late"}

(* consumed: first_lesson_consumed_at is set.                              *)
Sub == [used : Nat, paid : BOOLEAN, consumed : BOOLEAN, refunded : BOOLEAN]

(* server: recorded by deduct_for_completed_lesson; app: by add_usage;     *)
(* manual, history: by deduct_lesson, with deducted true or false.         *)
Kind == {"server", "app", "manual", "history"}
Deducted == {"server", "app", "manual"}
Row == [id : Usages, lesson : Lessons, sub : Subs, kind : Kind]

Op == {"status", "auto", "delete", "usage", "deduct", "confirm", "undo",
       "refund", "update"}

(* seen: the lesson's status when the transaction began; used, paid,       *)
(* found: the subscription's columns and the lesson's rows, read under the *)
(* lock, but `used' at the beginning by those that take no lock.           *)
Transaction ==
    [stage : {"begun", "locked"}, op : Op, lesson : Lessons, sub : Subs,
     seen : LessonStatus, target : LessonStatus,
     used : Nat, paid : BOOLEAN, found : SUBSET Row]

Idle == [stage |-> "idle"]

Init ==
    /\ lesson = [l \in Lessons |-> "scheduled"]
    /\ \E paid \in [Subs -> BOOLEAN] :
         sub = [s \in Subs |-> [used |-> 0, paid |-> paid[s],
                                consumed |-> FALSE, refunded |-> FALSE]]
    /\ rows = {}
    /\ tx = [t \in Tx |-> Idle]
    /\ post = [l \in Lessons |-> "none"]
    /\ corrected = [s \in Subs |-> FALSE]

-----------------------------------------------------------------------------
(* Reading *)

RowsOf(l) == {r \in rows : r.lesson = l}

Becomes(t, q) == tx' = [tx EXCEPT ![t] = q]

Begin(t, op, l, s, seen, target, used) ==
    /\ tx[t] = Idle
    /\ Becomes(t, [stage |-> "begun", op |-> op, lesson |-> l, sub |-> s,
                   seen |-> seen, target |-> target,
                   used |-> used, paid |-> FALSE, found |-> {}])
    /\ UNCHANGED <<lesson, sub, rows, post, corrected>>

BeginLesson(t, op, l, target) == Begin(t, op, l, SubOf[l], lesson[l], target, 0)
BeginSub(t, op, l, s) == Begin(t, op, l, s, "scheduled", "scheduled", 0)
BeginWrite(t, op, l) ==
    Begin(t, op, l, SubOf[l], "scheduled", "scheduled", sub[SubOf[l]].used)

(* The deadline decides which of the two student cancellations it is.      *)
Verdicts(target) == IF target \in {"late", "cancelled"} THEN {"late", "cancelled"} ELSE {target}

UpdateStatus(t, l) ==
    /\ lesson[l] # "deleted"
    /\ \E target \in Status : \E verdict \in Verdicts(target) :
         BeginLesson(t, "status", l, verdict)

(* The attendance job takes the lessons nobody has confirmed for 24 hours. *)
AutoComplete(t, l) ==
    /\ lesson[l] = "scheduled"
    /\ BeginLesson(t, "auto", l, "completed")

DeleteLesson(t, l) ==
    /\ lesson[l] # "deleted"
    /\ BeginLesson(t, "delete", l, "deleted")

(* A teacher marks a lesson as missed: before the app asks for the status  *)
(* it sends a usage record, through the offline queue, on whichever        *)
(* subscription of the student it lists first.                             *)
PostUsage(l) ==
    /\ lesson[l] = "scheduled"
    /\ post[l] = "none"
    /\ post' = [post EXCEPT ![l] = "sent"]
    /\ UNCHANGED <<lesson, sub, rows, tx, corrected>>

(* Its Idempotency-Key lets one request with it run (IdempotencyMiddleware).*)
AddUsage(t, l, s) ==
    /\ post[l] = "sent"
    /\ \A u \in Tx : tx[u] # Idle => <<tx[u].op, tx[u].lesson>> # <<"usage", l>>
    /\ BeginSub(t, "usage", l, s)

DeductLesson(t, l, s) == BeginSub(t, "deduct", l, s)

ConfirmPayment(t, l) == BeginSub(t, "confirm", l, SubOf[l])

(* Without the lock: what it reads here is what it decides on.             *)
UndoConfirmPayment(t, l) ==
    /\ sub[SubOf[l]].paid
    /\ ~sub[SubOf[l]].consumed
    /\ BeginSub(t, "undo", l, SubOf[l])

CompleteRefund(t, l) ==
    /\ ~sub[SubOf[l]].refunded
    /\ BeginWrite(t, "refund", l)

UpdateSubscription(t, l) == BeginWrite(t, "update", l)

-----------------------------------------------------------------------------
(* Locking *)

Charges(q) == q.op = "auto" \/ (q.op = "status" /\ q.target \in {"completed"} \cup Penalised)

Releases(q) ==
    /\ q.op \in {"status", "delete"}
    /\ q.seen \in Deducting
    /\ q.target \notin Deducting

NeedsLock(q) == q.op \in {"usage", "deduct", "confirm"} \/ Charges(q) \/ Releases(q)

(* Nobody else holds the row lock of s.  An UPDATE of the row waits for it *)
(* just as SELECT ... FOR UPDATE does.                                     *)
RowFree(t, s) == \A u \in Tx \ {t} : ~(tx[u].stage = "locked" /\ tx[u].sub = s)

(* What the locked reads return.                                           *)
Reads(q) ==
    [q EXCEPT !.stage = "locked", !.used = sub[q.sub].used, !.paid = sub[q.sub].paid,
              !.found = RowsOf(q.lesson)]

(* Mutant: a plain SELECT, as before #742. *)
LockUnlocked(t) ==
    /\ tx[t] # Idle
    /\ tx[t].stage = "begun"
    /\ NeedsLock(tx[t])
    /\ Becomes(t, Reads(tx[t]))
    /\ UNCHANGED <<lesson, sub, rows, post, corrected>>

Lock(t) ==
    /\ tx[t] # Idle
    /\ tx[t].stage = "begun"
    /\ NeedsLock(tx[t])
    /\ RowFree(t, tx[t].sub)
    /\ Becomes(t, Reads(tx[t]))
    /\ UNCHANGED <<lesson, sub, rows, post, corrected>>

-----------------------------------------------------------------------------
(* Committing *)

Ends(t) == Becomes(t, Idle)

(* Commits of a transaction that has all the locks it needs.               *)
Ready(t, op) ==
    /\ tx[t] # Idle
    /\ tx[t].op = op
    /\ NeedsLock(tx[t]) => tx[t].stage = "locked"
    /\ Ends(t)

(* A new usage row and the counter one up from what was read; the stamp is *)
(* set once.  The table's CHECK keeps the counter within the capacity.     *)
Records(q, kind) ==
    /\ q.used < Capacity[q.sub]
    /\ \E id \in Usages \ {r.id : r \in rows} :
         rows' = rows \cup {[id |-> id, lesson |-> q.lesson, sub |-> q.sub, kind |-> kind]}
    /\ sub' = [sub EXCEPT ![q.sub].used = q.used + 1, ![q.sub].consumed = TRUE]

NoCharge == UNCHANGED <<sub, rows>>

(* Mutant: the payment gate of the manual path is missing here. *)
ChargeableUnpaid(q) == q.found = {} /\ q.used < Capacity[q.sub]

(* deduct_for_completed_lesson: once per lesson, paid, sessions left.      *)
Chargeable(q) ==
    /\ q.found = {}
    /\ q.paid
    /\ q.used < Capacity[q.sub]

Charge(q) == IF Chargeable(q) THEN Records(q, "server") ELSE NoCharge

(* Mutant: the counter is not kept from falling below zero. *)
ReleaseUnfloored(q) ==
    LET gone == {r \in q.found : r.kind \in Deducted}
    IN  /\ rows' = rows \ gone
        /\ sub' = [sub EXCEPT ![q.sub].used = q.used - Cardinality(gone)]

(* release_lesson_usage: the lesson's deducting rows go, whichever         *)
(* subscription they were recorded on; this one gets the sessions back.    *)
Release(q) ==
    LET gone == {r \in q.found : r.kind \in Deducted}
        left == q.used - Cardinality(gone)
    IN  /\ rows' = rows \ gone
        /\ sub' = [sub EXCEPT ![q.sub].used =
                     IF gone = {} THEN @ ELSE IF left < 0 THEN 0 ELSE left]

(* The status is written only if it differs from the one read, over        *)
(* whatever has been committed since; a lesson gone meanwhile is an error. *)
Writes(q) ==
    IF q.target = q.seen THEN UNCHANGED lesson
    ELSE /\ lesson[q.lesson] # "deleted"
         /\ lesson' = [lesson EXCEPT ![q.lesson] = q.target]

CommitStatus(t) ==
    LET q == tx[t]
    IN  /\ Ready(t, "status")
        /\ Writes(q)
        /\ IF Charges(q) THEN Charge(q) ELSE IF Releases(q) THEN Release(q) ELSE NoCharge
        /\ UNCHANGED <<post, corrected>>

CommitAuto(t) ==
    LET q == tx[t]
    IN  /\ Ready(t, "auto")
        /\ Writes(q)
        /\ Charge(q)
        /\ UNCHANGED <<post, corrected>>

CommitDelete(t) ==
    LET q == tx[t]
    IN  /\ Ready(t, "delete")
        /\ lesson' = [lesson EXCEPT ![q.lesson] = "deleted"]
        /\ IF Releases(q) THEN Release(q) ELSE NoCharge
        /\ UNCHANGED <<post, corrected>>

(* add_usage asks neither for the payment nor whether the lesson has a row.*)
CommitUsage(t) ==
    /\ Ready(t, "usage")
    /\ Records(tx[t], "app")
    /\ post' = [post EXCEPT ![tx[t].lesson] = "recorded"]
    /\ UNCHANGED <<lesson, corrected>>

CommitDeduct(t) ==
    /\ Ready(t, "deduct")
    /\ tx[t].paid
    /\ \E kind \in {"manual", "history"} : Records(tx[t], kind)
    /\ UNCHANGED <<lesson, post, corrected>>

CommitConfirm(t) ==
    /\ Ready(t, "confirm")
    /\ ~tx[t].paid
    /\ sub' = [sub EXCEPT ![tx[t].sub].paid = TRUE]
    /\ UNCHANGED <<lesson, rows, post, corrected>>

(* Undo also cancels the scheduled lessons the subscription generated.     *)
CommitUndo(t) ==
    LET s == tx[t].sub
    IN  /\ Ready(t, "undo")
        /\ RowFree(t, s)
        /\ sub' = [sub EXCEPT ![s].paid = FALSE]
        /\ lesson' = [l \in Lessons |->
                        IF l \in Generated /\ SubOf[l] = s /\ lesson[l] = "scheduled"
                        THEN "cancelled" ELSE lesson[l]]
        /\ UNCHANGED <<rows, post, corrected>>

(* used_lessons is set to a value of the request's, if it was another one. *)
SetsUsed(t, value, refunded) ==
    LET s == tx[t].sub
    IN  /\ RowFree(t, s)
        /\ sub' = [sub EXCEPT ![s].used = IF value = tx[t].used THEN @ ELSE value,
                              ![s].refunded = @ \/ refunded]
        /\ corrected' = [corrected EXCEPT ![s] = TRUE]
        /\ UNCHANGED <<lesson, rows, post>>

CommitRefund(t) == Ready(t, "refund") /\ SetsUsed(t, Capacity[tx[t].sub], TRUE)

CommitUpdate(t) ==
    /\ Ready(t, "update")
    /\ \E value \in 0 .. Capacity[tx[t].sub] : SetsUsed(t, value, FALSE)

(* An error, a failed check, a deadlock's victim or a crash: rolled back.  *)
Abort(t) ==
    /\ tx[t] # Idle
    /\ Ends(t)
    /\ UNCHANGED <<lesson, sub, rows, post, corrected>>

-----------------------------------------------------------------------------

Begins(t) ==
    \E l \in Lessons :
        \/ UpdateStatus(t, l) \/ AutoComplete(t, l) \/ DeleteLesson(t, l)
        \/ \E s \in Subs : AddUsage(t, l, s) \/ DeductLesson(t, l, s)
        \/ ConfirmPayment(t, l) \/ UndoConfirmPayment(t, l)
        \/ CompleteRefund(t, l) \/ UpdateSubscription(t, l)

Commits(t) ==
    \/ CommitStatus(t) \/ CommitAuto(t) \/ CommitDelete(t)
    \/ CommitUsage(t) \/ CommitDeduct(t)
    \/ CommitConfirm(t) \/ CommitUndo(t) \/ CommitRefund(t) \/ CommitUpdate(t)

Next ==
    \/ \E l \in Lessons : PostUsage(l)
    \/ \E t \in Tx : Begins(t) \/ Lock(t) \/ Commits(t) \/ Abort(t)

Spec == Init /\ [][Next]_vars

-----------------------------------------------------------------------------
(* Properties *)

LedgerTypeOK ==
    /\ lesson \in [Lessons -> LessonStatus]
    /\ sub \in [Subs -> Sub]
    /\ \A s \in Subs : sub[s].used <= Capacity[s]
    /\ rows \subseteq Row
    /\ tx \in [Tx -> Transaction \cup {Idle}]
    /\ post \in [Lessons -> {"none", "sent", "recorded"}]
    /\ corrected \in [Subs -> BOOLEAN]

(* However status changes, the job and retries of either interleave, the   *)
(* server charges a lesson at most once at a time (#742).                  *)
ServerChargesOnce ==
    \A r1, r2 \in rows :
        r1.kind = "server" /\ r2.kind = "server" /\ r1.lesson = r2.lesson => r1 = r2

(* No deduction slips past the payment: when the server or the teacher     *)
(* records one its subscription is paid, also when the confirmation is     *)
(* undone at the same moment.                                              *)
ChargesArePaid ==
    [][\A r \in rows' \ rows : r.kind # "app" => sub[r.sub].paid]_vars

(* No charge is lost either: whoever makes a lesson completed leaves it    *)
(* charged, unless it is unpaid or out of sessions.                        *)
CompletionIsCharged ==
    [][\A l \in Lessons :
          lesson'[l] = "completed" /\ lesson[l] # "completed" =>
             \/ \E r \in rows' : r.lesson = l
             \/ ~sub[SubOf[l]].paid
             \/ sub[SubOf[l]].used = Capacity[SubOf[l]]]_vars

(* used_lessons counts the rows that were charged, no more and no less,    *)
(* until somebody sets it.  It holds for a student with one subscription.  *)
CounterMatchesRows ==
    \A s \in Subs : corrected[s] \/ sub[s].used = Cardinality({r \in rows : r.sub = s})

=============================================================================
