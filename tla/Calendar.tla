-------------------------------- MODULE Calendar --------------------------------
(***************************************************************************)
(* The calendar of one teacher: students book open slots, confirmed cards  *)
(* and registrations fill slots with weekly lessons, the teacher books     *)
(* single lessons, and bookings are approved, moved, completed, cancelled. *)
(* Moving one costs a change of the subscription they all belong to, or    *)
(* does not: it depends on the way it is moved.                            *)
(*                                                                         *)
(* Bookings and lessons are rows of two tables.  A direct booking carries  *)
(* the teacher's user id, a generated one and every lesson the profile id. *)
(*                                                                         *)
(* Every handler is one READ COMMITTED transaction: what it reads first    *)
(* and judges (its own action), the lock it waits for with what it reads   *)
(* under it (Lock), and its commit.                                        *)
(***************************************************************************)
EXTENDS Integers, FiniteSets

CONSTANTS
    Entries,      \* bound: bookings and lessons ever made
    Slots,        \* times that do not overlap
    NoSlot,       \* stands for no slot
    Credits,      \* total and bonus changes of the subscription of them all
    Statuses,     \* bound: the statuses of bookings that requests name
    Tx            \* bound: transactions under way at once

ASSUME CalendarAssumption ==
    /\ NoSlot \notin Slots
    /\ Credits \in Nat
    /\ Statuses \subseteq {"pending", "confirmed", "changeRequested", "completed", "cancelled"}

VARIABLES
    booking,    \* per entry: its row in lesson_bookings
    lesson,     \* per entry: its row in lessons
    card,       \* status of the confirmation card of the subscription
    used,       \* used_reschedule_count of the subscription
    balance,    \* ghost: the count as last set by hand, and what was spent and given back since
    unpaid,     \* ghost: a student's PUT has moved a booking without spending a change
    tx          \* the transactions under way

vars == <<booking, lesson, card, used, balance, unpaid, tx>>

BookingStatus == {"none", "pending", "confirmed", "changeRequested", "completed", "cancelled",
                  "deleted"}

(* by: a student who booked, or a series.  kept, of a student's: pending   *)
(* or confirmed in its first slot ever since it was made.                  *)
Booking ==
    [status : BookingStatus, slot : Slots \cup {NoSlot}, kept : BOOLEAN,
     by : {"nobody", "student", "series"}]

(* kept, of a series: never moved, cancelled or revived since it was made. *)
(* A deleted lesson is a cancelled one that nobody revives.                *)
Lesson == [status : {"none", "live", "cancelled"}, slot : Slots \cup {NoSlot}, kept : BOOLEAN]

(* Closed: rejected or dismissed.                                          *)
CardStatus == {"pending", "confirmed", "closed"}

Op == {"book", "confirmCard", "register", "lesson", "approve", "move", "rewrite"}

(* status: what the commit writes to the column, which it leaves alone     *)
(* ("unset") when that is what was read; count: used_reschedule_count as   *)
(* read under the lock; free: ghost, a student who pays nothing.           *)
Transaction ==
    [stage : {"begun", "locked"}, op : Op, e : Entries, slot : Slots \cup {NoSlot},
     status : {"unset"} \cup (BookingStatus \ {"none", "deleted"}), count : Nat, free : BOOLEAN]

Idle == [stage |-> "idle"]

Unmade == [status |-> "none", slot |-> NoSlot, kept |-> FALSE, by |-> "nobody"]

NoLesson == [status |-> "none", slot |-> NoSlot, kept |-> FALSE]

Init ==
    /\ booking = [e \in Entries |-> Unmade]
    /\ lesson = [e \in Entries |-> NoLesson]
    /\ card = "pending"
    /\ used = 0
    /\ balance = 0
    /\ unpaid = FALSE
    /\ tx = [t \in Tx |-> Idle]

-----------------------------------------------------------------------------
(* What the checks see *)

(* _check_booking_overlap looks for the teacher's user id among the        *)
(* pending and confirmed bookings, and at no lesson.                       *)
Overlaps(s) ==
    \E e \in Entries : /\ booking[e].slot = s /\ booking[e].by = "student"
                       /\ booking[e].status \in {"pending", "confirmed"}

(* check_time_conflict looks at both ids and both tables.                  *)
Conflicts(s, own) ==
    \E e \in Entries : \/ /\ e # own /\ booking[e].slot = s
                          /\ booking[e].status \notin {"none", "cancelled", "deleted"}
                       \/ lesson[e].status = "live" /\ lesson[e].slot = s

-----------------------------------------------------------------------------
(* Begin *)

(* The row of the teacher, the advisory lock named after the teacher, or   *)
(* the row of the subscription.                                            *)
Locks(op) ==
    CASE op = "book" -> "teacher"
      [] op \in {"confirmCard", "register"} -> "advisory"
      [] op = "move" -> "subscription"
      [] OTHER -> "none"

Becomes(t, q) == tx' = [tx EXCEPT ![t] = q]

Begin(t, op, e, s, status, free) ==
    /\ tx[t] = Idle
    /\ Becomes(t, [stage |-> IF Locks(op) = "none" THEN "locked" ELSE "begun",
                   op |-> op, e |-> e, slot |-> s,
                   status |-> IF booking[e].status = status THEN "unset" ELSE status,
                   count |-> 0, free |-> free])
    /\ UNCHANGED <<booking, lesson, card, used, balance, unpaid>>

(* A row nobody has made and nobody is about to make.                      *)
New(e) ==
    /\ booking[e].status = "none" /\ lesson[e].status = "none"
    /\ \A u \in Tx : tx[u] # Idle => tx[u].e # e

Exists(e) == booking[e].status \notin {"none", "deleted"}

CreateBooking(t, e, s) == New(e) /\ Begin(t, "book", e, s, "unset", FALSE)

(* confirm_card and update_card_status judge the card before they lock.    *)
ConfirmCard(t, e, s) ==
    New(e) /\ card = "pending" /\ Begin(t, "confirmCard", e, s, "unset", FALSE)

CreateStandaloneRegularLessons(t, e, s) == New(e) /\ Begin(t, "register", e, s, "unset", FALSE)

CreateLesson(t, e, s) == New(e) /\ ~Conflicts(s, e) /\ Begin(t, "lesson", e, s, "unset", FALSE)

ApproveBooking(t, e) ==
    /\ Exists(e)
    /\ ~Conflicts(booking[e].slot, e)
    /\ Begin(t, "approve", e, NoSlot, "confirmed", FALSE)

ChangeBooking(t, e, s) ==
    /\ Exists(e) /\ s # booking[e].slot
    /\ ~Conflicts(s, e)
    /\ Begin(t, "move", e, s, "changeRequested", FALSE)

(* Whether a PUT of another slot asks for a change: it names no status, or *)
(* the one the booking has, which the app sends along.                     *)
ChangeIntent(e, status) == status \in {"unset", booking[e].status}

(* PUT moves a booking wherever it is told.  Only the teacher may name     *)
(* another status, and then the move asks for no change.                   *)
UpdateBooking(t, e, s, who, status) ==
    /\ Exists(e) /\ s # booking[e].slot
    /\ status \notin {"unset", booking[e].status} => who = "teacher"
    /\ IF ChangeIntent(e, status)
       THEN Begin(t, "move", e, s, "changeRequested", FALSE)
       ELSE Begin(t, "rewrite", e, s, status, who = "student")

-----------------------------------------------------------------------------
(* Lock *)

(* Mutants: a path reads without its lock. *)
LockFreeExcept(t, lock) ==
    \A u \in Tx \ {t} :
        tx[u].stage = "locked" => Locks(tx[u].op) # Locks(tx[t].op)
                                  \/ Locks(tx[t].op) \in {"none", lock}
LockFreeBooking(t) == LockFreeExcept(t, "teacher")
LockFreeSeries(t) == LockFreeExcept(t, "advisory")
LockFreeMove(t) == LockFreeExcept(t, "subscription")

LockFree(t) ==
    \A u \in Tx \ {t} :
        tx[u].stage = "locked" => Locks(tx[u].op) # Locks(tx[t].op) \/ Locks(tx[t].op) = "none"

(* Under the lock: no overlap, a slot of the series without conflict, or   *)
(* the allowance.                                                          *)
Passes(q) ==
    CASE q.op = "book" -> ~Overlaps(q.slot)
      [] q.op \in {"confirmCard", "register"} -> ~Conflicts(q.slot, q.e)
      [] q.op = "move" -> used < Credits
      [] OTHER -> TRUE

Lock(t) ==
    /\ tx[t].stage = "begun"
    /\ LockFree(t)
    /\ Passes(tx[t])
    /\ Becomes(t, [tx[t] EXCEPT !.stage = "locked",
                               !.count = IF Locks(tx[t].op) = "subscription" THEN used ELSE 0])
    /\ UNCHANGED <<booking, lesson, card, used, balance, unpaid>>

-----------------------------------------------------------------------------
(* Commit *)

Commits(t, ops) ==
    /\ tx[t].stage = "locked"
    /\ tx[t].op \in ops
    /\ Becomes(t, Idle)

Stays(status) == status \in {"pending", "confirmed"}

(* Pending, or at once confirmed when it fills an availability slot.       *)
CommitBooking(t) ==
    LET q == tx[t]
    IN  /\ Commits(t, {"book"})
        /\ \E status \in {"pending", "confirmed"} :
             booking' = [booking EXCEPT ![q.e] = [status |-> status, slot |-> q.slot,
                                                  kept |-> TRUE, by |-> "student"]]
        /\ UNCHANGED <<lesson, card, used, balance, unpaid>>

LessonAt(s, kept) == [status |-> "live", slot |-> s, kept |-> kept]

(* Each occurrence of a series is a booking and a lesson.                  *)
CommitSeries(t) ==
    LET q == tx[t]
    IN  /\ Commits(t, {"confirmCard", "register"})
        /\ booking' = [booking EXCEPT ![q.e] =
                         [status |-> "confirmed", slot |-> q.slot, kept |-> FALSE, by |-> "series"]]
        /\ lesson' = [lesson EXCEPT ![q.e] = LessonAt(q.slot, TRUE)]
        /\ card' = IF q.op = "confirmCard" THEN "confirmed" ELSE card
        /\ UNCHANGED <<used, balance, unpaid>>

CommitLesson(t) ==
    LET q == tx[t]
    IN  /\ Commits(t, {"lesson"})
        /\ lesson' = [lesson EXCEPT ![q.e] = LessonAt(q.slot, FALSE)]
        /\ UNCHANGED <<booking, card, used, balance, unpaid>>

Named(row, status) == IF status = "unset" THEN row.status ELSE status

CommitApproval(t) ==
    LET q == tx[t]
    IN  /\ Commits(t, {"approve"})
        /\ Exists(q.e)
        /\ booking' = [booking EXCEPT ![q.e].status = Named(booking[q.e], q.status)]
        /\ UNCHANGED <<lesson, card, used, balance, unpaid>>

(* Mutant: the new status spelt the way the database spells one. *)
MovedSnakeCase(row, s, status) ==
    [row EXCEPT !.slot = s, !.kept = FALSE,
                !.status = IF status = "changeRequested" THEN "change_requested"
                                                         ELSE Named(row, status)]

Moved(row, s, status) == [row EXCEPT !.slot = s, !.kept = FALSE, !.status = Named(row, status)]

(* A move that asks for a change costs one, the count being written as it  *)
(* was read and one more; the lesson stays where it is.                    *)
CommitMove(t) ==
    LET q == tx[t]
    IN  /\ Commits(t, {"move"})
        /\ Exists(q.e)
        /\ booking' = [booking EXCEPT ![q.e] = Moved(@, q.slot, q.status)]
        /\ used' = q.count + 1
        /\ balance' = balance + 1
        /\ UNCHANGED <<lesson, card, unpaid>>

(* The PUT that names another status moves the booking for nothing.        *)
CommitRewrite(t) ==
    LET q == tx[t]
    IN  /\ Commits(t, {"rewrite"})
        /\ Exists(q.e)
        /\ booking' = [booking EXCEPT ![q.e] = Moved(@, q.slot, q.status)]
        /\ unpaid' = (unpaid \/ q.free)
        /\ UNCHANGED <<lesson, card, used, balance>>

Abort(t) ==
    /\ tx[t] # Idle
    /\ Becomes(t, Idle)
    /\ UNCHANGED <<booking, lesson, card, used, balance, unpaid>>

-----------------------------------------------------------------------------
(* Writes that neither lock nor check *)

(* Completed, rejected, cancelled, or whatever the teacher's PUT says.     *)
SetStatus(e, status) ==
    /\ Exists(e)
    /\ booking[e].status # status
    /\ booking' = [booking EXCEPT ![e].status = status, ![e].kept = @ /\ Stays(status)]
    /\ UNCHANGED <<lesson, card, used, balance, unpaid, tx>>

DeleteBooking(e) ==
    /\ Exists(e)
    /\ booking' = [booking EXCEPT ![e] = [@ EXCEPT !.status = "deleted", !.slot = NoSlot,
                                                   !.kept = FALSE]]
    /\ UNCHANGED <<lesson, card, used, balance, unpaid, tx>>

(* PUT /lessons asks nobody, nor does the status of a lesson.              *)
MoveLesson(e, s) ==
    /\ lesson[e].status # "none" /\ lesson[e].slot # s
    /\ lesson' = [lesson EXCEPT ![e] = [@ EXCEPT !.slot = s, !.kept = FALSE]]
    /\ UNCHANGED <<booking, card, used, balance, unpaid, tx>>

(* Cancelled, or taken back up.                                            *)
SetLessonStatus(e, status) ==
    /\ lesson[e].status \notin {"none", status}
    /\ lesson' = [lesson EXCEPT ![e] = [@ EXCEPT !.status = status, !.kept = FALSE]]
    /\ UNCHANGED <<booking, card, used, balance, unpaid, tx>>

(* The booking and the lesson of a series that are one occurrence: what    *)
(* ties them is the teacher's profile id and the slot.                     *)
SameOccurrence(e, d) ==
    /\ booking[e].by = "series"
    /\ booking[e].status \in {"pending", "confirmed", "changeRequested"}
    /\ lesson[d].status = "live" /\ lesson[d].slot = booking[e].slot

(* Moved, or cancelled when its new slot was taken.                        *)
Shifted(row, s, lost) ==
    IF lost THEN [row EXCEPT !.status = "cancelled", !.kept = FALSE]
            ELSE [row EXCEPT !.slot = s, !.kept = FALSE]

ShiftLesson(d, s, lost) == lesson' = [lesson EXCEPT ![d] = Shifted(@, s, lost)]

ShiftBooking(e, s, lost) == booking' = [booking EXCEPT ![e] = Shifted(@, s, lost)]

(* One booking of a bulk change, with its lesson if it has one.  Whether   *)
(* its new slot was taken when it was looked at, also by what is not       *)
(* modelled, is left open.                                                 *)
BulkChange(e, s) ==
    /\ booking[e].status \in {"pending", "confirmed", "changeRequested"}
    /\ \E lost \in BOOLEAN :
         /\ ShiftBooking(e, s, lost)
         /\ \/ \E d \in Entries : SameOccurrence(e, d) /\ ShiftLesson(d, s, lost)
            \/ (\A d \in Entries : ~SameOccurrence(e, d)) /\ UNCHANGED lesson
    /\ UNCHANGED <<card, used, balance, unpaid, tx>>

(* An accepted change of one lesson or of all, one of them, with its       *)
(* booking if it has one.                                                  *)
ApplyScheduleChange(d, s) ==
    /\ lesson[d].status = "live"
    /\ \E lost \in BOOLEAN :
         /\ ShiftLesson(d, s, lost)
         /\ \/ \E e \in Entries : SameOccurrence(e, d) /\ ShiftBooking(e, s, lost)
            \/ (\A e \in Entries : ~SameOccurrence(e, d)) /\ UNCHANGED booking
    /\ UNCHANGED <<card, used, balance, unpaid, tx>>

(* The student rejects or dismisses the card.  The answer was judged while *)
(* the card was pending, which need not be so any more.                    *)
CloseCard ==
    /\ card # "closed"
    /\ card' = "closed"
    /\ UNCHANGED <<booking, lesson, used, balance, unpaid, tx>>

-----------------------------------------------------------------------------
(* The other writers of the count *)

SubscriptionFree == \A t \in Tx : tx[t].stage = "locked" => Locks(tx[t].op) # "subscription"

(* Each of these waits for the row; ScheduleChange has their steps.        *)
UseReschedule ==
    /\ SubscriptionFree /\ used < Credits
    /\ used' = used + 1 /\ balance' = balance + 1
    /\ UNCHANGED <<booking, lesson, card, unpaid, tx>>

RestoreCredit ==
    /\ SubscriptionFree /\ used > 0
    /\ used' = used - 1 /\ balance' = balance - 1
    /\ UNCHANGED <<booking, lesson, card, unpaid, tx>>

(* PUT /subscriptions sets the count to what it says.                      *)
UpdateSubscription(count) ==
    /\ SubscriptionFree
    /\ used' = count /\ balance' = count
    /\ UNCHANGED <<booking, lesson, card, unpaid, tx>>

Next ==
    \/ \E t \in Tx, e \in Entries :
         \/ \E s \in Slots :
              \/ CreateBooking(t, e, s) \/ ConfirmCard(t, e, s)
              \/ CreateStandaloneRegularLessons(t, e, s) \/ CreateLesson(t, e, s)
              \/ ChangeBooking(t, e, s)
              \/ \E who \in {"student", "teacher"},
                    status \in Statuses \cup {"unset"} :
                   UpdateBooking(t, e, s, who, status)
         \/ ApproveBooking(t, e)
    \/ \E t \in Tx :
         \/ Lock(t)
         \/ CommitBooking(t) \/ CommitSeries(t) \/ CommitLesson(t)
         \/ CommitApproval(t) \/ CommitMove(t) \/ CommitRewrite(t) \/ Abort(t)
    \/ \E e \in Entries :
         \/ \E status \in Statuses : SetStatus(e, status)
         \/ \E status \in {"live", "cancelled"} : SetLessonStatus(e, status)
         \/ \E s \in Slots : MoveLesson(e, s) \/ BulkChange(e, s) \/ ApplyScheduleChange(e, s)
         \/ DeleteBooking(e)
    \/ CloseCard
    \/ UseReschedule \/ RestoreCredit \/ \E count \in 0..Credits : UpdateSubscription(count)

Spec == Init /\ [][Next]_vars

-----------------------------------------------------------------------------
(* Properties *)

CalendarTypeOK ==
    /\ booking \in [Entries -> Booking]
    /\ lesson \in [Entries -> Lesson]
    /\ card \in CardStatus
    /\ used \in 0..Credits
    /\ balance \in Int
    /\ unpaid \in BOOLEAN
    /\ tx \in [Tx -> Transaction \cup {Idle}]

(* First come, first served: two students never hold one slot by booking   *)
(* it, as long as nobody moves or revives a booking (the lock of the       *)
(* teacher's row, #237).                                                   *)
FirstComeFirstServed ==
    \A d, e \in Entries :
        /\ booking[d].by = "student" /\ booking[d].kept
        /\ booking[e].by = "student" /\ booking[e].kept
        /\ booking[d].slot = booking[e].slot
        => d = e

(* Series that are made at the same time do not collide (#301), as long as *)
(* nobody moves or revives a lesson: the advisory lock covers check and    *)
(* insert, and what happens to their bookings does not matter.             *)
SeriesDisjoint ==
    \A d, e \in Entries :
        /\ booking[d].by = "series" /\ lesson[d].kept
        /\ booking[e].by = "series" /\ lesson[e].kept
        /\ lesson[d].slot = lesson[e].slot
        => d = e

(* Moves that ask for a change, by PATCH or by PUT, spend one each: none   *)
(* is lost and none is made up when they, the teacher's use of one, the    *)
(* job that gives one back and a PUT of the subscription come together.    *)
(* No PUT of a student moves a booking without spending one.               *)
MovesArePaid == used = balance /\ ~unpaid

=============================================================================
