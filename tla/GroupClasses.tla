------------------------------ MODULE GroupClasses ------------------------------
(***************************************************************************)
(* One session of a group class: students book it or wait for a seat, the  *)
(* teacher marks who came, and a booking costs its student one session of  *)
(* a subscription, be it by attendance or by the no-show policy.           *)
(*                                                                         *)
(* Every request is one READ COMMITTED transaction that writes the values  *)
(* it computed from what it read: the counters of the session (schedule    *)
(* row), the booking's row, the used_lessons of the subscription.          *)
(***************************************************************************)
EXTENDS Integers, FiniteSets

CONSTANTS
    Students,
    Capacity,       \* max_capacity
    WaitCapacity,   \* waitlist_capacity
    Sessions,       \* sessions in the subscription of each student
    Nobody,         \* stands for no student
    Tx              \* bound: transactions under way at once

ASSUME ClassesAssumption ==
    /\ Capacity \in Nat \ {0}
    /\ WaitCapacity \in Nat
    /\ Sessions \in [Students -> Nat]
    /\ Nobody \notin Students

VARIABLES
    booking,    \* per student: the row in group_class_bookings
    seats,      \* current_bookings
    waiting,    \* waitlist_count
    records,    \* per student: rows in no_show_records
    charged,    \* per student: usage rows this class has recorded
    used,       \* per student: used_lessons of the subscription
    tx,         \* the transactions under way
    raced,      \* ghost: two requests about this session have overlapped
    handed      \* ghost: the teacher has promoted somebody by hand

vars == <<booking, seats, waiting, records, charged, used, tx, raced, handed>>

(* None: the student has never booked; the row of a cancelled booking      *)
(* stays, and its unique index keeps the student from booking again.  The  *)
(* place is only looked at, and only kept here, while the student waits.   *)
BookingStatus == {"none", "confirmed", "waitlist", "cancelled", "attended", "noShow"}

Booking == [status : BookingStatus, place : Nat, deducted : BOOLEAN]

Op == {"book", "cancel", "promote", "noShow", "deduct"}

(* What it has read: the booking's status and marker, the counters, the    *)
(* number of its no-show records, used_lessons and the first of the        *)
(* waitlist.                                                               *)
Transaction ==
    [stage : {"begun", "locked"}, op : Op, s : Students, was : BookingStatus,
     seats : Nat, waiting : Nat, first : Students \cup {Nobody},
     deducted : BOOLEAN, records : Nat, used : Nat]

Idle == [stage |-> "idle"]

Init ==
    /\ booking = [s \in Students |-> [status |-> "none", place |-> 0, deducted |-> FALSE]]
    /\ seats = 0 /\ waiting = 0
    /\ records = [s \in Students |-> 0]
    /\ charged = [s \in Students |-> 0]
    /\ used = [s \in Students |-> 0]
    /\ tx = [t \in Tx |-> Idle]
    /\ raced = FALSE /\ handed = FALSE

-----------------------------------------------------------------------------
(* Begin: what is read without a lock *)

Having(status) == {s \in Students : booking[s].status = status}

(* Places are handed out by the count of those waiting, so two may share.  *)
FirstInLine(s) ==
    /\ s \in Having("waitlist")
    /\ \A r \in Having("waitlist") : booking[s].place <= booking[r].place

Becomes(t, q) == tx' = [tx EXCEPT ![t] = q]

Read(op, s) ==
    [stage |-> "begun", op |-> op, s |-> s,
     was |-> IF op \in {"cancel", "noShow"} THEN booking[s].status ELSE "none",
     seats |-> IF op \in {"book", "cancel"} THEN seats ELSE 0,
     waiting |-> IF op \in {"book", "cancel"} THEN waiting ELSE 0,
     first |-> Nobody, deducted |-> FALSE, records |-> 0, used |-> 0]

Begin(t, op, s) ==
    /\ tx[t] = Idle
    /\ Becomes(t, Read(op, s))
    /\ raced' = (raced \/ \E u \in Tx : tx[u] # Idle)
    /\ UNCHANGED <<booking, seats, waiting, records, charged, used, handed>>

Exists(s) == booking[s].status # "none"

CreateGroupBooking(t, s) ==
    /\ seats < Capacity \/ waiting < WaitCapacity
    /\ Begin(t, "book", s)

CancelGroupBooking(t, s) == Exists(s) /\ Begin(t, "cancel", s)

PromoteFromWaitlistPublic(t, s) == FirstInLine(s) /\ Begin(t, "promote", s)

MarkNoShow(t, s) == Exists(s) /\ Begin(t, "noShow", s)

DeductSubscription(t, s) == Exists(s) /\ Begin(t, "deduct", s)

-----------------------------------------------------------------------------
(* Lock *)

(* A no-show that was read as one before is not written, so not locked.    *)
LocksRow(q) == q.op \in {"cancel", "deduct"} \/ (q.op = "noShow" /\ q.was # "noShow")

RowLocked(s, by) == \E u \in by : tx[u].stage = "locked" /\ tx[u].s = s /\ LocksRow(tx[u])

RowFree(t, s) == ~RowLocked(s, Tx \ {t})

(* cancel writes the counters before it looks for the first in line.       *)
LocksCounters(q) == q.op = "cancel" /\ q.was = "confirmed"

CountersFree(t) ==
    \A u \in Tx \ {t} : tx[u].stage = "locked" => ~LocksCounters(tx[u])

(* deduct reads the row FOR UPDATE, a no-show is written and refreshed     *)
(* before the policy is applied.  The subscription is read beside them.    *)
Rereads(q, first) ==
    [q EXCEPT !.stage = "locked", !.first = first,
              !.deducted = booking[q.s].deducted,
              !.records = IF q.op = "noShow" THEN records[q.s] ELSE 0,
              !.used = IF q.op = "cancel" THEN 0 ELSE used[q.s]]

(* Mutant: the row is read without FOR UPDATE. *)
GetsRowUnlocked(t) == TRUE

GetsRow(t) == LocksRow(tx[t]) => RowFree(t, tx[t].s)

Lock(t) ==
    LET q == tx[t]
    IN  /\ q.stage = "begun"
        /\ q.op \in {"cancel", "noShow", "deduct"}
        /\ GetsRow(t)
        /\ LocksCounters(q) => CountersFree(t)
        /\ \E first \in Students \cup {Nobody} :
             /\ IF LocksCounters(q) /\ Having("waitlist") # {} THEN FirstInLine(first)
                                                             ELSE first = Nobody
             /\ Becomes(t, Rereads(q, first))
        /\ UNCHANGED <<booking, seats, waiting, records, charged, used, raced, handed>>

-----------------------------------------------------------------------------
(* Commit *)

Commits(t, op, stage) ==
    /\ tx[t].stage = stage
    /\ tx[t].op = op
    /\ Becomes(t, Idle)
    /\ UNCHANGED raced

(* Mutant: one seat too many. *)
SeatedOffByOne(q) == q.seats <= Capacity

Seated(q) == q.seats < Capacity

(* A seat while there is one, then a place in the line.                    *)
CommitBooking(t) ==
    LET q == tx[t]
        seated == Seated(q)
    IN  /\ Commits(t, "book", "begun")
        /\ CountersFree(t)
        /\ ~Exists(q.s)
        /\ booking' = [booking EXCEPT ![q.s].status = IF seated THEN "confirmed" ELSE "waitlist",
                                      ![q.s].place = IF seated THEN 0 ELSE q.waiting + 1]
        /\ seats' = IF seated THEN q.seats + 1 ELSE seats
        /\ waiting' = IF seated THEN waiting ELSE q.waiting + 1
        /\ UNCHANGED <<records, charged, used, handed>>

Less(n) == IF n = 0 THEN 0 ELSE n - 1

(* Mutant: the count is not kept from falling below zero. *)
SeatsUnfloored(q) == IF q.was = "confirmed" THEN q.seats - 1 ELSE seats

(* Only who was confirmed frees a seat.                                    *)
SeatsAfterCancel(q) == IF q.was = "confirmed" THEN Less(q.seats) ELSE seats

(* The first in line takes the seat, whatever has become of its booking.   *)
CommitCancel(t) ==
    LET q == tx[t]
        promotes == q.first # Nobody
    IN  /\ Commits(t, "cancel", "locked")
        /\ promotes => RowFree(t, q.first)
        /\ booking' = [s \in Students |->
                         IF s = q.s /\ q.was # "cancelled"
                         THEN [booking[s] EXCEPT !.status = "cancelled", !.place = 0]
                         ELSE IF s = q.first
                         THEN [booking[s] EXCEPT !.status = "confirmed", !.place = 0]
                         ELSE booking[s]]
        /\ seats' = IF promotes THEN SeatsAfterCancel(q) + 1 ELSE SeatsAfterCancel(q)
        /\ waiting' = IF promotes THEN Less(q.waiting) ELSE waiting
        /\ UNCHANGED <<records, charged, used, handed>>

(* The counters stay as they are.                                          *)
CommitPromotion(t) ==
    LET q == tx[t]
    IN  /\ Commits(t, "promote", "begun")
        /\ RowFree(t, q.s)
        /\ booking' = [booking EXCEPT ![q.s].status = "confirmed", ![q.s].place = 0]
        /\ handed' = TRUE
        /\ UNCHANGED <<seats, waiting, records, charged, used>>

(* add_usage: one more than what had been read when the subscription was   *)
(* chosen, for the session still holds that copy.                          *)
Charges(q) ==
    /\ charged' = [charged EXCEPT ![q.s] = @ + 1]
    /\ used' = [used EXCEPT ![q.s] = q.used + 1]

(* Mutant: the policy's own charge is not marked on the booking. *)
NoShowRowUnmarked(q, row, charge) ==
    [row EXCEPT !.status = IF q.was = "noShow" THEN @ ELSE "noShow", !.place = 0]

NoShowRow(q, row, charge) ==
    [row EXCEPT !.status = IF q.was = "noShow" THEN @ ELSE "noShow", !.place = 0,
                !.deducted = @ \/ charge]

(* Recorded once; charged if the policy says so, nothing has been charged  *)
(* and a session is left.                                                  *)
CommitNoShow(t) ==
    LET q == tx[t]
    IN  /\ Commits(t, "noShow", "locked")
        /\ LocksRow(q) \/ RowFree(t, q.s)
        /\ \E charge \in BOOLEAN :
             /\ charge => q.records = 0 /\ ~q.deducted /\ q.used < Sessions[q.s]
             /\ IF charge THEN Charges(q) ELSE UNCHANGED <<charged, used>>
             /\ booking' = [booking EXCEPT ![q.s] = NoShowRow(q, @, charge)]
        /\ records' = [records EXCEPT ![q.s] = IF q.records = 0 THEN @ + 1 ELSE @]
        /\ UNCHANGED <<seats, waiting, handed>>

CommitDeduction(t) ==
    LET q == tx[t]
    IN  /\ Commits(t, "deduct", "locked")
        /\ ~q.deducted
        /\ q.used < Sessions[q.s]
        /\ Charges(q)
        /\ booking' = [booking EXCEPT ![q.s].deducted = TRUE]
        /\ UNCHANGED <<seats, waiting, records, handed>>

Abort(t) ==
    /\ tx[t] # Idle
    /\ Becomes(t, Idle)
    /\ UNCHANGED <<booking, seats, waiting, records, charged, used, raced, handed>>

-----------------------------------------------------------------------------
(* Single steps *)

MarkAttended(s) ==
    /\ Exists(s)
    /\ ~RowLocked(s, Tx)
    /\ booking' = [booking EXCEPT ![s].status = "attended", ![s].place = 0]
    /\ UNCHANGED <<seats, waiting, records, charged, used, tx, raced, handed>>

(* The count of those waiting stays as it is.                              *)
AutoCancelWaitlist ==
    /\ Having("waitlist") # {}
    /\ \A s \in Having("waitlist") : ~RowLocked(s, Tx)
    /\ booking' = [s \in Students |-> IF s \in Having("waitlist")
                                      THEN [booking[s] EXCEPT !.status = "cancelled", !.place = 0]
                                      ELSE booking[s]]
    /\ UNCHANGED <<seats, waiting, records, charged, used, tx, raced, handed>>

(* A lesson of the student is charged, under the subscription's lock.      *)
ChargeLesson(s) ==
    /\ used[s] < Sessions[s]
    /\ used' = [used EXCEPT ![s] = @ + 1]
    /\ UNCHANGED <<booking, seats, waiting, records, charged, tx, raced, handed>>

Next ==
    \/ \E t \in Tx, s \in Students :
         \/ CreateGroupBooking(t, s) \/ CancelGroupBooking(t, s)
         \/ PromoteFromWaitlistPublic(t, s) \/ MarkNoShow(t, s) \/ DeductSubscription(t, s)
    \/ \E t \in Tx :
         \/ Lock(t)
         \/ CommitBooking(t) \/ CommitCancel(t) \/ CommitPromotion(t)
         \/ CommitNoShow(t) \/ CommitDeduction(t) \/ Abort(t)
    \/ \E s \in Students : MarkAttended(s) \/ ChargeLesson(s)
    \/ AutoCancelWaitlist

Spec == Init /\ [][Next]_vars

-----------------------------------------------------------------------------
(* Properties *)

ClassesTypeOK ==
    /\ booking \in [Students -> Booking]
    /\ seats \in Nat /\ waiting \in Nat
    /\ records \in [Students -> Nat]
    /\ charged \in [Students -> Nat]
    /\ used \in [Students -> Nat]
    /\ \A s \in Students : used[s] <= Sessions[s]
    /\ tx \in [Tx -> Transaction \cup {Idle}]
    /\ raced \in BOOLEAN /\ handed \in BOOLEAN

(* A booking costs one session, by attendance or by the no-show policy,    *)
(* however the two, their repetitions and corrections interleave; and its  *)
(* no-show is recorded once, though no unique index stands behind it.      *)
BookingChargedOnce == \A s \in Students : charged[s] <= 1 /\ records[s] <= 1

(* The marker both paths go by says whether the booking was charged.       *)
MarkerTellsCharge == \A s \in Students : booking[s].deducted <=> charged[s] > 0

(* Requests that come one after the other never seat more students than    *)
(* the class takes, unless the teacher promotes somebody by hand.          *)
NotOverbookedInTurn == raced \/ handed \/ Cardinality(Having("confirmed")) <= Capacity

=============================================================================
