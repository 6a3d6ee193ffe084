---------------------------- MODULE Calendar_proofs ----------------------------
(***************************************************************************)
(* The properties of Calendar, for any number of entries, slots and        *)
(* requests.                                                               *)
(*                                                                         *)
(* Three locks, three arguments of the same form: what a request has       *)
(* judged under its lock still holds when it commits, for only a request   *)
(* with the same lock could have made it false.                            *)
(***************************************************************************)
EXTENDS Calendar, TLAPS

Locked(t) == tx[t].stage = "locked"

Exclusive ==
    \A t, u \in Tx :
        Locked(t) /\ Locked(u) /\ Locks(tx[t].op) = Locks(tx[u].op)
            => t = u \/ Locks(tx[t].op) = "none"

(* A request that makes an entry has it for itself, and no row is there.   *)
Makes(op) == op \in {"book", "confirmCard", "register", "lesson"}

OwnEntry ==
    \A t \in Tx : tx[t] # Idle /\ Makes(tx[t].op) =>
        /\ booking[tx[t].e].status = "none"
        /\ tx[t].slot \in Slots
        /\ \A u \in Tx : tx[u] # Idle /\ tx[u].e = tx[t].e => u = t

UnmadeIsNobodys ==
    \A e \in Entries : booking[e].status = "none" => booking[e].by = "nobody" /\ ~booking[e].kept

KeptStays == \A e \in Entries : booking[e].kept => Stays(booking[e].status)

KeptIsLive == \A e \in Entries : lesson[e].kept => lesson[e].status = "live"

(* Held by a student's booking, by a lesson of a series.                   *)
Booked(e, s) == booking[e].by = "student" /\ booking[e].kept /\ booking[e].slot = s

InSeries(e) == booking[e].by = "series" /\ lesson[e].kept

BookedSlotFree ==
    \A t \in Tx, e \in Entries : Locked(t) /\ tx[t].op = "book" => ~Booked(e, tx[t].slot)

SeriesSlotFree ==
    \A t \in Tx, e \in Entries :
        Locked(t) /\ tx[t].op \in {"confirmCard", "register"} /\ InSeries(e)
            => lesson[e].slot # tx[t].slot

(* A move that waits to be committed has read the count, and there is one  *)
(* more to spend.                                                          *)
CountRead ==
    \A t \in Tx : Locked(t) /\ tx[t].op = "move" => tx[t].count = used /\ used < Credits

(* An approval confirms, and no student asks for a move that costs nothing. *)
Asked ==
    \A t \in Tx : tx[t] # Idle =>
        /\ tx[t].op = "approve" => tx[t].status \in {"unset", "confirmed"}
        /\ tx[t].free = FALSE

RowsInv ==
    /\ CalendarTypeOK
    /\ OwnEntry
    /\ UnmadeIsNobodys
    /\ KeptStays
    /\ KeptIsLive

LocksInv ==
    /\ Exclusive
    /\ BookedSlotFree
    /\ SeriesSlotFree
    /\ CountRead
    /\ Asked

CalendarInv ==
    /\ RowsInv
    /\ LocksInv
    /\ FirstComeFirstServed
    /\ SeriesDisjoint
    /\ MovesArePaid

-----------------------------------------------------------------------------
(* Types and locks *)

LEMMA IdleIsIdle == Idle.stage = "idle"
  BY DEF Idle

LEMMA TransactionFields ==
    ASSUME CalendarTypeOK, NEW t \in Tx, tx[t] # Idle
    PROVE  /\ tx[t] \in Transaction
           /\ tx[t].stage \in {"begun", "locked"}
           /\ tx[t].op \in Op
           /\ tx[t].e \in Entries
           /\ tx[t].slot \in Slots \cup {NoSlot}
           /\ tx[t].status \in {"unset"} \cup (BookingStatus \ {"none", "deleted"})
           /\ tx[t].count \in Nat
           /\ tx[t].free \in BOOLEAN
  <1>1. tx[t] \in Transaction
    BY DEF CalendarTypeOK
  <1> QED
    BY <1>1 DEF Transaction

LEMMA LockedIsUnderWay ==
    ASSUME NEW t \in Tx, Locked(t)
    PROVE  tx[t] # Idle
  BY IdleIsIdle DEF Locked

LEMMA BookingFields ==
    ASSUME CalendarTypeOK, NEW e \in Entries
    PROVE  /\ booking[e] \in Booking
           /\ booking[e].status \in BookingStatus
           /\ booking[e].slot \in Slots \cup {NoSlot}
           /\ booking[e].kept \in BOOLEAN
           /\ booking[e].by \in {"nobody", "student", "series"}
  <1>1. booking[e] \in Booking
    BY DEF CalendarTypeOK
  <1> QED
    BY <1>1 DEF Booking

(* Which request waits for which lock.                                     *)
LEMMA LockOfOp ==
    /\ Locks("book") = "teacher"
    /\ Locks("confirmCard") = "advisory" /\ Locks("register") = "advisory"
    /\ Locks("move") = "subscription"
    /\ Locks("lesson") = "none" /\ Locks("approve") = "none" /\ Locks("rewrite") = "none"
  BY DEF Locks

LEMMA LockOfMaker ==
    \A op \in {"confirmCard", "register"} : Locks(op) = "advisory" /\ Makes(op)
  BY LockOfOp DEF Makes

LEMMA LockOfMover == Locks("move") = "subscription" /\ ~Makes("move") /\ ~Makes("rewrite")
  BY LockOfOp DEF Makes

LEMMA LessonFields ==
    ASSUME CalendarTypeOK, NEW e \in Entries
    PROVE  /\ lesson[e] \in Lesson
           /\ lesson[e].slot \in Slots \cup {NoSlot}
           /\ lesson[e].kept \in BOOLEAN
  BY DEF CalendarTypeOK, Lesson

-----------------------------------------------------------------------------
(* Steps that only take away *)

(* A step that ends requests, makes no entry and keeps no more than was    *)
(* kept leaves everything as it is.                                        *)
LEMMA TakingAwayKeepsInv ==
    ASSUME CalendarInv, CalendarTypeOK',
           \A u \in Tx : tx'[u] = tx[u] \/ tx'[u] = Idle,
           UNCHANGED <<used, balance, unpaid>>,
           \A e \in Entries :
              /\ booking'[e].by = booking[e].by
              /\ booking'[e].status = "none" <=> booking[e].status = "none"
              /\ booking'[e].kept => /\ booking[e].kept /\ booking'[e].slot = booking[e].slot
                                     /\ Stays(booking'[e].status)
              /\ lesson'[e].kept => lesson[e].kept /\ lesson'[e] = lesson[e]
    PROVE  CalendarInv'
  <1> USE DEF CalendarInv, RowsInv, LocksInv
  <1>1. \A u \in Tx : /\ Locked(u)' => Locked(u) /\ tx'[u] = tx[u]
                      /\ tx'[u] # Idle => tx'[u] = tx[u]
    BY IdleIsIdle DEF Locked
  <1>2. \A e \in Entries, s \in Slots \cup {NoSlot} : Booked(e, s)' => Booked(e, s)
    BY DEF Booked
  <1>3. \A e \in Entries : InSeries(e)' => InSeries(e) /\ lesson'[e] = lesson[e]
    BY DEF InSeries
  <1>4. Exclusive'
    BY <1>1 DEF Exclusive
  <1>5. \A t \in Tx : Locked(t) => tx[t].slot \in Slots \cup {NoSlot} /\ tx[t].e \in Entries
    BY LockedIsUnderWay, TransactionFields
  <1>6. OwnEntry'
    <2> SUFFICES ASSUME NEW t \in Tx, tx'[t] # Idle, Makes(tx'[t].op)
                 PROVE  /\ booking'[tx'[t].e].status = "none"
                        /\ tx'[t].slot \in Slots
                        /\ \A u \in Tx : tx'[u] # Idle /\ tx'[u].e = tx'[t].e => u = t
      BY DEF OwnEntry, Makes
    <2>1. tx'[t] = tx[t] /\ tx[t].e \in Entries
      BY <1>1, TransactionFields
    <2> QED
      BY <1>1, <2>1 DEF OwnEntry
  <1>7. UnmadeIsNobodys' /\ KeptStays' /\ KeptIsLive'
    BY DEF UnmadeIsNobodys, KeptStays, Stays, KeptIsLive
  <1>8. BookedSlotFree'
    BY <1>1, <1>2, <1>5 DEF BookedSlotFree
  <1>9. SeriesSlotFree'
    BY <1>1, <1>3 DEF SeriesSlotFree
  <1>10. CountRead' /\ Asked'
    BY <1>1 DEF CountRead, Asked
  <1>11. FirstComeFirstServed'
    BY DEF FirstComeFirstServed
  <1>12. SeriesDisjoint'
    BY <1>3 DEF SeriesDisjoint, InSeries
  <1>13. MovesArePaid'
    BY DEF MovesArePaid
  <1> QED
    BY <1>4, <1>6, <1>7, <1>8, <1>9, <1>10, <1>11, <1>12, <1>13

(* The commits that make no entry, and the writes without a lock.          *)
Loosens ==
    \/ \E t \in Tx : CommitApproval(t) \/ CommitRewrite(t) \/ Abort(t)
    \/ \E e \in Entries :
         \/ \E status \in Statuses : SetStatus(e, status)
         \/ \E status \in {"live", "cancelled"} : SetLessonStatus(e, status)
         \/ \E s \in Slots : MoveLesson(e, s) \/ BulkChange(e, s) \/ ApplyScheduleChange(e, s)
         \/ DeleteBooking(e)
    \/ CloseCard

LEMMA EndsOne ==
    ASSUME CalendarTypeOK, NEW t \in Tx, Becomes(t, Idle)
    PROVE  /\ tx' \in [Tx -> Transaction \cup {Idle}]
           /\ tx'[t] = Idle
           /\ \A u \in Tx : tx'[u] = tx[u] \/ tx'[u] = Idle
           /\ \A u \in Tx : u # t => tx'[u] = tx[u]
  BY DEF Becomes, CalendarTypeOK

(* One row of bookings is written.                                         *)
LEMMA RowWritten ==
    ASSUME CalendarTypeOK, NEW e \in Entries, NEW row \in Booking,
           booking' = [booking EXCEPT ![e] = row]
    PROVE  /\ booking' \in [Entries -> Booking]
           /\ booking'[e] = row
           /\ \A d \in Entries : d # e => booking'[d] = booking[d]
  BY DEF CalendarTypeOK

LEMMA LessonWritten ==
    ASSUME CalendarTypeOK, NEW d \in Entries, NEW row \in Lesson,
           lesson' = [lesson EXCEPT ![d] = row]
    PROVE  /\ lesson' \in [Entries -> Lesson]
           /\ lesson'[d] = row
           /\ \A e \in Entries : e # d => lesson'[e] = lesson[e]
  BY DEF CalendarTypeOK

LEMMA MovedRow ==
    ASSUME NEW row \in Booking, NEW s \in Slots \cup {NoSlot},
           NEW status \in {"unset"} \cup (BookingStatus \ {"none", "deleted"})
    PROVE  /\ Moved(row, s, status) \in Booking
           /\ Moved(row, s, status).status = "none" <=>
                status = "unset" /\ row.status = "none"
           /\ ~Moved(row, s, status).kept
           /\ Moved(row, s, status).by = row.by
  <1>1. Named(row, status) \in BookingStatus
    BY DEF Named, Booking
  <1>2. Named(row, status) = "none" <=> status = "unset" /\ row.status = "none"
    BY DEF Named
  <1> QED
    BY <1>1, <1>2 DEF Moved, Booking

(* The row that a move or a rewrite commits.                               *)
LEMMA MovedEntry ==
    ASSUME CalendarTypeOK, NEW t \in Tx, tx[t] # Idle, Exists(tx[t].e)
    PROVE  /\ Moved(booking[tx[t].e], tx[t].slot, tx[t].status) \in Booking
           /\ ~Moved(booking[tx[t].e], tx[t].slot, tx[t].status).kept
           /\ Moved(booking[tx[t].e], tx[t].slot, tx[t].status).by = booking[tx[t].e].by
           /\ Moved(booking[tx[t].e], tx[t].slot, tx[t].status).status # "none"
  <1>1. PICK row \in Booking : row = booking[tx[t].e] /\ row.status # "none"
    BY TransactionFields, BookingFields DEF Exists
  <1>2. PICK s \in Slots \cup {NoSlot} : s = tx[t].slot
    BY TransactionFields
  <1>3. PICK status \in {"unset"} \cup (BookingStatus \ {"none", "deleted"}) :
           status = tx[t].status
    BY TransactionFields
  <1>4. Moved(row, s, status) = Moved(booking[tx[t].e], tx[t].slot, tx[t].status)
    BY <1>1, <1>2, <1>3
  <1>5. /\ Moved(row, s, status) \in Booking
        /\ ~Moved(row, s, status).kept
        /\ Moved(row, s, status).by = row.by
        /\ Moved(row, s, status).status = "none" <=> status = "unset" /\ row.status = "none"
    BY MovedRow
  <1> QED
    BY <1>1, <1>4, <1>5

(* A row of bookings or of lessons that is moved or lost.                  *)
LEMMA ShiftedRow ==
    ASSUME NEW s \in Slots, NEW lost \in BOOLEAN
    PROVE  /\ \A row \in Booking :
                /\ Shifted(row, s, lost) \in Booking
                /\ ~Shifted(row, s, lost).kept
                /\ Shifted(row, s, lost).by = row.by
                /\ Shifted(row, s, lost).status \in {row.status, "cancelled"}
           /\ \A row \in Lesson :
                /\ row.status = "live" => Shifted(row, s, lost) \in Lesson
                /\ ~Shifted(row, s, lost).kept
  BY DEF Shifted, Booking, Lesson, BookingStatus

(* Of a lesson that was moved, cancelled or revived nothing is asked.      *)
LEMMA LessonRowKeepsInv ==
    ASSUME CalendarInv, NEW e \in Entries,
           \/ \E s \in Slots : lesson' = [lesson EXCEPT ![e] = [@ EXCEPT !.slot = s, !.kept = FALSE]]
           \/ \E status \in {"live", "cancelled"} :
                lesson' = [lesson EXCEPT ![e] = [@ EXCEPT !.status = status, !.kept = FALSE]],
           UNCHANGED <<booking, card, used, balance, unpaid, tx>>
    PROVE  CalendarInv'
  <1> USE DEF CalendarInv, RowsInv
  <1>1. PICK row \in Lesson : ~row.kept /\ lesson' = [lesson EXCEPT ![e] = row]
    <2>1. CASE \E s \in Slots :
                 lesson' = [lesson EXCEPT ![e] = [@ EXCEPT !.slot = s, !.kept = FALSE]]
      <3>1. PICK s \in Slots :
              lesson' = [lesson EXCEPT ![e] = [@ EXCEPT !.slot = s, !.kept = FALSE]]
        BY <2>1
      <3>2. /\ [lesson[e] EXCEPT !.slot = s, !.kept = FALSE] \in Lesson
            /\ ~[lesson[e] EXCEPT !.slot = s, !.kept = FALSE].kept
        BY LessonFields DEF Lesson
      <3> QED
        BY <3>1, <3>2 DEF CalendarTypeOK
    <2>2. CASE \E status \in {"live", "cancelled"} :
                 lesson' = [lesson EXCEPT ![e] = [@ EXCEPT !.status = status, !.kept = FALSE]]
      <3>1. PICK status \in {"live", "cancelled"} :
              lesson' = [lesson EXCEPT ![e] = [@ EXCEPT !.status = status, !.kept = FALSE]]
        BY <2>2
      <3>2. /\ [lesson[e] EXCEPT !.status = status, !.kept = FALSE] \in Lesson
            /\ ~[lesson[e] EXCEPT !.status = status, !.kept = FALSE].kept
        BY LessonFields DEF Lesson
      <3> QED
        BY <3>1, <3>2 DEF CalendarTypeOK
    <2> QED
      BY <2>1, <2>2
  <1>2. CalendarTypeOK' /\ \A d \in Entries : lesson'[d].kept => lesson'[d] = lesson[d]
    BY <1>1, LessonWritten DEF CalendarTypeOK
  <1> QED
    BY <1>2, TakingAwayKeepsInv DEF KeptStays

(* Of one booking and one lesson, or of one of them.                       *)
LEMMA ShiftKeepsInv ==
    ASSUME CalendarInv, NEW c \in Entries, NEW s \in Slots,
           BulkChange(c, s) \/ ApplyScheduleChange(c, s)
    PROVE  CalendarInv'
  <1> USE DEF CalendarInv, RowsInv
  <1>1. /\ UNCHANGED <<card, used, balance, unpaid, tx>>
        /\ \E lost \in BOOLEAN :
             /\ \/ UNCHANGED booking
                \/ \E e \in Entries : booking[e].status # "none" /\ ShiftBooking(e, s, lost)
             /\ \/ UNCHANGED lesson
                \/ \E d \in Entries : lesson[d].status = "live" /\ ShiftLesson(d, s, lost)
    BY DEF BulkChange, ApplyScheduleChange, SameOccurrence
  <1>2. PICK lost \in BOOLEAN :
             /\ \/ UNCHANGED booking
                \/ \E e \in Entries : booking[e].status # "none" /\ ShiftBooking(e, s, lost)
             /\ \/ UNCHANGED lesson
                \/ \E d \in Entries : lesson[d].status = "live" /\ ShiftLesson(d, s, lost)
    BY <1>1
  <1>3. /\ booking' \in [Entries -> Booking]
        /\ \A e \in Entries :
             /\ booking'[e].by = booking[e].by
             /\ booking'[e].status = "none" <=> booking[e].status = "none"
             /\ booking'[e].kept => booking'[e] = booking[e]
    <2>1. CASE UNCHANGED booking
      BY <2>1 DEF CalendarTypeOK
    <2>2. ASSUME NEW e \in Entries, booking[e].status # "none", ShiftBooking(e, s, lost)
          PROVE  /\ booking' \in [Entries -> Booking]
                 /\ \A d \in Entries :
                      /\ booking'[d].by = booking[d].by
                      /\ booking'[d].status = "none" <=> booking[d].status = "none"
                      /\ booking'[d].kept => booking'[d] = booking[d]
      <3> DEFINE row == Shifted(booking[e], s, lost)
      <3>1. /\ row \in Booking /\ ~row.kept /\ row.by = booking[e].by
            /\ row.status \in {booking[e].status, "cancelled"}
        BY BookingFields, ShiftedRow
      <3>2. booking' = [booking EXCEPT ![e] = row]
        BY <2>2 DEF ShiftBooking, CalendarTypeOK
      <3> HIDE DEF row
      <3> QED
        BY <2>2, <3>1, <3>2, RowWritten
    <2> QED
      BY <1>2, <2>1, <2>2
  <1>4. /\ lesson' \in [Entries -> Lesson]
        /\ \A d \in Entries : lesson'[d].kept => lesson'[d] = lesson[d]
    <2>1. CASE UNCHANGED lesson
      BY <2>1 DEF CalendarTypeOK
    <2>2. ASSUME NEW d \in Entries, lesson[d].status = "live", ShiftLesson(d, s, lost)
          PROVE  /\ lesson' \in [Entries -> Lesson]
                 /\ \A e \in Entries : lesson'[e].kept => lesson'[e] = lesson[e]
      <3> DEFINE row == Shifted(lesson[d], s, lost)
      <3>1. row \in Lesson /\ ~row.kept
        BY <2>2, LessonFields, ShiftedRow
      <3>2. lesson' = [lesson EXCEPT ![d] = row]
        BY <2>2 DEF ShiftLesson, CalendarTypeOK
      <3> HIDE DEF row
      <3> QED
        BY <3>1, <3>2, LessonWritten
    <2> QED
      BY <1>2, <2>1, <2>2
  <1>5. CalendarTypeOK'
    BY <1>1, <1>3, <1>4 DEF CalendarTypeOK
  <1> QED
    BY <1>1, <1>3, <1>4, <1>5, TakingAwayKeepsInv DEF KeptStays

(* The teacher's move that names a status costs nothing.                   *)
LEMMA RewriteKeepsInv ==
    ASSUME CalendarInv, NEW t \in Tx, CommitRewrite(t)
    PROVE  CalendarInv'
  <1> USE DEF CalendarInv, RowsInv, LocksInv
  <1> DEFINE q == tx[t]
             row == Moved(booking[q.e], q.slot, q.status)
  <1>1. /\ q # Idle /\ Becomes(t, Idle) /\ Exists(q.e)
        /\ unpaid' = (unpaid \/ q.free)
        /\ UNCHANGED <<lesson, card, used, balance>>
    BY IdleIsIdle DEF CommitRewrite, Commits
  <1>2. /\ q.e \in Entries /\ q.slot \in Slots \cup {NoSlot} /\ q.free = FALSE
        /\ q.status \in {"unset"} \cup (BookingStatus \ {"none", "deleted"})
    BY <1>1, TransactionFields DEF Asked
  <1>3. unpaid' = unpaid
    <2>1. ~unpaid /\ unpaid = FALSE
      BY DEF MovesArePaid, CalendarTypeOK
    <2>2. unpaid' = FALSE
      BY <1>1, <1>2, <2>1
    <2> QED
      BY <2>1, <2>2
  <1>4. /\ row \in Booking /\ ~row.kept /\ row.by = booking[q.e].by /\ row.status # "none"
    BY <1>1, <1>2, MovedEntry, LockedIsUnderWay
  <1>5. booking' = [booking EXCEPT ![q.e] = row]
    BY <1>2 DEF CommitRewrite, CalendarTypeOK
  <1> HIDE DEF row
  <1>6. CalendarTypeOK'
    BY <1>1, <1>2, <1>3, <1>4, <1>5, RowWritten, EndsOne DEF CalendarTypeOK
  <1>7. \A e \in Entries :
          /\ booking'[e].by = booking[e].by
          /\ booking'[e].status = "none" <=> booking[e].status = "none"
          /\ booking'[e].kept => booking'[e] = booking[e]
    BY <1>1, <1>2, <1>4, <1>5, RowWritten DEF Exists
  <1> QED
    BY <1>1, <1>3, <1>6, <1>7, EndsOne, TakingAwayKeepsInv DEF KeptStays

LEMMA LoosensKeepsInv ==
    ASSUME CalendarInv, Loosens
    PROVE  CalendarInv'
  <1> USE DEF CalendarInv, RowsInv
  <1>1. ASSUME NEW t \in Tx, CommitApproval(t) PROVE CalendarInv'
    <2> DEFINE q == tx[t]
               row == [booking[q.e] EXCEPT !.status = Named(booking[q.e], q.status)]
    <2>1. /\ q # Idle /\ Becomes(t, Idle) /\ Exists(q.e)
          /\ UNCHANGED <<lesson, card, used, balance, unpaid>>
      BY <1>1, IdleIsIdle DEF CommitApproval, Commits
    <2>2. q.e \in Entries /\ q.op = "approve" /\ q.status \in {"unset", "confirmed"}
      BY <1>1, <2>1, TransactionFields DEF CommitApproval, Commits, LocksInv, Asked
    <2>3. row \in Booking
      BY <2>2, BookingFields DEF Booking, BookingStatus, Named
    <2>4. booking' = [booking EXCEPT ![q.e] = row]
      BY <1>1, <2>2 DEF CommitApproval, CalendarTypeOK
    <2>5. /\ row.by = booking[q.e].by /\ row.kept = booking[q.e].kept
          /\ row.slot = booking[q.e].slot
          /\ row.status \in {booking[q.e].status, "confirmed"}
      BY <2>2, BookingFields DEF Booking, Named
    <2> HIDE DEF row
    <2>6. CalendarTypeOK'
      BY <2>1, <2>2, <2>3, <2>4, RowWritten, EndsOne DEF CalendarTypeOK
    <2>7. \A e \in Entries :
            /\ booking'[e].by = booking[e].by
            /\ booking'[e].status = "none" <=> booking[e].status = "none"
            /\ booking'[e].kept => /\ booking[e].kept /\ booking'[e].slot = booking[e].slot
                                   /\ Stays(booking'[e].status)
      BY <2>1, <2>2, <2>3, <2>4, <2>5, RowWritten DEF KeptStays, Stays, Exists
    <2> QED
      BY <2>1, <2>6, <2>7, EndsOne, TakingAwayKeepsInv
  <1>2. ASSUME NEW t \in Tx, Abort(t) PROVE CalendarInv'
    <2>1. Becomes(t, Idle) /\ UNCHANGED <<booking, lesson, card, used, balance, unpaid>>
      BY <1>2 DEF Abort
    <2>2. CalendarTypeOK'
      BY <2>1, EndsOne DEF CalendarTypeOK
    <2> QED
      BY <2>1, <2>2, EndsOne, TakingAwayKeepsInv DEF KeptStays
  <1>3. ASSUME NEW e \in Entries, NEW status \in Statuses, SetStatus(e, status)
        PROVE  CalendarInv'
    <2> DEFINE row == [booking[e] EXCEPT !.status = status, !.kept = @ /\ Stays(status)]
    <2>1. Exists(e) /\ UNCHANGED <<lesson, card, used, balance, unpaid, tx>>
      BY <1>3 DEF SetStatus
    <2>2. /\ (booking[e].kept /\ Stays(status)) \in BOOLEAN
          /\ status \in BookingStatus \ {"none", "deleted"}
      BY CalendarAssumption DEF BookingStatus
    <2>3. row \in Booking
      BY <2>2, BookingFields DEF Booking
    <2>4. booking' = [booking EXCEPT ![e] = row]
      BY <1>3 DEF SetStatus, CalendarTypeOK
    <2>5. /\ row.by = booking[e].by /\ row.slot = booking[e].slot /\ row.status = status
          /\ row.kept => booking[e].kept /\ Stays(status)
      BY BookingFields DEF Booking
    <2> HIDE DEF row
    <2>6. CalendarTypeOK'
      BY <2>1, <2>3, <2>4, RowWritten DEF CalendarTypeOK
    <2>7. \A d \in Entries :
            /\ booking'[d].by = booking[d].by
            /\ booking'[d].status = "none" <=> booking[d].status = "none"
            /\ booking'[d].kept => /\ booking[d].kept /\ booking'[d].slot = booking[d].slot
                                   /\ Stays(booking'[d].status)
      BY <2>1, <2>2, <2>3, <2>4, <2>5, RowWritten DEF KeptStays, Exists
    <2> QED
      BY <2>1, <2>6, <2>7, TakingAwayKeepsInv
  <1>4. ASSUME NEW e \in Entries, DeleteBooking(e) PROVE CalendarInv'
    <2> DEFINE row == [booking[e] EXCEPT !.status = "deleted", !.slot = NoSlot, !.kept = FALSE]
    <2>1. Exists(e) /\ UNCHANGED <<lesson, card, used, balance, unpaid, tx>>
      BY <1>4 DEF DeleteBooking
    <2>2. /\ row \in Booking
          /\ row.by = booking[e].by /\ row.status = "deleted" /\ ~row.kept
      BY BookingFields DEF Booking, BookingStatus
    <2>3. booking' = [booking EXCEPT ![e] = row]
      BY <1>4 DEF DeleteBooking, CalendarTypeOK
    <2> HIDE DEF row
    <2>4. CalendarTypeOK'
      BY <2>1, <2>2, <2>3, RowWritten DEF CalendarTypeOK
    <2>5. \A d \in Entries :
            /\ booking'[d].by = booking[d].by
            /\ booking'[d].status = "none" <=> booking[d].status = "none"
            /\ booking'[d].kept => /\ booking[d].kept /\ booking'[d].slot = booking[d].slot
                                   /\ Stays(booking'[d].status)
      BY <2>1, <2>2, <2>3, RowWritten DEF KeptStays, Exists
    <2> QED
      BY <2>1, <2>4, <2>5, TakingAwayKeepsInv
  <1>5. ASSUME NEW t \in Tx, CommitRewrite(t) PROVE CalendarInv'
    BY <1>5, RewriteKeepsInv
  <1>6. ASSUME NEW e \in Entries, NEW s \in Slots, BulkChange(e, s) \/ ApplyScheduleChange(e, s)
        PROVE  CalendarInv'
    BY <1>6, ShiftKeepsInv
  <1>7. ASSUME NEW e \in Entries, NEW s \in Slots, MoveLesson(e, s) PROVE CalendarInv'
    BY <1>7, LessonRowKeepsInv DEF MoveLesson
  <1>8. ASSUME NEW e \in Entries, NEW status \in {"live", "cancelled"}, SetLessonStatus(e, status)
        PROVE  CalendarInv'
    BY <1>8, LessonRowKeepsInv DEF SetLessonStatus
  <1>9. ASSUME CloseCard PROVE CalendarInv'
    <2>1. card' = "closed" /\ UNCHANGED <<booking, lesson, used, balance, unpaid, tx>>
      BY <1>9 DEF CloseCard
    <2>2. CalendarTypeOK'
      BY <2>1 DEF CalendarTypeOK, CardStatus
    <2> QED
      BY <2>1, <2>2, TakingAwayKeepsInv DEF KeptStays
  <1> QED
    BY <1>1, <1>2, <1>3, <1>4, <1>5, <1>6, <1>7, <1>8, <1>9 DEF Loosens

-----------------------------------------------------------------------------
(* Begin and lock *)

LEMMA BeginKeepsInv ==
    ASSUME CalendarInv, NEW t \in Tx, NEW op \in Op, NEW e \in Entries,
           NEW s \in Slots \cup {NoSlot},
           NEW status \in {"unset"} \cup (BookingStatus \ {"none", "deleted"}), NEW free,
           Begin(t, op, e, s, status, free), free = FALSE,
           op = "approve" => status = "confirmed",
           Makes(op) => New(e) /\ s \in Slots,
           ~Makes(op) => Exists(e)
    PROVE  CalendarInv'
  <1> USE DEF CalendarInv, RowsInv, LocksInv
  <1> DEFINE n == [stage |-> IF Locks(op) = "none" THEN "locked" ELSE "begun",
                   op |-> op, e |-> e, slot |-> s,
                   status |-> IF booking[e].status = status THEN "unset" ELSE status,
                   count |-> 0, free |-> free]
  <1>1. /\ tx[t] = Idle /\ tx' = [tx EXCEPT ![t] = n]
        /\ UNCHANGED <<booking, lesson, card, used, balance, unpaid>>
    BY DEF Begin, Becomes
  <1>2. /\ n \in Transaction /\ n.op = op /\ n.e = e /\ n.slot = s
        /\ n.stage = "locked" => Locks(op) = "none"
        /\ n.free = FALSE /\ n.status \in {"unset", status}
    BY DEF Transaction
  <1> HIDE DEF n
  <1>3. /\ tx' \in [Tx -> Transaction \cup {Idle}]
        /\ tx'[t] = n
        /\ \A u \in Tx : u # t => tx'[u] = tx[u]
    BY <1>1, <1>2 DEF CalendarTypeOK
  <1>4. CalendarTypeOK'
    BY <1>1, <1>3 DEF CalendarTypeOK
  <1>5. /\ Locked(t)' => Locks(op) = "none"
        /\ \A u \in Tx : u # t => (Locked(u)' <=> Locked(u))
    BY <1>2, <1>3 DEF Locked
  <1>6. Exclusive'
    BY <1>2, <1>3, <1>5 DEF Exclusive
  <1>7. \A u \in Tx : u # t /\ tx[u] # Idle /\ tx[u].e = e => ~Makes(op) /\ ~Makes(tx[u].op)
    BY DEF New, Exists, OwnEntry
  <1>8. OwnEntry'
    <2> SUFFICES ASSUME NEW v \in Tx, tx'[v] # Idle, Makes(tx'[v].op)
                 PROVE  /\ booking'[tx'[v].e].status = "none"
                        /\ tx'[v].slot \in Slots
                        /\ \A u \in Tx : tx'[u] # Idle /\ tx'[u].e = tx'[v].e => u = v
      BY DEF OwnEntry, Makes
    <2>1. CASE v = t
      BY <1>1, <1>2, <1>3, <1>7, <2>1 DEF New
    <2>2. CASE v # t
      <3>1. tx'[v] = tx[v] /\ tx[v].e # e
        BY <1>3, <1>7, <2>2
      <3> QED
        BY <1>1, <1>2, <1>3, <3>1 DEF OwnEntry
    <2> QED
      BY <2>1, <2>2
  <1>9. UnmadeIsNobodys' /\ KeptStays' /\ KeptIsLive'
    BY <1>1 DEF UnmadeIsNobodys, KeptStays, KeptIsLive
  <1>10. BookedSlotFree'
    BY <1>1, <1>2, <1>3, <1>5, LockOfOp DEF BookedSlotFree, Booked
  <1>11. SeriesSlotFree'
    BY <1>1, <1>2, <1>3, <1>5, LockOfMaker DEF SeriesSlotFree, InSeries
  <1>12. CountRead' /\ Asked'
    BY <1>1, <1>2, <1>3, <1>5, LockOfMover DEF CountRead, Asked
  <1>13. FirstComeFirstServed' /\ SeriesDisjoint' /\ MovesArePaid'
    BY <1>1 DEF FirstComeFirstServed, SeriesDisjoint, MovesArePaid
  <1> QED
    BY <1>4, <1>6, <1>8, <1>9, <1>10, <1>11, <1>12, <1>13

Begins(t) ==
    \E e \in Entries :
        \/ \E s \in Slots :
             \/ CreateBooking(t, e, s) \/ ConfirmCard(t, e, s)
             \/ CreateStandaloneRegularLessons(t, e, s) \/ CreateLesson(t, e, s)
             \/ ChangeBooking(t, e, s)
             \/ \E who \in {"student", "teacher"}, status \in Statuses \cup {"unset"} :
                  UpdateBooking(t, e, s, who, status)
        \/ ApproveBooking(t, e)

LEMMA BeginsKeepsInv ==
    ASSUME CalendarInv, NEW t \in Tx, Begins(t)
    PROVE  CalendarInv'
  <1>1. ASSUME NEW e \in Entries, NEW s \in Slots, NEW op \in Op, Makes(op),
               New(e), Begin(t, op, e, s, "unset", FALSE)
        PROVE  CalendarInv'
    BY <1>1, BeginKeepsInv DEF Makes
  <1>2. ASSUME NEW e \in Entries, NEW s \in Slots \cup {NoSlot}, NEW op \in Op, ~Makes(op),
               NEW status \in BookingStatus \ {"none", "deleted"}, NEW free, free = FALSE,
               op = "approve" => status = "confirmed",
               Exists(e), Begin(t, op, e, s, status, free)
        PROVE  CalendarInv'
    BY <1>2, BeginKeepsInv
  <1>3. /\ {"book", "confirmCard", "register", "lesson", "approve", "move", "rewrite"} \subseteq Op
        /\ Makes("book") /\ Makes("confirmCard") /\ Makes("register") /\ Makes("lesson")
        /\ ~Makes("approve") /\ ~Makes("move") /\ ~Makes("rewrite")
    BY DEF Op, Makes
  <1>4. PICK e \in Entries :
           \/ \E s \in Slots :
                \/ CreateBooking(t, e, s) \/ ConfirmCard(t, e, s)
                \/ CreateStandaloneRegularLessons(t, e, s) \/ CreateLesson(t, e, s)
                \/ ChangeBooking(t, e, s)
                \/ \E who \in {"student", "teacher"}, status \in Statuses \cup {"unset"} :
                     UpdateBooking(t, e, s, who, status)
           \/ ApproveBooking(t, e)
    BY DEF Begins
  <1>5. ASSUME NEW s \in Slots,
               \/ CreateBooking(t, e, s) \/ ConfirmCard(t, e, s)
               \/ CreateStandaloneRegularLessons(t, e, s) \/ CreateLesson(t, e, s)
        PROVE  CalendarInv'
    BY <1>1, <1>3, <1>5
       DEF CreateBooking, ConfirmCard, CreateStandaloneRegularLessons, CreateLesson
  <1>6. {"changeRequested", "confirmed"} \cup Statuses \subseteq BookingStatus \ {"none", "deleted"}
    BY CalendarAssumption DEF BookingStatus
  <1>7. ASSUME NEW s \in Slots, ChangeBooking(t, e, s) PROVE CalendarInv'
    BY <1>2, <1>3, <1>6, <1>7 DEF ChangeBooking
  <1>8. ASSUME NEW s \in Slots, NEW who \in {"student", "teacher"},
               NEW status \in Statuses \cup {"unset"}, UpdateBooking(t, e, s, who, status)
        PROVE  CalendarInv'
    <2>1. Exists(e)
      BY <1>8 DEF UpdateBooking
    <2>2. CASE ChangeIntent(e, status)
      <3>1. Begin(t, "move", e, s, "changeRequested", FALSE)
        BY <1>8, <2>2 DEF UpdateBooking
      <3> QED
        BY <1>2, <1>3, <1>6, <2>1, <3>1
    <2>3. CASE ~ChangeIntent(e, status)
      <3>1. status \notin {"unset", booking[e].status} /\ who = "teacher"
        BY <1>8, <2>3 DEF UpdateBooking, ChangeIntent
      <3>2. Begin(t, "rewrite", e, s, status, who = "student") /\ (who = "student") = FALSE
        BY <1>8, <2>3, <3>1 DEF UpdateBooking
      <3> QED
        BY <1>2, <1>3, <1>6, <2>1, <3>1, <3>2
    <2> QED
      BY <2>2, <2>3
  <1>9. ASSUME ApproveBooking(t, e) PROVE CalendarInv'
    BY <1>2, <1>3, <1>6, <1>9 DEF ApproveBooking
  <1> QED
    BY <1>4, <1>5, <1>7, <1>8, <1>9

(* The judgement under the lock is what has to last until the commit.      *)
LEMMA LockKeepsInv ==
    ASSUME CalendarInv, NEW t \in Tx, Lock(t)
    PROVE  CalendarInv'
  <1> USE DEF CalendarInv, RowsInv, LocksInv
  <1> DEFINE q == tx[t]
             n == [q EXCEPT !.stage = "locked",
                            !.count = IF Locks(q.op) = "subscription" THEN used ELSE 0]
  <1>1. /\ q.stage = "begun" /\ q # Idle /\ tx' = [tx EXCEPT ![t] = n]
        /\ UNCHANGED <<booking, lesson, card, used, balance, unpaid>>
    BY IdleIsIdle DEF Lock, Becomes
  <1>2. q \in Transaction /\ q.op \in Op /\ q.slot \in Slots \cup {NoSlot} /\ used \in Nat
    BY <1>1, TransactionFields, CalendarAssumption DEF CalendarTypeOK
  <1>3. /\ n \in Transaction /\ n.stage = "locked" /\ n # Idle
        /\ n.op = q.op /\ n.e = q.e /\ n.slot = q.slot /\ n.free = q.free /\ n.status = q.status
        /\ q.op = "move" => n.count = used
    BY <1>2, IdleIsIdle, LockOfMover DEF Transaction
  <1> HIDE DEF n
  <1>4. /\ tx' \in [Tx -> Transaction \cup {Idle}]
        /\ tx'[t] = n
        /\ \A u \in Tx : u # t => tx'[u] = tx[u]
    BY <1>1, <1>3 DEF CalendarTypeOK
  <1>5. CalendarTypeOK'
    BY <1>1, <1>4 DEF CalendarTypeOK
  <1>6. \A u \in Tx : u # t => (Locked(u)' <=> Locked(u))
    BY <1>4 DEF Locked
  <1>7. Exclusive'
    <2>1. \A u \in Tx \ {t} :
             Locked(u) => Locks(tx[u].op) # Locks(q.op) \/ Locks(q.op) = "none"
      BY DEF Lock, LockFree, Locked
    <2> QED
      BY <1>3, <1>4, <1>6, <2>1 DEF Exclusive
  <1>8. OwnEntry'
    <2>1. \A u \in Tx : /\ tx'[u] # Idle <=> tx[u] # Idle
                        /\ tx[u] # Idle => /\ tx'[u].op = tx[u].op /\ tx'[u].e = tx[u].e
                                           /\ tx'[u].slot = tx[u].slot
      BY <1>1, <1>3, <1>4
    <2> QED
      BY <1>1, <2>1 DEF OwnEntry, Makes
  <1>9. UnmadeIsNobodys' /\ KeptStays' /\ KeptIsLive'
    BY <1>1 DEF UnmadeIsNobodys, KeptStays, KeptIsLive
  <1>10. Passes(q)
    BY DEF Lock
  <1>11. BookedSlotFree'
    <2>1. ASSUME NEW e \in Entries, q.op = "book" PROVE ~Booked(e, q.slot)
      <3>1. ~Overlaps(q.slot)
        BY <1>10, <2>1 DEF Passes
      <3> QED
        BY <3>1 DEF Overlaps, Booked, KeptStays, Stays
    <2> QED
      BY <1>1, <1>3, <1>4, <1>6, <2>1 DEF BookedSlotFree, Booked
  <1>12. SeriesSlotFree'
    <2>1. ASSUME NEW e \in Entries, q.op \in {"confirmCard", "register"}
          PROVE  InSeries(e) => lesson[e].slot # q.slot
      <3>1. ~Conflicts(q.slot, q.e)
        BY <1>10, <2>1 DEF Passes
      <3> QED
        BY <3>1 DEF Conflicts, InSeries, KeptIsLive
    <2> QED
      BY <1>1, <1>3, <1>4, <1>6, <2>1 DEF SeriesSlotFree, InSeries
  <1>13. CountRead' /\ Asked'
    <2>1. q.op = "move" => used < Credits
      BY <1>10 DEF Passes
    <2> QED
      BY <1>1, <1>3, <1>4, <1>6, <2>1 DEF CountRead, Asked
  <1>14. FirstComeFirstServed' /\ SeriesDisjoint' /\ MovesArePaid'
    BY <1>1 DEF FirstComeFirstServed, SeriesDisjoint, MovesArePaid
  <1> QED
    BY <1>5, <1>7, <1>8, <1>9, <1>11, <1>12, <1>13, <1>14

-----------------------------------------------------------------------------
(* Commits *)

(* What every commit leaves to the other requests: their entries, and the  *)
(* locks they hold.                                                        *)
LEMMA CommitLeavesOthers ==
    ASSUME RowsInv, Exclusive, Asked, NEW t \in Tx, Locked(t), Becomes(t, Idle),
           Makes(tx[t].op) \/ Exists(tx[t].e),
           \A e \in Entries : e # tx[t].e => booking'[e] = booking[e]
    PROVE  /\ tx[t] \in Transaction /\ tx[t].e \in Entries
           /\ tx' \in [Tx -> Transaction \cup {Idle}]
           /\ OwnEntry'
           /\ Exclusive' /\ Asked'
           /\ \A u \in Tx : Locked(u)' =>
                 /\ u # t /\ Locked(u) /\ tx'[u] = tx[u]
                 /\ Locks(tx[u].op) = Locks(tx[t].op) => Locks(tx[t].op) = "none"
  <1> USE DEF RowsInv
  <1>1. tx[t] # Idle
    BY LockedIsUnderWay
  <1>2. tx[t] \in Transaction /\ tx[t].e \in Entries
    BY <1>1, TransactionFields
  <1>3. /\ tx' \in [Tx -> Transaction \cup {Idle}]
        /\ tx'[t] = Idle
        /\ \A u \in Tx : u # t => tx'[u] = tx[u]
    BY EndsOne
  <1>4. \A u \in Tx : Locked(u)' => u # t /\ Locked(u) /\ tx'[u] = tx[u]
    BY <1>3, IdleIsIdle DEF Locked
  <1>5. Exclusive' /\ Asked'
    BY <1>3, <1>4 DEF Exclusive, Asked
  <1>6. OwnEntry'
    <2> SUFFICES ASSUME NEW v \in Tx, tx'[v] # Idle, Makes(tx'[v].op)
                 PROVE  /\ booking'[tx'[v].e].status = "none"
                        /\ tx'[v].slot \in Slots
                        /\ \A u \in Tx : tx'[u] # Idle /\ tx'[u].e = tx'[v].e => u = v
      BY DEF OwnEntry, Makes
    <2>1. v # t /\ tx'[v] = tx[v] /\ tx[v].e \in Entries
      BY <1>3, TransactionFields
    <2>2. tx[v].e # tx[t].e
      BY <1>1, <2>1 DEF OwnEntry, Exists
    <2>3. booking'[tx[v].e].status = "none"
      BY <2>1, <2>2 DEF OwnEntry
    <2> QED
      BY <1>3, <2>1, <2>3 DEF OwnEntry
  <1> QED
    BY <1>2, <1>3, <1>4, <1>5, <1>6 DEF Exclusive

LEMMA BookingCommitKeepsInv ==
    ASSUME CalendarInv, NEW t \in Tx, CommitBooking(t)
    PROVE  CalendarInv'
  <1> USE DEF CalendarInv, RowsInv, LocksInv
  <1> DEFINE q == tx[t]
  <1>1. PICK status \in {"pending", "confirmed"} :
           booking' = [booking EXCEPT ![q.e] = [status |-> status, slot |-> q.slot,
                                                kept |-> TRUE, by |-> "student"]]
    BY DEF CommitBooking
  <1>2. /\ Locked(t) /\ q.op = "book" /\ Becomes(t, Idle)
        /\ UNCHANGED <<lesson, card, used, balance, unpaid>>
    BY DEF CommitBooking, Commits, Locked
  <1> DEFINE row == [status |-> status, slot |-> q.slot, kept |-> TRUE, by |-> "student"]
  <1>3. q.e \in Entries /\ q.slot \in Slots
    BY <1>2, LockedIsUnderWay, TransactionFields DEF OwnEntry, Makes
  <1>4. /\ row \in Booking /\ row.status \in {"pending", "confirmed"} /\ row.slot = q.slot
        /\ row.kept /\ row.by = "student"
    BY <1>3 DEF Booking, BookingStatus
  <1>5. booking' = [booking EXCEPT ![q.e] = row]
    BY <1>1
  <1> HIDE DEF row
  <1>6. /\ booking' \in [Entries -> Booking] /\ booking'[q.e] = row
        /\ \A e \in Entries : e # q.e => booking'[e] = booking[e]
    BY <1>3, <1>4, <1>5, RowWritten
  <1>7. /\ tx' \in [Tx -> Transaction \cup {Idle}] /\ OwnEntry' /\ Exclusive' /\ Asked'
        /\ \A u \in Tx : Locked(u)' =>
             /\ u # t /\ Locked(u) /\ tx'[u] = tx[u] /\ Locks(tx[u].op) # "teacher"
    BY <1>2, <1>6, LockOfOp, CommitLeavesOthers DEF Makes
  <1>8. CalendarTypeOK'
    BY <1>2, <1>6, <1>7 DEF CalendarTypeOK
  <1>9. UnmadeIsNobodys' /\ KeptStays' /\ KeptIsLive'
    BY <1>2, <1>4, <1>6 DEF UnmadeIsNobodys, KeptStays, KeptIsLive, Stays
  <1>10. BookedSlotFree'
    BY <1>7, LockOfOp DEF BookedSlotFree, Booked
  <1>11. \A e \in Entries : InSeries(e)' => InSeries(e)
    BY <1>2, <1>4, <1>6 DEF InSeries
  <1>12. SeriesSlotFree'
    BY <1>2, <1>7, <1>11 DEF SeriesSlotFree
  <1>13. CountRead'
    BY <1>2, <1>7 DEF CountRead
  <1>14. FirstComeFirstServed'
    <2>1. \A e \in Entries : ~Booked(e, q.slot)
      BY <1>2 DEF BookedSlotFree
    <2> QED
      BY <1>4, <1>6, <2>1 DEF FirstComeFirstServed, Booked
  <1>15. SeriesDisjoint' /\ MovesArePaid'
    BY <1>2, <1>4, <1>6, <1>11 DEF SeriesDisjoint, InSeries, MovesArePaid
  <1> QED
    BY <1>7, <1>8, <1>9, <1>10, <1>12, <1>13, <1>14, <1>15

LEMMA SeriesCommitKeepsInv ==
    ASSUME CalendarInv, NEW t \in Tx, CommitSeries(t)
    PROVE  CalendarInv'
  <1> USE DEF CalendarInv, RowsInv, LocksInv
  <1> DEFINE q == tx[t]
             row == [status |-> "confirmed", slot |-> q.slot, kept |-> FALSE, by |-> "series"]
             made == LessonAt(q.slot, TRUE)
  <1>1. /\ Locked(t) /\ q.op \in {"confirmCard", "register"} /\ Becomes(t, Idle)
        /\ booking' = [booking EXCEPT ![q.e] = row]
        /\ lesson' = [lesson EXCEPT ![q.e] = made]
        /\ card' = IF q.op = "confirmCard" THEN "confirmed" ELSE card
        /\ UNCHANGED <<used, balance, unpaid>>
    BY DEF CommitSeries, Commits, Locked
  <1>2. q.e \in Entries /\ q.slot \in Slots
    BY <1>1, LockedIsUnderWay, LockOfMaker, TransactionFields DEF OwnEntry
  <1>3. /\ row \in Booking /\ row.status = "confirmed" /\ ~row.kept /\ row.by = "series"
        /\ made \in Lesson /\ made.status = "live" /\ made.slot = q.slot /\ made.kept
    BY <1>2 DEF Booking, BookingStatus, Lesson, LessonAt
  <1> HIDE DEF row, made
  <1>4. /\ booking' \in [Entries -> Booking] /\ booking'[q.e] = row
        /\ \A e \in Entries : e # q.e => booking'[e] = booking[e]
    BY <1>1, <1>2, <1>3, RowWritten
  <1>5. /\ lesson' \in [Entries -> Lesson] /\ lesson'[q.e] = made
        /\ \A e \in Entries : e # q.e => lesson'[e] = lesson[e]
    BY <1>1, <1>2, <1>3, LessonWritten
  <1>6. /\ tx' \in [Tx -> Transaction \cup {Idle}] /\ OwnEntry' /\ Exclusive' /\ Asked'
        /\ \A u \in Tx : Locked(u)' =>
             /\ u # t /\ Locked(u) /\ tx'[u] = tx[u] /\ Locks(tx[u].op) # "advisory"
    BY <1>1, <1>4, LockOfMaker, CommitLeavesOthers
  <1>7. CalendarTypeOK'
    BY <1>1, <1>4, <1>5, <1>6 DEF CalendarTypeOK, CardStatus
  <1>8. UnmadeIsNobodys' /\ KeptStays' /\ KeptIsLive'
    BY <1>3, <1>4, <1>5 DEF UnmadeIsNobodys, KeptStays, KeptIsLive, Stays
  <1>9. \A e \in Entries, s \in Slots \cup {NoSlot} : Booked(e, s)' => Booked(e, s)
    BY <1>3, <1>4 DEF Booked
  <1>10. BookedSlotFree'
    <2>1. \A u \in Tx : Locked(u) => tx[u].slot \in Slots \cup {NoSlot}
      BY LockedIsUnderWay, TransactionFields
    <2> QED
      BY <1>6, <1>9, <2>1 DEF BookedSlotFree
  <1>11. SeriesSlotFree'
    BY <1>6, LockOfMaker DEF SeriesSlotFree
  <1>12. CountRead'
    BY <1>1, <1>6 DEF CountRead
  <1>13. FirstComeFirstServed'
    BY <1>3, <1>4 DEF FirstComeFirstServed
  <1>14. SeriesDisjoint'
    <2>1. \A e \in Entries : InSeries(e) => lesson[e].slot # q.slot
      BY <1>1 DEF SeriesSlotFree
    <2> QED
      BY <1>3, <1>4, <1>5, <2>1 DEF SeriesDisjoint, InSeries
  <1>15. MovesArePaid'
    BY <1>1 DEF MovesArePaid
  <1> QED
    BY <1>6, <1>7, <1>8, <1>10, <1>11, <1>12, <1>13, <1>14, <1>15

(* A single lesson has no booking, so it belongs to no series.             *)
LEMMA LessonCommitKeepsInv ==
    ASSUME CalendarInv, NEW t \in Tx, CommitLesson(t)
    PROVE  CalendarInv'
  <1> USE DEF CalendarInv, RowsInv, LocksInv
  <1> DEFINE q == tx[t]
             made == LessonAt(q.slot, FALSE)
  <1>1. /\ Locked(t) /\ q.op = "lesson" /\ Becomes(t, Idle)
        /\ lesson' = [lesson EXCEPT ![q.e] = made]
        /\ UNCHANGED <<booking, card, used, balance, unpaid>>
    BY DEF CommitLesson, Commits, Locked
  <1>2. /\ q.e \in Entries /\ q.slot \in Slots
        /\ booking[q.e].status = "none" /\ booking[q.e].by = "nobody"
    BY <1>1, LockedIsUnderWay, TransactionFields DEF OwnEntry, Makes, UnmadeIsNobodys
  <1>3. /\ lesson' \in [Entries -> Lesson] /\ ~lesson'[q.e].kept
        /\ \A e \in Entries : e # q.e => lesson'[e] = lesson[e]
    <2>1. made \in Lesson /\ ~made.kept
      BY <1>2 DEF Lesson, LessonAt
    <2> HIDE DEF made
    <2> QED
      BY <1>1, <1>2, <2>1, LessonWritten
  <1>4. /\ tx' \in [Tx -> Transaction \cup {Idle}] /\ OwnEntry' /\ Exclusive' /\ Asked'
        /\ \A u \in Tx : Locked(u)' => u # t /\ Locked(u) /\ tx'[u] = tx[u]
    BY <1>1, CommitLeavesOthers DEF Makes
  <1>5. CalendarTypeOK'
    BY <1>1, <1>3, <1>4 DEF CalendarTypeOK
  <1>6. UnmadeIsNobodys' /\ KeptStays' /\ KeptIsLive'
    BY <1>1, <1>3 DEF UnmadeIsNobodys, KeptStays, KeptIsLive
  <1>7. \A e \in Entries : InSeries(e)' => InSeries(e) /\ lesson'[e] = lesson[e]
    BY <1>1, <1>2, <1>3 DEF InSeries
  <1>8. BookedSlotFree' /\ CountRead'
    BY <1>1, <1>4 DEF BookedSlotFree, Booked, CountRead
  <1>9. SeriesSlotFree'
    BY <1>4, <1>7 DEF SeriesSlotFree
  <1>10. SeriesDisjoint'
    BY <1>7 DEF SeriesDisjoint, InSeries
  <1>11. FirstComeFirstServed' /\ MovesArePaid'
    BY <1>1 DEF FirstComeFirstServed, MovesArePaid
  <1> QED
    BY <1>4, <1>5, <1>6, <1>8, <1>9, <1>10, <1>11

LEMMA MoveCommitKeepsInv ==
    ASSUME CalendarInv, NEW t \in Tx, CommitMove(t)
    PROVE  CalendarInv'
  <1> USE DEF CalendarInv, RowsInv, LocksInv
  <1> DEFINE q == tx[t]
             row == Moved(booking[q.e], q.slot, q.status)
  <1>1. /\ Locked(t) /\ q.op = "move" /\ Becomes(t, Idle) /\ Exists(q.e)
        /\ used' = q.count + 1 /\ balance' = balance + 1
        /\ UNCHANGED <<lesson, card, unpaid>>
    BY DEF CommitMove, Commits, Locked
  <1>2. /\ q.e \in Entries /\ q.slot \in Slots \cup {NoSlot}
        /\ q.status \in {"unset"} \cup (BookingStatus \ {"none", "deleted"})
    BY <1>1, LockedIsUnderWay, TransactionFields
  <1>3. /\ row \in Booking /\ row.status # "none" /\ ~row.kept
        /\ row.by = booking[q.e].by
    BY <1>1, <1>2, MovedEntry, LockedIsUnderWay
  <1>4. booking' = [booking EXCEPT ![q.e] = row]
    BY <1>2 DEF CommitMove, CalendarTypeOK
  <1> HIDE DEF row
  <1>5. /\ booking' \in [Entries -> Booking] /\ booking'[q.e] = row
        /\ \A e \in Entries : e # q.e => booking'[e] = booking[e]
    BY <1>2, <1>3, <1>4, RowWritten
  <1>6. /\ tx' \in [Tx -> Transaction \cup {Idle}] /\ OwnEntry' /\ Exclusive' /\ Asked'
        /\ \A u \in Tx : Locked(u)' =>
             /\ u # t /\ Locked(u) /\ tx'[u] = tx[u] /\ Locks(tx[u].op) # "subscription"
    BY <1>1, <1>5, LockOfMover, CommitLeavesOthers
  <1>7. q.count = used /\ used < Credits
    BY <1>1 DEF CountRead
  <1>8. CalendarTypeOK'
    <2>1. used' \in 0..Credits /\ balance' \in Int
      BY <1>1, <1>7, CalendarAssumption DEF CalendarTypeOK
    <2> QED
      BY <1>1, <1>5, <1>6, <2>1 DEF CalendarTypeOK
  <1>15. UnmadeIsNobodys' /\ KeptStays' /\ KeptIsLive'
    BY <1>1, <1>3, <1>5 DEF UnmadeIsNobodys, KeptStays, KeptIsLive
  <1>9. \A e \in Entries :
           /\ booking'[e].by = booking[e].by
           /\ booking'[e].kept => booking'[e] = booking[e]
    BY <1>3, <1>5
  <1>10. BookedSlotFree'
    BY <1>6, <1>9 DEF BookedSlotFree, Booked
  <1>11. SeriesSlotFree'
    BY <1>1, <1>6, <1>9 DEF SeriesSlotFree, InSeries
  <1>12. CountRead'
    BY <1>6, LockOfMover DEF CountRead
  <1>13. FirstComeFirstServed' /\ SeriesDisjoint'
    BY <1>1, <1>9 DEF FirstComeFirstServed, SeriesDisjoint
  <1>14. MovesArePaid'
    BY <1>1, <1>7 DEF MovesArePaid
  <1> QED
    BY <1>6, <1>8, <1>10, <1>11, <1>12, <1>13, <1>14, <1>15

(* The other writers of the count find no move that has read it.           *)
LEMMA CountKeepsInv ==
    ASSUME CalendarInv,
           \/ UseReschedule \/ RestoreCredit
           \/ \E count \in 0..Credits : UpdateSubscription(count)
    PROVE  CalendarInv'
  <1> USE DEF CalendarInv, RowsInv, LocksInv
  <1>1. /\ SubscriptionFree /\ used' \in 0..Credits /\ balance' \in Int
        /\ used' = balance'
        /\ UNCHANGED <<booking, lesson, card, unpaid, tx>>
    BY CalendarAssumption
       DEF UseReschedule, RestoreCredit, UpdateSubscription, MovesArePaid, CalendarTypeOK
  <1>2. CalendarTypeOK'
    BY <1>1 DEF CalendarTypeOK
  <1>3. \A t \in Tx : Locked(t) => tx[t].op # "move"
    BY <1>1, LockOfMover DEF SubscriptionFree, Locked
  <1>4. OwnEntry' /\ UnmadeIsNobodys' /\ KeptStays' /\ KeptIsLive' /\ Asked'
    BY <1>1 DEF OwnEntry, UnmadeIsNobodys, KeptStays, KeptIsLive, Asked
  <1>5. Exclusive' /\ BookedSlotFree' /\ SeriesSlotFree' /\ CountRead'
    BY <1>1, <1>3
       DEF Exclusive, Locked, BookedSlotFree, Booked, SeriesSlotFree, InSeries, CountRead
  <1>6. FirstComeFirstServed' /\ SeriesDisjoint' /\ MovesArePaid'
    BY <1>1 DEF FirstComeFirstServed, SeriesDisjoint, MovesArePaid
  <1> QED
    BY <1>2, <1>4, <1>5, <1>6

-----------------------------------------------------------------------------
(* The invariant *)

LEMMA InitCalendarInv == Init => CalendarInv
  <1> SUFFICES ASSUME Init PROVE CalendarInv
    OBVIOUS
  <1> USE DEF Init
  <1>1. Unmade \in Booking /\ Unmade.status = "none" /\ Unmade.by = "nobody" /\ ~Unmade.kept
    BY DEF Unmade, Booking, BookingStatus
  <1>2. NoLesson \in Lesson /\ ~NoLesson.kept
    BY DEF NoLesson, Lesson
  <1>9. CalendarTypeOK
    <2>1. used \in 0..Credits /\ balance \in Int /\ card \in CardStatus
      BY CalendarAssumption DEF CardStatus
    <2>2. unpaid \in BOOLEAN
      OBVIOUS
    <2>3. /\ booking \in [Entries -> Booking] /\ lesson \in [Entries -> Lesson]
          /\ tx \in [Tx -> Transaction \cup {Idle}]
      BY <1>1, <1>2
    <2> QED
      BY <2>1, <2>2, <2>3 DEF CalendarTypeOK
  <1>3. \A t \in Tx : tx[t] = Idle /\ ~Locked(t)
    BY IdleIsIdle DEF Locked
  <1>4. \A e \in Entries : booking[e] = Unmade /\ lesson[e] = NoLesson
    OBVIOUS
  <1>5. RowsInv
    BY <1>1, <1>2, <1>3, <1>4, <1>9 DEF RowsInv, OwnEntry, UnmadeIsNobodys, KeptStays, KeptIsLive
  <1>6. LocksInv
    BY <1>3 DEF LocksInv, Exclusive, BookedSlotFree, SeriesSlotFree, CountRead, Asked
  <1>7. FirstComeFirstServed /\ SeriesDisjoint
    BY <1>1, <1>4 DEF FirstComeFirstServed, SeriesDisjoint
  <1>8. MovesArePaid
    BY DEF MovesArePaid
  <1> QED
    BY <1>5, <1>6, <1>7, <1>8 DEF CalendarInv

LEMMA CalendarInvStep == CalendarInv /\ [Next]_vars => CalendarInv'
  <1> SUFFICES ASSUME CalendarInv, [Next]_vars PROVE CalendarInv'
    OBVIOUS
  <1>1. CASE UNCHANGED vars
    BY <1>1, TakingAwayKeepsInv DEF vars, CalendarInv, RowsInv, CalendarTypeOK, KeptStays
  <1>2. ASSUME NEW t \in Tx, Begins(t) PROVE CalendarInv'
    BY <1>2, BeginsKeepsInv
  <1>3. ASSUME NEW t \in Tx,
               Lock(t) \/ CommitBooking(t) \/ CommitSeries(t) \/ CommitLesson(t) \/ CommitMove(t)
        PROVE  CalendarInv'
    BY <1>3, LockKeepsInv, BookingCommitKeepsInv, SeriesCommitKeepsInv, LessonCommitKeepsInv,
       MoveCommitKeepsInv
  <1>4. CASE Loosens
    BY <1>4, LoosensKeepsInv
  <1>5. CASE UseReschedule \/ RestoreCredit \/ \E count \in 0..Credits : UpdateSubscription(count)
    BY <1>5, CountKeepsInv
  <1> QED
    BY <1>1, <1>2, <1>3, <1>4, <1>5 DEF Next, Begins, Loosens

-----------------------------------------------------------------------------

(* Statuses, slots and origins stay in range, and the count of used        *)
(* changes never falls below zero or rises above the allowance.            *)
THEOREM CalendarTypeCorrect == Spec => []CalendarTypeOK
  <1>1. CalendarInv => CalendarTypeOK
    BY DEF CalendarInv, RowsInv
  <1> QED
    BY <1>1, InitCalendarInv, CalendarInvStep, PTL DEF Spec

(* Of two students who book one slot the second finds the first, however   *)
(* many book at once: the lock of the teacher's row covers check and row.  *)
THEOREM FirstComeFirstServedCorrect == Spec => []FirstComeFirstServed
  <1>1. CalendarInv => FirstComeFirstServed
    BY DEF CalendarInv
  <1> QED
    BY <1>1, InitCalendarInv, CalendarInvStep, PTL DEF Spec

(* No two weekly series, from cards or registrations, hold the same slot   *)
(* with a lesson that nobody has moved or revived.                         *)
THEOREM SeriesDisjointCorrect == Spec => []SeriesDisjoint
  <1>1. CalendarInv => SeriesDisjoint
    BY DEF CalendarInv
  <1> QED
    BY <1>1, InitCalendarInv, CalendarInvStep, PTL DEF Spec

(* A move that asks for a change is counted once, however many writers of  *)
(* the count come together, and a student's PUT always asks for one.       *)
THEOREM MovesArePaidCorrect == Spec => []MovesArePaid
  <1>1. CalendarInv => MovesArePaid
    BY DEF CalendarInv
  <1> QED
    BY <1>1, InitCalendarInv, CalendarInvStep, PTL DEF Spec

=============================================================================
