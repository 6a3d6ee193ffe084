------------------------- MODULE GroupClasses_proofs -------------------------
(***************************************************************************)
(* That a booking is charged once and that requests in turn keep to the    *)
(* seats, for any number of students and requests, any capacity and any    *)
(* number of sessions left.                                                *)
(*                                                                         *)
(* Deduction and no-show policy write the booking's row before they look   *)
(* at its marker, so whoever holds the row knows the marker and the number *)
(* of records as they are.  A repeated no-show does not write the row and  *)
(* knows less, but what it has read, that the student did not come, has a  *)
(* record already, and so it records and charges nothing.                  *)
(***************************************************************************)
EXTENDS GroupClasses, FiniteSetTheorems, TLAPS

HoldsRow(t) == tx[t].stage = "locked" /\ LocksRow(tx[t])

Exclusive ==
    \A t, u \in Tx : HoldsRow(t) /\ HoldsRow(u) /\ tx[t].s = tx[u].s => t = u

Fresh ==
    \A t \in Tx : HoldsRow(t) =>
        /\ tx[t].deducted = booking[tx[t].s].deducted
        /\ tx[t].op = "noShow" => tx[t].records = records[tx[t].s]

(* Who did not come has a record, and whoever has read so knows it.        *)
Recorded ==
    /\ \A s \in Students : booking[s].status = "noShow" => records[s] > 0
    /\ \A t \in Tx : tx[t] # Idle /\ tx[t].op = "noShow" /\ tx[t].was = "noShow" =>
          /\ records[tx[t].s] > 0
          /\ tx[t].stage = "locked" => tx[t].records > 0

ChargeInv ==
    /\ ClassesTypeOK
    /\ Exclusive
    /\ Fresh
    /\ Recorded
    /\ BookingChargedOnce
    /\ MarkerTellsCharge

-----------------------------------------------------------------------------
(* Types *)

LEMMA IdleIsIdle == Idle.stage = "idle"
  BY DEF Idle

LEMMA TransactionFields ==
    ASSUME ClassesTypeOK, NEW t \in Tx, tx[t] # Idle
    PROVE  /\ tx[t] \in Transaction
           /\ tx[t].stage \in {"begun", "locked"}
           /\ tx[t].op \in Op
           /\ tx[t].s \in Students
           /\ tx[t].was \in BookingStatus
           /\ tx[t].seats \in Nat
           /\ tx[t].waiting \in Nat
           /\ tx[t].first \in Students \cup {Nobody}
           /\ tx[t].deducted \in BOOLEAN
           /\ tx[t].records \in Nat
           /\ tx[t].used \in Nat
  <1>1. tx[t] \in Transaction
    BY DEF ClassesTypeOK
  <1> QED
    BY <1>1 DEF Transaction

LEMMA BookingFields ==
    ASSUME ClassesTypeOK, NEW s \in Students
    PROVE  /\ booking[s] \in Booking
           /\ booking[s].status \in BookingStatus
           /\ booking[s].place \in Nat
           /\ booking[s].deducted \in BOOLEAN
  <1>1. booking[s] \in Booking
    BY DEF ClassesTypeOK
  <1> QED
    BY <1>1 DEF Booking

LEMMA LessIsNat == \A n \in Nat : Less(n) \in Nat
  BY DEF Less

-----------------------------------------------------------------------------
(* Steps that charge nothing *)

Quiet ==
    /\ UNCHANGED <<records, charged>>
    /\ \A s \in Students :
          /\ booking'[s].deducted = booking[s].deducted
          /\ booking'[s].status = "noShow" => booking[s].status = "noShow"

LEMMA QuietKeepsChargeInv ==
    ASSUME ChargeInv, ClassesTypeOK', Quiet,
           \A u \in Tx : tx'[u] = tx[u] \/ tx'[u] = Idle
    PROVE  ChargeInv'
  <1>1. \A u \in Tx : tx'[u] # Idle => tx'[u] = tx[u] /\ tx[u] # Idle /\ tx[u].s \in Students
    BY TransactionFields DEF ChargeInv
  <1>2. \A u \in Tx : HoldsRow(u)' => HoldsRow(u) /\ tx'[u] = tx[u] /\ tx'[u] # Idle
    BY <1>1, IdleIsIdle DEF HoldsRow
  <1>3. Exclusive'
    BY <1>2 DEF ChargeInv, Exclusive
  <1>4. Fresh'
    BY <1>1, <1>2 DEF ChargeInv, Fresh, Quiet
  <1>5. Recorded'
    BY <1>1 DEF ChargeInv, Recorded, Quiet
  <1>6. BookingChargedOnce' /\ MarkerTellsCharge'
    BY DEF ChargeInv, BookingChargedOnce, MarkerTellsCharge, Quiet
  <1> QED
    BY <1>3, <1>4, <1>5, <1>6 DEF ChargeInv

Begins(t) ==
    \E s \in Students :
        \/ CreateGroupBooking(t, s) \/ CancelGroupBooking(t, s)
        \/ PromoteFromWaitlistPublic(t, s) \/ MarkNoShow(t, s) \/ DeductSubscription(t, s)

LEMMA BeginKeepsChargeInv ==
    ASSUME ChargeInv, NEW t \in Tx, Begins(t)
    PROVE  ChargeInv'
  <1>1. PICK s \in Students, op \in Op : Begin(t, op, s)
    BY DEF Begins, CreateGroupBooking, CancelGroupBooking, PromoteFromWaitlistPublic,
       MarkNoShow, DeductSubscription, Op
  <1> DEFINE q == Read(op, s)
  <1>2. /\ tx' = [tx EXCEPT ![t] = q]
        /\ UNCHANGED <<booking, seats, waiting, records, charged, used, handed>>
        /\ raced' \in BOOLEAN
    BY <1>1 DEF Begin, Becomes
  <1>3. /\ q \in Transaction
        /\ q.stage = "begun" /\ q.op = op /\ q.s = s
        /\ op = "noShow" => q.was = booking[s].status
    BY BookingFields DEF ChargeInv, ClassesTypeOK, Read, Transaction, BookingStatus
  <1> HIDE DEF q
  <1>4. ClassesTypeOK'
    BY <1>2, <1>3 DEF ChargeInv, ClassesTypeOK
  <1>5. tx'[t] = q /\ \A u \in Tx : u # t => tx'[u] = tx[u]
    BY <1>2 DEF ChargeInv, ClassesTypeOK
  <1>6. \A u \in Tx : HoldsRow(u)' => u # t /\ HoldsRow(u) /\ tx'[u] = tx[u]
    BY <1>3, <1>5 DEF HoldsRow
  <1>7. Exclusive'
    BY <1>6 DEF ChargeInv, Exclusive
  <1>8. Fresh'
    BY <1>2, <1>6 DEF ChargeInv, Fresh
  <1>9. Recorded'
    BY <1>2, <1>3, <1>5 DEF ChargeInv, Recorded
  <1>10. BookingChargedOnce' /\ MarkerTellsCharge'
    BY <1>2 DEF ChargeInv, BookingChargedOnce, MarkerTellsCharge
  <1> QED
    BY <1>4, <1>7, <1>8, <1>9, <1>10 DEF ChargeInv

LEMMA LockKeepsChargeInv ==
    ASSUME ChargeInv, NEW t \in Tx, Lock(t)
    PROVE  ChargeInv'
  <1>1. PICK first \in Students \cup {Nobody} : Becomes(t, Rereads(tx[t], first))
    BY DEF Lock
  <1> DEFINE q == tx[t]
             n == Rereads(q, first)
  <1>2. /\ q.stage = "begun" /\ q # Idle
        /\ LocksRow(q) => RowFree(t, q.s)
        /\ UNCHANGED <<booking, seats, waiting, records, charged, used, raced, handed>>
    BY IdleIsIdle DEF Lock, GetsRow
  <1>3. /\ q \in Transaction /\ q.s \in Students
        /\ booking[q.s].deducted \in BOOLEAN
        /\ records[q.s] \in Nat /\ used[q.s] \in Nat
    BY <1>2, TransactionFields, BookingFields DEF ChargeInv, ClassesTypeOK
  <1>4. /\ n \in Transaction
        /\ n.stage = "locked" /\ n.op = q.op /\ n.s = q.s /\ n.was = q.was
        /\ n.deducted = booking[q.s].deducted
        /\ q.op = "noShow" => n.records = records[q.s]
    BY <1>3 DEF Rereads, Transaction
  <1>5. tx' = [tx EXCEPT ![t] = n]
    BY <1>1 DEF Becomes
  <1> HIDE DEF n
  <1>6. ClassesTypeOK'
    BY <1>2, <1>4, <1>5 DEF ChargeInv, ClassesTypeOK
  <1>7. tx'[t] = n /\ \A u \in Tx : u # t => tx'[u] = tx[u]
    BY <1>5 DEF ChargeInv, ClassesTypeOK
  <1>8. LocksRow(n) => LocksRow(q)
    BY <1>4 DEF LocksRow
  <1>9. \A u \in Tx : u # t /\ HoldsRow(u)' /\ HoldsRow(t)' => tx'[u].s # tx'[t].s
    BY <1>2, <1>4, <1>7, <1>8 DEF HoldsRow, RowFree, RowLocked
  <1>10. \A u \in Tx : u # t /\ HoldsRow(u)' => HoldsRow(u) /\ tx'[u] = tx[u]
    BY <1>7 DEF HoldsRow
  <1>11. Exclusive'
    BY <1>9, <1>10 DEF ChargeInv, Exclusive
  <1>12. Fresh'
    BY <1>2, <1>4, <1>7, <1>10 DEF ChargeInv, Fresh
  <1>13. Recorded'
    BY <1>2, <1>4, <1>7 DEF ChargeInv, Recorded
  <1>14. BookingChargedOnce' /\ MarkerTellsCharge'
    BY <1>2 DEF ChargeInv, BookingChargedOnce, MarkerTellsCharge
  <1> QED
    BY <1>6, <1>11, <1>12, <1>13, <1>14 DEF ChargeInv

(* The end of a transaction.                                               *)
LEMMA CommitsEnds ==
    ASSUME ClassesTypeOK, NEW t \in Tx, NEW op, NEW stage \in {"begun", "locked"},
           Commits(t, op, stage)
    PROVE  /\ tx[t] # Idle /\ tx[t].stage = stage /\ tx[t].op = op
           /\ tx' \in [Tx -> Transaction \cup {Idle}]
           /\ tx'[t] = Idle
           /\ \A u \in Tx : u # t => tx'[u] = tx[u]
           /\ raced' \in BOOLEAN
  BY IdleIsIdle DEF Commits, Becomes, ClassesTypeOK

LEMMA SeatsAfterCancelIsNat ==
    ASSUME ClassesTypeOK, NEW q \in Transaction
    PROVE  SeatsAfterCancel(q) \in Nat
  BY LessIsNat DEF SeatsAfterCancel, Transaction, ClassesTypeOK

LEMMA BookingCommitQuiet ==
    ASSUME ClassesTypeOK, NEW t \in Tx, CommitBooking(t)
    PROVE  ClassesTypeOK' /\ Quiet
  <1> DEFINE q == tx[t]
             seated == Seated(q)
             status == IF seated THEN "confirmed" ELSE "waitlist"
             place == IF seated THEN 0 ELSE q.waiting + 1
             row == [booking[q.s] EXCEPT !.status = status, !.place = place]
  <1>1. /\ Commits(t, "book", "begun")
        /\ booking' = [booking EXCEPT ![q.s].status = status, ![q.s].place = place]
        /\ seats' = IF seated THEN q.seats + 1 ELSE seats
        /\ waiting' = IF seated THEN waiting ELSE q.waiting + 1
        /\ UNCHANGED <<records, charged, used, handed>>
    BY DEF CommitBooking
  <1>2. /\ q \in Transaction /\ q.s \in Students /\ q.seats \in Nat /\ q.waiting \in Nat
        /\ booking[q.s] \in Booking
    BY <1>1, CommitsEnds, TransactionFields, BookingFields
  <1>3. row \in Booking /\ row.deducted = booking[q.s].deducted /\ row.status # "noShow"
    <2>1. status \in {"confirmed", "waitlist"} /\ place \in Nat
      BY <1>2
    <2> HIDE DEF status, place
    <2> QED
      BY <1>2, <2>1 DEF Booking, BookingStatus
  <1>4. booking' = [booking EXCEPT ![q.s] = row]
    BY <1>1, <1>2 DEF ClassesTypeOK
  <1>5. seats' \in Nat /\ waiting' \in Nat
    BY <1>1, <1>2 DEF ClassesTypeOK
  <1> HIDE DEF row
  <1> QED
    BY <1>1, <1>2, <1>3, <1>4, <1>5, CommitsEnds DEF ClassesTypeOK, Quiet

LEMMA CancelCommitQuiet ==
    ASSUME ClassesTypeOK, NEW t \in Tx, CommitCancel(t)
    PROVE  ClassesTypeOK' /\ Quiet
  <1> DEFINE q == tx[t]
             Row(s) == IF s = q.s /\ q.was # "cancelled"
                       THEN [booking[s] EXCEPT !.status = "cancelled", !.place = 0]
                       ELSE IF s = q.first
                       THEN [booking[s] EXCEPT !.status = "confirmed", !.place = 0]
                       ELSE booking[s]
  <1>1. /\ Commits(t, "cancel", "locked")
        /\ booking' = [s \in Students |-> Row(s)]
        /\ seats' = IF q.first # Nobody THEN SeatsAfterCancel(q) + 1 ELSE SeatsAfterCancel(q)
        /\ waiting' = IF q.first # Nobody THEN Less(q.waiting) ELSE waiting
        /\ UNCHANGED <<records, charged, used, handed>>
    BY DEF CommitCancel
  <1>2. q \in Transaction /\ q.waiting \in Nat
    BY <1>1, CommitsEnds, TransactionFields
  <1>3. \A s \in Students : /\ Row(s) \in Booking
                            /\ Row(s).deducted = booking[s].deducted
                            /\ Row(s).status = "noShow" => booking[s].status = "noShow"
    <2> TAKE s \in Students
    <2>1. ASSUME NEW status \in {"cancelled", "confirmed"}
          PROVE  LET row == [booking[s] EXCEPT !.status = status, !.place = 0]
                 IN  row \in Booking /\ row.deducted = booking[s].deducted /\ row.status = status
      BY BookingFields DEF Booking, BookingStatus
    <2> QED
      BY <2>1, BookingFields
  <1>4. seats' \in Nat /\ waiting' \in Nat
    <2>1. SeatsAfterCancel(q) \in Nat
      BY <1>2, SeatsAfterCancelIsNat
    <2>2. SeatsAfterCancel(q) + 1 \in Nat
      BY <2>1
    <2>3. Less(q.waiting) \in Nat /\ waiting \in Nat
      BY <1>2, LessIsNat DEF ClassesTypeOK
    <2> HIDE DEF q, Row
    <2> QED
      BY <1>1, <2>1, <2>2, <2>3
  <1> HIDE DEF Row
  <1>5. booking' \in [Students -> Booking]
    BY <1>1, <1>3
  <1>6. \A s \in Students :
          /\ booking'[s].deducted = booking[s].deducted
          /\ booking'[s].status = "noShow" => booking[s].status = "noShow"
    BY <1>1, <1>3
  <1>7. UNCHANGED <<records, charged>>
    BY <1>1
  <1>8. Quiet
    BY <1>6, <1>7 DEF Quiet
  <1>9. ClassesTypeOK'
    BY <1>1, <1>4, <1>5, CommitsEnds DEF ClassesTypeOK
  <1> QED
    BY <1>8, <1>9

LEMMA PromotionCommitQuiet ==
    ASSUME ClassesTypeOK, NEW t \in Tx, CommitPromotion(t)
    PROVE  ClassesTypeOK' /\ Quiet
  <1> DEFINE q == tx[t]
             row == [booking[q.s] EXCEPT !.status = "confirmed", !.place = 0]
  <1>1. /\ Commits(t, "promote", "begun")
        /\ booking' = [booking EXCEPT ![q.s].status = "confirmed", ![q.s].place = 0]
        /\ handed' = TRUE
        /\ UNCHANGED <<seats, waiting, records, charged, used>>
    BY DEF CommitPromotion
  <1>2. q.s \in Students /\ booking[q.s] \in Booking
    BY <1>1, CommitsEnds, TransactionFields, BookingFields
  <1>3. row \in Booking /\ row.deducted = booking[q.s].deducted /\ row.status # "noShow"
    BY <1>2 DEF Booking, BookingStatus
  <1>4. booking' = [booking EXCEPT ![q.s] = row]
    BY <1>1, <1>2 DEF ClassesTypeOK
  <1> HIDE DEF row
  <1> QED
    BY <1>1, <1>2, <1>3, <1>4, CommitsEnds DEF ClassesTypeOK, Quiet

LEMMA SingleStepQuiet ==
    ASSUME ClassesTypeOK,
           \/ \E s \in Students : MarkAttended(s) \/ ChargeLesson(s)
           \/ AutoCancelWaitlist
           \/ \E t \in Tx : Abort(t)
    PROVE  /\ ClassesTypeOK' /\ Quiet
           /\ \A u \in Tx : tx'[u] = tx[u] \/ tx'[u] = Idle
  <1>1. ASSUME NEW s \in Students, MarkAttended(s)
        PROVE  ClassesTypeOK' /\ Quiet /\ tx' = tx
    <2> DEFINE row == [booking[s] EXCEPT !.status = "attended", !.place = 0]
    <2>1. /\ booking' = [booking EXCEPT ![s] = row]
          /\ UNCHANGED <<seats, waiting, records, charged, used, tx, raced, handed>>
      BY <1>1 DEF MarkAttended, ClassesTypeOK
    <2>2. row \in Booking /\ row.deducted = booking[s].deducted /\ row.status # "noShow"
      BY BookingFields DEF Booking, BookingStatus
    <2> HIDE DEF row
    <2> QED
      BY <2>1, <2>2 DEF ClassesTypeOK, Quiet
  <1>2. ASSUME NEW s \in Students, ChargeLesson(s)
        PROVE  ClassesTypeOK' /\ Quiet /\ tx' = tx
    <2>1. Sessions[s] \in Nat /\ used[s] \in Nat /\ used[s] < Sessions[s]
      BY <1>2, ClassesAssumption DEF ChargeLesson, ClassesTypeOK
    <2> QED
      BY <1>2, <2>1 DEF ChargeLesson, ClassesTypeOK, Quiet
  <1>3. CASE AutoCancelWaitlist
    <2> DEFINE Row(s) == IF s \in Having("waitlist")
                         THEN [booking[s] EXCEPT !.status = "cancelled", !.place = 0]
                         ELSE booking[s]
    <2>1. /\ booking' = [s \in Students |-> Row(s)]
          /\ UNCHANGED <<seats, waiting, records, charged, used, tx, raced, handed>>
      BY <1>3 DEF AutoCancelWaitlist
    <2>2. \A s \in Students : /\ Row(s) \in Booking
                              /\ Row(s).deducted = booking[s].deducted
                              /\ Row(s).status = "noShow" => booking[s].status = "noShow"
      BY BookingFields DEF Booking, BookingStatus
    <2> HIDE DEF Row
    <2> QED
      BY <2>1, <2>2 DEF ClassesTypeOK, Quiet
  <1>4. ASSUME NEW t \in Tx, Abort(t)
        PROVE  /\ ClassesTypeOK' /\ Quiet
               /\ \A u \in Tx : tx'[u] = tx[u] \/ tx'[u] = Idle
    BY <1>4 DEF Abort, Becomes, ClassesTypeOK, Quiet
  <1> QED
    BY <1>1, <1>2, <1>3, <1>4

-----------------------------------------------------------------------------
(* Steps that may charge *)

(* What is written to used_lessons stays within the subscription.          *)
LEMMA ChargesTypes ==
    ASSUME ClassesTypeOK, NEW q \in Transaction, q.used < Sessions[q.s], Charges(q)
    PROVE  /\ charged' \in [Students -> Nat]
           /\ used' \in [Students -> Nat]
           /\ \A s \in Students : used'[s] <= Sessions[s]
           /\ charged' = [charged EXCEPT ![q.s] = @ + 1]
  <1>1. q.s \in Students /\ q.used \in Nat /\ Sessions[q.s] \in Nat
    BY ClassesAssumption DEF Transaction
  <1> QED
    BY <1>1 DEF Charges, ClassesTypeOK

(* A step of a transaction that ends, and writes one student's row.        *)
LEMMA OwnRowKeepsChargeInv ==
    ASSUME ChargeInv, ClassesTypeOK', NEW t \in Tx, NEW s \in Students,
           HoldsRow(t), tx[t].s = s, tx'[t] = Idle, \A u \in Tx : u # t => tx'[u] = tx[u],
           \A r \in Students : r # s => /\ booking'[r] = booking[r]
                                        /\ records'[r] = records[r]
                                        /\ charged'[r] = charged[r],
           booking'[s].status = "noShow" => records'[s] > 0,
           records'[s] >= records[s] /\ records'[s] <= 1 /\ charged'[s] <= 1,
           booking'[s].deducted <=> charged'[s] > 0
    PROVE  ChargeInv'
  <1>1. \A u \in Tx : HoldsRow(u)' => /\ u # t /\ HoldsRow(u) /\ tx'[u] = tx[u]
                                      /\ tx[u] # Idle /\ tx[u].s \in Students \ {s}
    BY IdleIsIdle, TransactionFields DEF HoldsRow, ChargeInv, Exclusive
  <1>2. Exclusive'
    BY <1>1 DEF ChargeInv, Exclusive
  <1>3. Fresh'
    BY <1>1 DEF ChargeInv, Fresh
  <1>4. \A r \in Students : records[r] \in Nat /\ records'[r] \in Nat /\ records'[r] >= records[r]
    BY DEF ChargeInv, ClassesTypeOK
  <1>5. \A u \in Tx : tx'[u] # Idle => tx'[u] = tx[u] /\ tx[u] # Idle /\ tx[u].s \in Students
    BY TransactionFields DEF ChargeInv
  <1>6. Recorded'
    BY <1>4, <1>5 DEF ChargeInv, Recorded
  <1>7. BookingChargedOnce' /\ MarkerTellsCharge'
    BY DEF ChargeInv, BookingChargedOnce, MarkerTellsCharge
  <1> QED
    BY <1>2, <1>3, <1>6, <1>7 DEF ChargeInv

LEMMA DeductionKeepsChargeInv ==
    ASSUME ChargeInv, NEW t \in Tx, CommitDeduction(t)
    PROVE  ChargeInv'
  <1> DEFINE q == tx[t]
             row == [booking[q.s] EXCEPT !.deducted = TRUE]
  <1>1. /\ Commits(t, "deduct", "locked")
        /\ ~q.deducted
        /\ q.used < Sessions[q.s]
        /\ Charges(q)
        /\ booking' = [booking EXCEPT ![q.s].deducted = TRUE]
        /\ UNCHANGED <<seats, waiting, records, handed>>
    BY DEF CommitDeduction
  <1>2. /\ q \in Transaction /\ q.s \in Students /\ booking[q.s] \in Booking
        /\ q.op = "deduct" /\ q.stage = "locked"
        /\ tx' \in [Tx -> Transaction \cup {Idle}]
        /\ tx'[t] = Idle
        /\ \A u \in Tx : u # t => tx'[u] = tx[u]
        /\ raced' \in BOOLEAN
    BY <1>1, CommitsEnds, TransactionFields, BookingFields DEF ChargeInv
  <1>3. HoldsRow(t)
    BY <1>2 DEF HoldsRow, LocksRow
  <1>4. ~booking[q.s].deducted
    BY <1>1, <1>3 DEF ChargeInv, Fresh
  <1>5. charged[q.s] = 0
    BY <1>2, <1>4 DEF ChargeInv, ClassesTypeOK, MarkerTellsCharge
  <1>6. /\ charged' \in [Students -> Nat]
        /\ used' \in [Students -> Nat]
        /\ \A s \in Students : used'[s] <= Sessions[s]
        /\ charged' = [charged EXCEPT ![q.s] = @ + 1]
    BY <1>1, <1>2, ChargesTypes DEF ChargeInv
  <1>7. row \in Booking /\ row.deducted /\ row.status = booking[q.s].status
    BY <1>2 DEF Booking
  <1>8. booking' = [booking EXCEPT ![q.s] = row]
    BY <1>1, <1>2 DEF ChargeInv, ClassesTypeOK
  <1> HIDE DEF row
  <1>9. ClassesTypeOK'
    BY <1>1, <1>2, <1>6, <1>7, <1>8 DEF ChargeInv, ClassesTypeOK
  <1>10. /\ \A r \in Students : r # q.s => /\ booking'[r] = booking[r]
                                           /\ records'[r] = records[r]
                                           /\ charged'[r] = charged[r]
         /\ booking'[q.s] = row /\ charged'[q.s] = 1
    BY <1>1, <1>2, <1>5, <1>6, <1>8 DEF ChargeInv, ClassesTypeOK
  <1>11. /\ booking'[q.s].status = "noShow" => records'[q.s] > 0
         /\ records'[q.s] >= records[q.s] /\ records'[q.s] <= 1
    BY <1>1, <1>2, <1>7, <1>10 DEF ChargeInv, ClassesTypeOK, Recorded, BookingChargedOnce
  <1> QED
    BY <1>2, <1>3, <1>7, <1>9, <1>10, <1>11, OwnRowKeepsChargeInv

(* The policy either finds a record and does nothing more, or holds the    *)
(* row and finds what is there.                                            *)
LEMMA NoShowKeepsChargeInv ==
    ASSUME ChargeInv, NEW t \in Tx, CommitNoShow(t)
    PROVE  ChargeInv'
  <1> DEFINE q == tx[t]
  <1>1. PICK charge \in BOOLEAN :
           /\ charge => q.records = 0 /\ ~q.deducted /\ q.used < Sessions[q.s]
           /\ IF charge THEN Charges(q) ELSE UNCHANGED <<charged, used>>
           /\ booking' = [booking EXCEPT ![q.s] = NoShowRow(q, @, charge)]
    BY DEF CommitNoShow
  <1>2. /\ Commits(t, "noShow", "locked")
        /\ records' = [records EXCEPT ![q.s] = IF q.records = 0 THEN @ + 1 ELSE @]
        /\ UNCHANGED <<seats, waiting, handed>>
    BY DEF CommitNoShow
  <1>3. /\ q \in Transaction /\ q.s \in Students /\ booking[q.s] \in Booking
        /\ q.op = "noShow" /\ q.stage = "locked" /\ q # Idle
        /\ q.records \in Nat /\ q.deducted \in BOOLEAN
        /\ tx' \in [Tx -> Transaction \cup {Idle}]
        /\ tx'[t] = Idle
        /\ \A u \in Tx : u # t => tx'[u] = tx[u]
        /\ raced' \in BOOLEAN
    BY <1>2, CommitsEnds, TransactionFields, BookingFields DEF ChargeInv
  <1> DEFINE row == NoShowRow(q, booking[q.s], charge)
  <1>4. /\ row \in Booking
        /\ row.status \in {"noShow", booking[q.s].status}
        /\ row.deducted <=> booking[q.s].deducted \/ charge
        /\ q.was = "noShow" => row.status = booking[q.s].status
    <2>1. ASSUME NEW status \in {"noShow", booking[q.s].status}, NEW deducted \in BOOLEAN
          PROVE  LET r == [booking[q.s] EXCEPT !.status = status, !.place = 0,
                                               !.deducted = deducted]
                 IN  r \in Booking /\ r.status = status /\ r.deducted = deducted
      BY <1>3 DEF Booking, BookingStatus
    <2>2. row = [booking[q.s] EXCEPT
                   !.status = IF q.was = "noShow" THEN booking[q.s].status ELSE "noShow",
                   !.place = 0,
                   !.deducted = booking[q.s].deducted \/ charge]
      BY <1>3 DEF NoShowRow, Booking
    <2>3. (booking[q.s].deducted \/ charge) \in BOOLEAN
      OBVIOUS
    <2>4. (IF q.was = "noShow" THEN booking[q.s].status ELSE "noShow")
             \in {"noShow", booking[q.s].status}
      OBVIOUS
    <2> QED
      BY <2>1, <2>2, <2>3, <2>4
  <1>5. booking' = [booking EXCEPT ![q.s] = row]
    BY <1>1, <1>3 DEF ChargeInv, ClassesTypeOK
  <1> HIDE DEF row
  <1>6. booking' \in [Students -> Booking] /\ records' \in [Students -> Nat]
    BY <1>2, <1>3, <1>4, <1>5 DEF ChargeInv, ClassesTypeOK
  <1>7. /\ charged' \in [Students -> Nat]
        /\ used' \in [Students -> Nat]
        /\ \A s \in Students : used'[s] <= Sessions[s]
        /\ charged' = IF charge THEN [charged EXCEPT ![q.s] = @ + 1] ELSE charged
    <2>1. CASE charge
      BY <1>1, <1>3, <2>1, ChargesTypes DEF ChargeInv
    <2>2. CASE ~charge
      BY <1>1, <2>2 DEF ChargeInv, ClassesTypeOK
    <2> QED
      BY <2>1, <2>2
  <1>8. ClassesTypeOK'
    BY <1>2, <1>3, <1>6, <1>7 DEF ChargeInv, ClassesTypeOK
  <1>9. booking'[q.s] = row /\ \A r \in Students : r # q.s => booking'[r] = booking[r]
    BY <1>3, <1>5 DEF ChargeInv, ClassesTypeOK
  <1>10. CASE q.was = "noShow"
    <2>1. q.records > 0 /\ records[q.s] > 0
      BY <1>3, <1>10 DEF ChargeInv, Recorded
    <2>2. ~charge /\ records' = records /\ charged' = charged
      BY <1>1, <1>2, <1>3, <1>7, <2>1 DEF ChargeInv, ClassesTypeOK
    <2>3. \A s \in Students : /\ booking'[s].deducted = booking[s].deducted
                              /\ booking'[s].status = booking[s].status
      BY <1>3, <1>4, <1>9, <1>10, <2>2 DEF Booking
    <2>4. Quiet
      BY <2>2, <2>3 DEF Quiet
    <2> QED
      BY <1>3, <1>8, <2>4, QuietKeepsChargeInv
  <1>11. CASE q.was # "noShow"
    <2>1. HoldsRow(t)
      BY <1>3, <1>11 DEF HoldsRow, LocksRow
    <2>2. q.deducted = booking[q.s].deducted /\ q.records = records[q.s]
      BY <1>3, <2>1 DEF ChargeInv, Fresh
    <2>3. /\ booking[q.s].deducted <=> charged[q.s] > 0
          /\ charged[q.s] \in {0, 1} /\ records[q.s] \in {0, 1}
      <3>1. booking[q.s].deducted <=> charged[q.s] > 0
        BY <1>3 DEF ChargeInv, MarkerTellsCharge
      <3>2. charged[q.s] \in Nat /\ records[q.s] \in Nat
        BY <1>3 DEF ChargeInv, ClassesTypeOK
      <3>3. charged[q.s] <= 1 /\ records[q.s] <= 1
        BY <1>3 DEF ChargeInv, BookingChargedOnce
      <3>4. charged[q.s] \in {0, 1} /\ records[q.s] \in {0, 1}
        BY <3>2, <3>3
      <3> QED
        BY <3>1, <3>4
    <2>4. /\ records'[q.s] = 1
          /\ \A r \in Students : r # q.s => records'[r] = records[r]
      BY <1>2, <1>3, <2>2, <2>3 DEF ChargeInv, ClassesTypeOK
    <2>5. /\ charged'[q.s] = IF charge THEN charged[q.s] + 1 ELSE charged[q.s]
          /\ \A r \in Students : r # q.s => charged'[r] = charged[r]
      BY <1>3, <1>7 DEF ChargeInv, ClassesTypeOK
    <2>6. charge => charged[q.s] = 0
      BY <1>1, <2>2, <2>3
    <2>7. charged'[q.s] <= 1 /\ (booking'[q.s].deducted <=> charged'[q.s] > 0)
      BY <1>4, <1>9, <2>3, <2>5, <2>6
    <2>8. records'[q.s] >= records[q.s] /\ records'[q.s] <= 1 /\ records'[q.s] > 0
      BY <2>3, <2>4
    <2> QED
      BY <1>3, <1>8, <1>9, <2>1, <2>4, <2>5, <2>7, <2>8, OwnRowKeepsChargeInv
  <1> QED
    BY <1>10, <1>11

-----------------------------------------------------------------------------
(* The invariant *)

LEMMA InitChargeInv == Init => ChargeInv
  <1> SUFFICES ASSUME Init PROVE ChargeInv
    OBVIOUS
  <1> USE DEF Init
  <1>1. ClassesTypeOK
    <2>1. [status |-> "none", place |-> 0, deducted |-> FALSE] \in Booking
      BY DEF Booking, BookingStatus
    <2>2. booking \in [Students -> Booking]
      BY <2>1
    <2>3. tx \in [Tx -> Transaction \cup {Idle}]
      OBVIOUS
    <2>4. \A s \in Students : used[s] <= Sessions[s]
      BY ClassesAssumption
    <2> QED
      BY <2>2, <2>3, <2>4 DEF ClassesTypeOK
  <1>2. \A t \in Tx : tx[t] = Idle /\ ~HoldsRow(t)
    BY IdleIsIdle DEF HoldsRow
  <1>3. Recorded /\ BookingChargedOnce /\ MarkerTellsCharge
    BY <1>2 DEF Recorded, BookingChargedOnce, MarkerTellsCharge
  <1> QED
    BY <1>1, <1>2, <1>3 DEF ChargeInv, Exclusive, Fresh

LEMMA ChargeInvStep == ChargeInv /\ [Next]_vars => ChargeInv'
  <1> SUFFICES ASSUME ChargeInv, [Next]_vars PROVE ChargeInv'
    OBVIOUS
  <1>1. CASE UNCHANGED vars
    BY <1>1 DEF vars, ChargeInv, ClassesTypeOK, Exclusive, Fresh, Recorded, HoldsRow,
       BookingChargedOnce, MarkerTellsCharge
  <1>2. ASSUME NEW t \in Tx, Begins(t) PROVE ChargeInv'
    BY <1>2, BeginKeepsChargeInv
  <1>3. ASSUME NEW t \in Tx, Lock(t) PROVE ChargeInv'
    BY <1>3, LockKeepsChargeInv
  <1>4. ASSUME NEW t \in Tx, CommitBooking(t) \/ CommitCancel(t) \/ CommitPromotion(t)
        PROVE  ChargeInv'
    <2>1. ClassesTypeOK' /\ Quiet
      BY <1>4, BookingCommitQuiet, CancelCommitQuiet, PromotionCommitQuiet DEF ChargeInv
    <2>2. \A u \in Tx : tx'[u] = tx[u] \/ tx'[u] = Idle
      BY <1>4, CommitsEnds DEF CommitBooking, CommitCancel, CommitPromotion, ChargeInv
    <2> QED
      BY <2>1, <2>2, QuietKeepsChargeInv
  <1>5. ASSUME NEW t \in Tx, CommitNoShow(t) PROVE ChargeInv'
    BY <1>5, NoShowKeepsChargeInv
  <1>6. ASSUME NEW t \in Tx, CommitDeduction(t) PROVE ChargeInv'
    BY <1>6, DeductionKeepsChargeInv
  <1>7. CASE \/ \E s \in Students : MarkAttended(s) \/ ChargeLesson(s)
             \/ AutoCancelWaitlist
             \/ \E t \in Tx : Abort(t)
    <2>1. /\ ClassesTypeOK' /\ Quiet
          /\ \A u \in Tx : tx'[u] = tx[u] \/ tx'[u] = Idle
      BY <1>7, SingleStepQuiet DEF ChargeInv
    <2> QED
      BY <2>1, QuietKeepsChargeInv
  <1> QED
    BY <1>1, <1>2, <1>3, <1>4, <1>5, <1>6, <1>7 DEF Next, Begins

-----------------------------------------------------------------------------

(* The counters never fall below zero and used_lessons never rises above   *)
(* the sessions of the subscription.                                       *)
THEOREM ClassesTypeCorrect == Spec => []ClassesTypeOK
  <1>1. ChargeInv => ClassesTypeOK
    BY DEF ChargeInv
  <1> QED
    BY <1>1, InitChargeInv, ChargeInvStep, PTL DEF Spec

(* A booking costs one session and its no-show is recorded once, however   *)
(* many requests mark and deduct it at once.                               *)
THEOREM BookingChargedOnceCorrect == Spec => []BookingChargedOnce
  <1>1. ChargeInv => BookingChargedOnce
    BY DEF ChargeInv
  <1> QED
    BY <1>1, InitChargeInv, ChargeInvStep, PTL DEF Spec

(* The marker that deduction and policy go by tells whether the booking    *)
(* was charged.                                                            *)
THEOREM MarkerTellsChargeCorrect == Spec => []MarkerTellsCharge
  <1>1. ChargeInv => MarkerTellsCharge
    BY DEF ChargeInv
  <1> QED
    BY <1>1, InitChargeInv, ChargeInvStep, PTL DEF Spec

-----------------------------------------------------------------------------
(* Seats.  While no two requests have overlapped and nobody was promoted   *)
(* by hand, the counter is what the one request under way has read, and    *)
(* there is a seat in it for everybody who is confirmed; one to spare, if  *)
(* the student whose cancellation is under way has left meanwhile.         *)
Confirmed == Having("confirmed")

OneRequest == \A t, u \in Tx : tx[t] # Idle /\ tx[u] # Idle => t = u

SeatsSuffice ==
    /\ IsFiniteSet(Confirmed)
    /\ Cardinality(Confirmed) <= seats
    /\ seats <= Capacity

ReadsSeats(t) ==
    /\ tx[t].op \in {"book", "cancel"} => tx[t].seats = seats
    /\ tx[t].op = "cancel" =>
         /\ tx[t].was = "confirmed" /\ tx[t].s \notin Confirmed => Cardinality(Confirmed) < seats
         /\ tx[t].stage = "locked" /\ tx[t].was # "confirmed" => tx[t].first = Nobody

InTurn ==
    /\ OneRequest
    /\ SeatsSuffice
    /\ \A t \in Tx : tx[t] # Idle => ReadsSeats(t)

SeatInv == raced \/ handed \/ InTurn

LEMMA SeatInvSuffices == ChargeInv /\ SeatInv => NotOverbookedInTurn
  <1> SUFFICES ASSUME ChargeInv, InTurn PROVE Cardinality(Confirmed) <= Capacity
    BY DEF SeatInv, NotOverbookedInTurn, Confirmed
  <1>1. Cardinality(Confirmed) \in Nat /\ seats \in Nat /\ Capacity \in Nat
    BY FS_CardinalityType, ClassesAssumption DEF InTurn, SeatsSuffice, ChargeInv, ClassesTypeOK
  <1> QED
    BY <1>1 DEF InTurn, SeatsSuffice

LEMMA InitSeatInv == Init => SeatInv
  <1> SUFFICES ASSUME Init PROVE InTurn
    BY DEF SeatInv
  <1>1. Confirmed = {} /\ seats = 0 /\ \A t \in Tx : tx[t] = Idle
    BY DEF Init, Confirmed, Having
  <1>2. Cardinality(Confirmed) = 0 /\ IsFiniteSet(Confirmed)
    BY <1>1, FS_EmptySet
  <1> QED
    BY <1>1, <1>2, ClassesAssumption DEF InTurn, OneRequest, SeatsSuffice

(* Those who leave make room.                                              *)
LEMMA Leaving ==
    ASSUME NEW S, IsFiniteSet(S), NEW T \in SUBSET S
    PROVE  /\ IsFiniteSet(T) /\ Cardinality(T) \in Nat /\ Cardinality(S) \in Nat
           /\ Cardinality(T) <= Cardinality(S)
           /\ \A x \in S : x \notin T => Cardinality(T) < Cardinality(S)
  <1>1. IsFiniteSet(T) /\ Cardinality(T) <= Cardinality(S)
        /\ (Cardinality(S) = Cardinality(T) => S = T)
    BY FS_Subset
  <1>2. Cardinality(T) \in Nat /\ Cardinality(S) \in Nat
    BY <1>1, FS_CardinalityType
  <1> QED
    BY <1>1, <1>2

LEMMA LeavingKeepsSeats ==
    ASSUME ChargeInv, SeatInv, UNCHANGED <<seats, raced, handed>>,
           Confirmed' \subseteq Confirmed,
           \A u \in Tx : tx'[u] = tx[u] \/ tx'[u] = Idle
    PROVE  SeatInv'
  <1> SUFFICES ASSUME InTurn PROVE InTurn'
    BY DEF SeatInv
  <1>1. /\ IsFiniteSet(Confirmed) /\ IsFiniteSet(Confirmed)'
        /\ Cardinality(Confirmed) \in Nat /\ Cardinality(Confirmed)' \in Nat
        /\ Cardinality(Confirmed)' <= Cardinality(Confirmed)
        /\ \A s \in Confirmed : s \notin Confirmed'
                                  => Cardinality(Confirmed)' < Cardinality(Confirmed)
    BY Leaving DEF InTurn, SeatsSuffice
  <1>2. seats \in Nat /\ Capacity \in Nat /\ Cardinality(Confirmed) <= seats /\ seats <= Capacity
    BY ClassesAssumption DEF ChargeInv, ClassesTypeOK, InTurn, SeatsSuffice
  <1>3. SeatsSuffice'
    BY <1>1, <1>2 DEF SeatsSuffice
  <1>4. OneRequest'
    BY DEF InTurn, OneRequest
  <1>5. ASSUME NEW t \in Tx, tx'[t] # Idle PROVE ReadsSeats(t)'
    <2>1. tx'[t] = tx[t] /\ ReadsSeats(t)
      BY <1>5 DEF InTurn
    <2>2. ASSUME tx[t].op = "cancel", tx[t].was = "confirmed", tx[t].s \notin Confirmed'
          PROVE  Cardinality(Confirmed)' < seats
      <3>1. CASE tx[t].s \in Confirmed
        BY <1>1, <1>2, <2>2, <3>1
      <3>2. CASE tx[t].s \notin Confirmed
        <4>1. Cardinality(Confirmed) < seats
          BY <2>1, <2>2, <3>2 DEF ReadsSeats
        <4> QED
          BY <1>1, <1>2, <4>1
      <3> QED
        BY <3>1, <3>2
    <2> QED
      BY <2>1, <2>2 DEF ReadsSeats
  <1> QED
    BY <1>3, <1>4, <1>5 DEF InTurn

LEMMA BeginKeepsSeats ==
    ASSUME ChargeInv, SeatInv, NEW t \in Tx, Begins(t)
    PROVE  SeatInv'
  <1>1. PICK s \in Students, op \in Op : Begin(t, op, s)
    BY DEF Begins, CreateGroupBooking, CancelGroupBooking, PromoteFromWaitlistPublic,
       MarkNoShow, DeductSubscription, Op
  <1> DEFINE q == Read(op, s)
  <1>2. /\ tx' = [tx EXCEPT ![t] = q]
        /\ UNCHANGED <<booking, seats, handed>>
        /\ raced' = (raced \/ \E u \in Tx : tx[u] # Idle)
    BY <1>1 DEF Begin, Becomes
  <1>3. /\ q.stage = "begun" /\ q.op = op /\ q.s = s
        /\ op \in {"book", "cancel"} => q.seats = seats
        /\ op = "cancel" => q.was = booking[s].status
    BY DEF Read
  <1> HIDE DEF q
  <1>4. tx'[t] = q /\ \A u \in Tx : u # t => tx'[u] = tx[u]
    BY <1>2 DEF ChargeInv, ClassesTypeOK
  <1>5. CASE raced' \/ handed'
    BY <1>5 DEF SeatInv
  <1>6. CASE ~raced' /\ ~handed'
    <2>1. InTurn /\ \A u \in Tx : tx[u] = Idle
      BY <1>2, <1>6 DEF SeatInv
    <2>2. Confirmed' = Confirmed
      BY <1>2 DEF Confirmed, Having
    <2>3. SeatsSuffice'
      BY <1>2, <2>1, <2>2 DEF InTurn, SeatsSuffice
    <2>4. OneRequest'
      BY <1>4, <2>1 DEF OneRequest
    <2>5. op = "cancel" /\ q.was = "confirmed" => s \in Confirmed
      BY <1>3 DEF Confirmed, Having
    <2>6. ReadsSeats(t)'
      BY <1>2, <1>3, <1>4, <2>2, <2>5 DEF ReadsSeats
    <2>7. \A u \in Tx : tx'[u] # Idle => u = t
      BY <1>4, <2>1
    <2> QED
      BY <2>3, <2>4, <2>6, <2>7 DEF InTurn, SeatInv
  <1> QED
    BY <1>5, <1>6

LEMMA LockKeepsSeats ==
    ASSUME ChargeInv, SeatInv, NEW t \in Tx, Lock(t)
    PROVE  SeatInv'
  <1> SUFFICES ASSUME InTurn PROVE InTurn'
    BY DEF SeatInv, Lock
  <1> DEFINE q == tx[t]
  <1>1. PICK first \in Students \cup {Nobody} :
           /\ IF LocksCounters(q) /\ Having("waitlist") # {} THEN FirstInLine(first)
                                                          ELSE first = Nobody
           /\ Becomes(t, Rereads(q, first))
    BY DEF Lock
  <1> DEFINE n == Rereads(q, first)
  <1>2. /\ q.stage = "begun" /\ q # Idle
        /\ UNCHANGED <<booking, seats, handed, raced>>
    BY IdleIsIdle DEF Lock
  <1>3. q \in Transaction
    BY <1>2, TransactionFields DEF ChargeInv
  <1>4. /\ n.stage = "locked" /\ n.op = q.op /\ n.s = q.s /\ n.was = q.was
        /\ n.seats = q.seats /\ n.first = first
    BY <1>3 DEF Rereads, Transaction
  <1>5. tx' = [tx EXCEPT ![t] = n]
    BY <1>1 DEF Becomes
  <1> HIDE DEF n
  <1>6. tx'[t] = n /\ \A u \in Tx : u # t => tx'[u] = tx[u]
    BY <1>5 DEF ChargeInv, ClassesTypeOK
  <1>7. \A u \in Tx : u # t => tx'[u] = Idle
    BY <1>2, <1>6 DEF InTurn, OneRequest
  <1>8. Confirmed' = Confirmed
    BY <1>2 DEF Confirmed, Having
  <1>9. ReadsSeats(t)
    BY <1>2 DEF InTurn
  <1>10. ReadsSeats(t)'
    BY <1>1, <1>2, <1>4, <1>6, <1>8, <1>9 DEF ReadsSeats, LocksCounters
  <1>11. \A u \in Tx : tx'[u] # Idle => u = t
    BY <1>7
  <1>12. OneRequest' /\ SeatsSuffice'
    BY <1>2, <1>7, <1>8 DEF InTurn, OneRequest, SeatsSuffice
  <1> QED
    BY <1>10, <1>11, <1>12 DEF InTurn

(* The commit of the one request under way leaves none.                    *)
LEMMA CommitLeavesNone ==
    ASSUME ChargeInv, InTurn, NEW t \in Tx, NEW op, NEW stage \in {"begun", "locked"},
           Commits(t, op, stage), SeatsSuffice'
    PROVE  InTurn'
  <1>1. tx[t] # Idle /\ tx'[t] = Idle /\ \A u \in Tx : u # t => tx'[u] = tx[u]
    BY CommitsEnds DEF ChargeInv
  <1>2. \A u \in Tx : tx'[u] = Idle
    BY <1>1 DEF InTurn, OneRequest
  <1> QED
    BY <1>2 DEF InTurn, OneRequest

LEMMA CommitBookingKeepsSeats ==
    ASSUME ChargeInv, SeatInv, NEW t \in Tx, CommitBooking(t)
    PROVE  SeatInv'
  <1> SUFFICES ASSUME InTurn PROVE InTurn'
    BY DEF SeatInv, CommitBooking, Commits
  <1> DEFINE q == tx[t]
             seated == Seated(q)
  <1>1. /\ Commits(t, "book", "begun")
        /\ booking' = [booking EXCEPT ![q.s].status = IF seated THEN "confirmed" ELSE "waitlist",
                                      ![q.s].place = IF seated THEN 0 ELSE q.waiting + 1]
        /\ seats' = IF seated THEN q.seats + 1 ELSE seats
    BY DEF CommitBooking
  <1>2. q # Idle /\ q.op = "book"
    BY <1>1, CommitsEnds DEF ChargeInv
  <1>3. q.s \in Students /\ q.seats = seats /\ seats \in Nat /\ Capacity \in Nat
    BY <1>2, TransactionFields, ClassesAssumption
    DEF ChargeInv, ClassesTypeOK, InTurn, ReadsSeats
  <1>4. /\ IsFiniteSet(Confirmed) /\ Cardinality(Confirmed) \in Nat
        /\ Cardinality(Confirmed) <= seats /\ seats <= Capacity
    BY FS_CardinalityType DEF InTurn, SeatsSuffice
  <1>5. /\ \A s \in Students \ {q.s} : booking'[s] = booking[s]
        /\ booking'[q.s].status = IF seated THEN "confirmed" ELSE "waitlist"
    BY <1>1, <1>3, BookingFields DEF ChargeInv, ClassesTypeOK, Booking
  <1>6. CASE seated
    <2>1. seats' = seats + 1 /\ seats < Capacity
      BY <1>1, <1>3, <1>6 DEF Seated
    <2>2. Confirmed' = Confirmed \cup {q.s}
      BY <1>3, <1>5, <1>6 DEF Confirmed, Having
    <2>3. IsFiniteSet(Confirmed)' /\ Cardinality(Confirmed)' <= Cardinality(Confirmed) + 1
          /\ Cardinality(Confirmed)' \in Nat
      <3>1. /\ IsFiniteSet(Confirmed \cup {q.s})
            /\ \/ Cardinality(Confirmed \cup {q.s}) = Cardinality(Confirmed)
               \/ Cardinality(Confirmed \cup {q.s}) = Cardinality(Confirmed) + 1
        BY <1>4, FS_AddElement
      <3>2. /\ IsFiniteSet(Confirmed)'
            /\ \/ Cardinality(Confirmed)' = Cardinality(Confirmed)
               \/ Cardinality(Confirmed)' = Cardinality(Confirmed) + 1
        BY <2>2, <3>1
      <3> QED
        BY <1>4, <3>2
    <2>4. SeatsSuffice'
      BY <1>3, <1>4, <2>1, <2>3 DEF SeatsSuffice
    <2> QED
      BY <1>1, <2>4, CommitLeavesNone
  <1>7. CASE ~seated
    <2>1. Confirmed' \subseteq Confirmed
      BY <1>5, <1>7 DEF Confirmed, Having
    <2>2. IsFiniteSet(Confirmed)' /\ Cardinality(Confirmed)' <= Cardinality(Confirmed)
          /\ Cardinality(Confirmed)' \in Nat
      BY <1>4, <2>1, Leaving
    <2>3. SeatsSuffice'
      BY <1>1, <1>3, <1>4, <1>7, <2>2 DEF SeatsSuffice
    <2> QED
      BY <1>1, <2>3, CommitLeavesNone
  <1> QED
    BY <1>6, <1>7

LEMMA CommitCancelKeepsSeats ==
    ASSUME ChargeInv, SeatInv, NEW t \in Tx, CommitCancel(t)
    PROVE  SeatInv'
  <1> SUFFICES ASSUME InTurn PROVE InTurn'
    BY DEF SeatInv, CommitCancel, Commits
  <1> DEFINE q == tx[t]
  <1>1. /\ Commits(t, "cancel", "locked")
        /\ booking' = [s \in Students |->
                         IF s = q.s /\ q.was # "cancelled"
                         THEN [booking[s] EXCEPT !.status = "cancelled", !.place = 0]
                         ELSE IF s = q.first
                         THEN [booking[s] EXCEPT !.status = "confirmed", !.place = 0]
                         ELSE booking[s]]
        /\ seats' = IF q.first # Nobody THEN SeatsAfterCancel(q) + 1 ELSE SeatsAfterCancel(q)
    BY DEF CommitCancel
  <1>2. q # Idle /\ q.op = "cancel" /\ q.stage = "locked"
    BY <1>1, CommitsEnds DEF ChargeInv
  <1>3. /\ q.s \in Students /\ q.first \in Students \cup {Nobody}
        /\ q.seats = seats /\ seats \in Nat /\ Capacity \in Nat /\ Capacity >= 1
        /\ q.was = "confirmed" /\ q.s \notin Confirmed => Cardinality(Confirmed) < seats
        /\ q.was # "confirmed" => q.first = Nobody
    BY <1>2, TransactionFields, ClassesAssumption
    DEF ChargeInv, ClassesTypeOK, InTurn, ReadsSeats
  <1>4. /\ IsFiniteSet(Confirmed) /\ Cardinality(Confirmed) \in Nat
        /\ Cardinality(Confirmed) <= seats /\ seats <= Capacity
    BY FS_CardinalityType DEF InTurn, SeatsSuffice
  <1>5. \A s \in Students :
           /\ s # q.first => booking'[s] = booking[s] \/ booking'[s].status = "cancelled"
           /\ s = q.s /\ q.was # "cancelled" => booking'[s].status = "cancelled"
    BY <1>1, BookingFields DEF ChargeInv, Booking
  <1>6. CASE q.was # "confirmed"
    <2>1. seats' = seats /\ q.first = Nobody
      BY <1>1, <1>3, <1>6 DEF SeatsAfterCancel
    <2>2. Confirmed' \subseteq Confirmed
      BY <1>5, <2>1, ClassesAssumption DEF Confirmed, Having
    <2>3. IsFiniteSet(Confirmed)' /\ Cardinality(Confirmed)' <= Cardinality(Confirmed)
          /\ Cardinality(Confirmed)' \in Nat
      BY <1>4, <2>2, Leaving
    <2>4. SeatsSuffice'
      BY <1>3, <1>4, <2>1, <2>3 DEF SeatsSuffice
    <2> QED
      BY <1>1, <2>4, CommitLeavesNone
  <1>7. CASE q.was = "confirmed"
    <2> DEFINE rest == Confirmed \ {q.s}
    <2>1. IsFiniteSet(rest) /\ Cardinality(rest) \in Nat /\ Cardinality(rest) + 1 <= seats
      <3>1. IsFiniteSet(rest) /\ Cardinality(rest) \in Nat
        BY <1>4, Leaving
      <3>2. CASE q.s \in Confirmed
        <4>1. Cardinality(rest) = Cardinality(Confirmed) - 1
          BY <1>4, <3>2, FS_RemoveElement
        <4> QED
          BY <1>3, <1>4, <3>1, <4>1
      <3>3. CASE q.s \notin Confirmed
        <4>1. rest = Confirmed /\ Cardinality(Confirmed) < seats
          BY <1>3, <1>7, <3>3
        <4> QED
          BY <1>3, <1>4, <3>1, <4>1
      <3> QED
        BY <3>1, <3>2, <3>3
    <2>2. SeatsAfterCancel(q) = seats - 1
      BY <1>3, <1>7, <2>1 DEF SeatsAfterCancel, Less
    <2>3. Confirmed' \subseteq rest \cup {q.first}
      BY <1>5, <1>7 DEF Confirmed, Having
    <2>4. CASE q.first = Nobody
      <3>1. Confirmed' \subseteq rest
        BY <2>3, <2>4, ClassesAssumption DEF Confirmed, Having
      <3>2. IsFiniteSet(Confirmed)' /\ Cardinality(Confirmed)' <= Cardinality(rest)
            /\ Cardinality(Confirmed)' \in Nat
        BY <2>1, <3>1, Leaving
      <3>3. seats' = seats - 1
        BY <1>1, <2>2, <2>4
      <3>4. SeatsSuffice'
        BY <1>3, <1>4, <2>1, <3>2, <3>3 DEF SeatsSuffice
      <3> QED
        BY <1>1, <3>4, CommitLeavesNone
    <2>5. CASE q.first # Nobody
      <3>1. /\ IsFiniteSet(rest \cup {q.first})
            /\ Cardinality(rest \cup {q.first}) <= Cardinality(rest) + 1
        BY <2>1, FS_AddElement
      <3>2. IsFiniteSet(Confirmed)' /\ Cardinality(Confirmed)' \in Nat
            /\ Cardinality(rest \cup {q.first}) \in Nat
            /\ Cardinality(Confirmed)' <= Cardinality(rest \cup {q.first})
        BY <2>3, <3>1, Leaving
      <3>3. seats' = seats
        <4>1. seats' = SeatsAfterCancel(q) + 1
          BY <1>1, <2>5
        <4>2. seats' = (seats - 1) + 1
          BY <2>2, <4>1
        <4> QED
          BY <1>3, <4>2
      <3>4. SeatsSuffice'
        BY <1>3, <1>4, <2>1, <3>1, <3>2, <3>3 DEF SeatsSuffice
      <3> QED
        BY <1>1, <3>4, CommitLeavesNone
    <2> QED
      BY <2>4, <2>5
  <1> QED
    BY <1>6, <1>7

LEMMA SeatInvStep == ChargeInv /\ SeatInv /\ [Next]_vars => SeatInv'
  <1> SUFFICES ASSUME ChargeInv, SeatInv, [Next]_vars PROVE SeatInv'
    OBVIOUS
  <1>1. CASE UNCHANGED vars
    BY <1>1, LeavingKeepsSeats DEF vars, Confirmed, Having
  <1>2. ASSUME NEW t \in Tx, Begins(t) PROVE SeatInv'
    BY <1>2, BeginKeepsSeats
  <1>3. ASSUME NEW t \in Tx, Lock(t) PROVE SeatInv'
    BY <1>3, LockKeepsSeats
  <1>4. ASSUME NEW t \in Tx, CommitBooking(t) PROVE SeatInv'
    BY <1>4, CommitBookingKeepsSeats
  <1>5. ASSUME NEW t \in Tx, CommitCancel(t) PROVE SeatInv'
    BY <1>5, CommitCancelKeepsSeats
  <1>6. ASSUME NEW t \in Tx, CommitPromotion(t) PROVE SeatInv'
    BY <1>6 DEF CommitPromotion, SeatInv
  <1>7. ASSUME NEW t \in Tx, CommitNoShow(t) PROVE SeatInv'
    <2>1. /\ Commits(t, "noShow", "locked")
          /\ UNCHANGED <<seats, raced, handed>>
      BY <1>7 DEF CommitNoShow, Commits
    <2>2. PICK charge \in BOOLEAN :
             booking' = [booking EXCEPT ![tx[t].s] = NoShowRow(tx[t], @, charge)]
      BY <1>7 DEF CommitNoShow
    <2>3. \A u \in Tx : tx'[u] = tx[u] \/ tx'[u] = Idle
      BY <2>1, CommitsEnds DEF ChargeInv
    <2>4. tx[t].s \in Students
      BY <2>1, CommitsEnds, TransactionFields DEF ChargeInv
    <2>5. booking[tx[t].s] \in Booking
      BY <2>4, BookingFields DEF ChargeInv
    <2>6. \/ NoShowRow(tx[t], booking[tx[t].s], charge).status = booking[tx[t].s].status
          \/ NoShowRow(tx[t], booking[tx[t].s], charge).status = "noShow"
      BY <2>5 DEF NoShowRow, Booking
    <2>7. Confirmed' \subseteq Confirmed
      BY <2>2, <2>4, <2>6 DEF Confirmed, Having, ChargeInv, ClassesTypeOK
    <2> QED
      BY <2>1, <2>3, <2>7, LeavingKeepsSeats
  <1>8. ASSUME NEW t \in Tx, CommitDeduction(t) PROVE SeatInv'
    <2>1. /\ Commits(t, "deduct", "locked")
          /\ UNCHANGED <<seats, raced, handed>>
          /\ booking' = [booking EXCEPT ![tx[t].s].deducted = TRUE]
      BY <1>8 DEF CommitDeduction, Commits
    <2>2. \A u \in Tx : tx'[u] = tx[u] \/ tx'[u] = Idle
      BY <2>1, CommitsEnds DEF ChargeInv
    <2>3. \A s \in Students : booking'[s].status = booking[s].status
      BY <2>1, BookingFields DEF ChargeInv, ClassesTypeOK, Booking
    <2>4. Confirmed' \subseteq Confirmed
      BY <2>3 DEF Confirmed, Having
    <2> QED
      BY <2>1, <2>2, <2>4, LeavingKeepsSeats
  <1>9. ASSUME NEW t \in Tx, Abort(t) PROVE SeatInv'
    <2>1. /\ tx' = [tx EXCEPT ![t] = Idle]
          /\ UNCHANGED <<booking, seats, raced, handed>>
      BY <1>9 DEF Abort, Becomes
    <2> QED
      BY <2>1, LeavingKeepsSeats DEF Confirmed, Having, ChargeInv, ClassesTypeOK
  <1>10. ASSUME NEW s \in Students, MarkAttended(s) PROVE SeatInv'
    <2>1. /\ booking' = [booking EXCEPT ![s].status = "attended", ![s].place = 0]
          /\ UNCHANGED <<seats, tx, raced, handed>>
      BY <1>10 DEF MarkAttended
    <2>2. \A r \in Students : booking'[r] = booking[r] \/ booking'[r].status = "attended"
      BY <2>1, BookingFields DEF ChargeInv, ClassesTypeOK, Booking
    <2>3. Confirmed' \subseteq Confirmed
      BY <2>2 DEF Confirmed, Having
    <2> QED
      BY <2>1, <2>3, LeavingKeepsSeats
  <1>11. ASSUME NEW s \in Students, ChargeLesson(s) PROVE SeatInv'
    BY <1>11, LeavingKeepsSeats DEF ChargeLesson, Confirmed, Having
  <1>12. CASE AutoCancelWaitlist
    <2>1. UNCHANGED <<seats, tx, raced, handed>>
      BY <1>12 DEF AutoCancelWaitlist
    <2>2. \A r \in Students : booking'[r] = booking[r] \/ booking'[r].status = "cancelled"
      BY <1>12, BookingFields DEF AutoCancelWaitlist, ChargeInv, Booking
    <2>3. Confirmed' \subseteq Confirmed
      BY <2>2 DEF Confirmed, Having
    <2> QED
      BY <2>1, <2>3, LeavingKeepsSeats
  <1> QED
    BY <1>1, <1>2, <1>3, <1>4, <1>5, <1>6, <1>7, <1>8, <1>9, <1>10, <1>11, <1>12
    DEF Next, Begins

(* Requests that come one after the other never seat more students than    *)
(* the class takes, unless the teacher promotes somebody by hand, whatever *)
(* becomes of the bookings while a request is under way.                   *)
THEOREM NotOverbookedInTurnCorrect == Spec => []NotOverbookedInTurn
  BY InitChargeInv, ChargeInvStep, InitSeatInv, SeatInvStep, SeatInvSuffices, PTL DEF Spec

==============================================================================
