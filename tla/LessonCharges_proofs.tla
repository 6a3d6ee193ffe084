------------------------ MODULE LessonCharges_proofs ------------------------
(***************************************************************************)
(* The properties of LessonCharges, for any number of lessons,             *)
(* subscriptions and requests.                                             *)
(*                                                                         *)
(* The row lock is what they rest on: at most one transaction holds the    *)
(* lock of a subscription, and whoever holds it knows the subscription's   *)
(* columns and the lesson's charges as they are.  Transactions that take   *)
(* no lock must not disturb that, which is so because an UPDATE waits for  *)
(* the lock.                                                               *)
(***************************************************************************)
EXTENDS LessonCharges, TLAPS, FiniteSetTheorems

(* Operations on a lesson, which work on the lesson's own subscription.    *)
LessonOps == {"status", "auto", "delete"}

Locked(t) == tx[t].stage = "locked"

SubIsOwn ==
    \A t \in Tx : tx[t] # Idle /\ tx[t].op \in LessonOps =>
        tx[t].sub = SubOf[tx[t].lesson]

Bounded ==
    /\ IsFiniteSet(rows)
    /\ \A t \in Tx : tx[t] # Idle =>
          /\ tx[t].used <= Capacity[tx[t].sub]
          /\ IsFiniteSet(tx[t].found)

Exclusive ==
    \A t, u \in Tx : Locked(t) /\ Locked(u) /\ tx[t].sub = tx[u].sub => t = u

ColumnsFresh ==
    \A t \in Tx : Locked(t) =>
        /\ tx[t].used = sub[tx[t].sub].used
        /\ tx[t].paid = sub[tx[t].sub].paid
        /\ \A r \in tx[t].found : r.lesson = tx[t].lesson

ChargesFresh ==
    \A t \in Tx : Locked(t) /\ tx[t].op \in LessonOps =>
        /\ tx[t].found \subseteq rows
        /\ \A r \in rows :
              r.kind = "server" /\ r.lesson = tx[t].lesson => r \in tx[t].found

LockInv ==
    /\ LedgerTypeOK
    /\ SubIsOwn
    /\ Bounded
    /\ Exclusive
    /\ ColumnsFresh
    /\ ChargesFresh

LedgerInv == LockInv /\ ServerChargesOnce

-----------------------------------------------------------------------------
(* Types *)

LEMMA IdleIsIdle == Idle.stage = "idle"
  BY DEF Idle

LEMMA TransactionFields ==
    ASSUME LedgerTypeOK, NEW t \in Tx, tx[t] # Idle
    PROVE  /\ tx[t] \in Transaction
           /\ tx[t].stage \in {"begun", "locked"}
           /\ tx[t].op \in Op
           /\ tx[t].lesson \in Lessons
           /\ tx[t].sub \in Subs
           /\ tx[t].seen \in LessonStatus
           /\ tx[t].target \in LessonStatus
           /\ tx[t].used \in Nat
           /\ tx[t].paid \in BOOLEAN
           /\ tx[t].found \in SUBSET Row
  <1>1. tx[t] \in Transaction
    BY DEF LedgerTypeOK
  <1> QED
    BY <1>1 DEF Transaction

LEMMA SubFields ==
    ASSUME LedgerTypeOK, NEW s \in Subs
    PROVE  /\ sub[s].used \in Nat
           /\ sub[s].paid \in BOOLEAN
           /\ sub[s].consumed \in BOOLEAN
           /\ sub[s].refunded \in BOOLEAN
           /\ sub[s].used <= Capacity[s]
           /\ Capacity[s] \in Nat
  BY ChargesAssumption DEF LedgerTypeOK, Sub

(* A row lock keeps every other transaction off its subscription.          *)
LEMMA HolderIsAlone ==
    ASSUME LockInv, NEW t \in Tx, Locked(t)
    PROVE  RowFree(t, tx[t].sub)
  BY DEF LockInv, Exclusive, RowFree, Locked

-----------------------------------------------------------------------------
(* What a commit may do to the ledger while others hold locks *)

LedgerTypes ==
    /\ lesson \in [Lessons -> LessonStatus]
    /\ sub \in [Subs -> Sub]
    /\ \A s \in Subs : sub[s].used <= Capacity[s]
    /\ rows \subseteq Row
    /\ post \in [Lessons -> {"none", "sent", "recorded"}]
    /\ corrected \in [Subs -> BOOLEAN]
    /\ IsFiniteSet(rows)

Disturbs(t) ==
    /\ \A s \in Subs :
          RowFree(t, s) \/ (sub'[s].used = sub[s].used /\ sub'[s].paid = sub[s].paid)
    /\ \A r \in rows' \ rows : r.kind = "server" => RowFree(t, SubOf[r.lesson])
    /\ \A r \in rows \ rows' : RowFree(t, SubOf[r.lesson])

LEMMA EndKeepsLockInv ==
    ASSUME LockInv, NEW t \in Tx, Ends(t), LedgerTypes', Disturbs(t)
    PROVE  LockInv'
  <1> USE DEF LockInv
  <1>1. /\ tx'[t] = Idle
        /\ \A u \in Tx : u # t => tx'[u] = tx[u]
        /\ tx' \in [Tx -> Transaction \cup {Idle}]
    BY DEF Ends, Becomes, LedgerTypeOK
  <1>2. \A u \in Tx : tx'[u] # Idle => u # t /\ tx'[u] = tx[u]
    BY <1>1
  <1>3. \A u \in Tx : Locked(u)' => u # t /\ tx'[u] = tx[u] /\ Locked(u) /\ tx[u] # Idle
    BY <1>1, IdleIsIdle DEF Locked
  <1>4. LedgerTypeOK'
    BY <1>1 DEF LedgerTypes, LedgerTypeOK
  <1>5. SubIsOwn'
    BY <1>2 DEF SubIsOwn
  <1>6. Bounded'
    BY <1>2 DEF Bounded, LedgerTypes
  <1>7. Exclusive'
    BY <1>3 DEF Exclusive
  <1>8. ColumnsFresh'
    <2> SUFFICES ASSUME NEW u \in Tx, Locked(u)'
                 PROVE  /\ tx'[u].used = sub'[tx'[u].sub].used
                        /\ tx'[u].paid = sub'[tx'[u].sub].paid
                        /\ \A r \in tx'[u].found : r.lesson = tx'[u].lesson
      BY DEF ColumnsFresh
    <2>1. u # t /\ tx'[u] = tx[u] /\ Locked(u) /\ tx[u] # Idle
      BY <1>3
    <2>2. tx[u].sub \in Subs
      BY <2>1, TransactionFields
    <2>3. ~RowFree(t, tx[u].sub)
      BY <2>1 DEF RowFree, Locked
    <2> QED
      BY <2>1, <2>2, <2>3 DEF ColumnsFresh, Disturbs
  <1>9. ChargesFresh'
    <2> SUFFICES ASSUME NEW u \in Tx, Locked(u)', tx'[u].op \in LessonOps
                 PROVE  /\ tx'[u].found \subseteq rows'
                        /\ \A r \in rows' :
                              r.kind = "server" /\ r.lesson = tx'[u].lesson => r \in tx'[u].found
      BY DEF ChargesFresh
    <2>1. u # t /\ tx'[u] = tx[u] /\ Locked(u) /\ tx[u] # Idle
      BY <1>3
    <2>2. ~RowFree(t, SubOf[tx[u].lesson])
      BY <2>1 DEF RowFree, Locked, SubIsOwn
    <2>3. \A r \in tx[u].found : r \in rows /\ r.lesson = tx[u].lesson
      BY <2>1 DEF ColumnsFresh, ChargesFresh
    <2> QED
      BY <2>1, <2>2, <2>3 DEF ChargesFresh, Disturbs
  <1> QED
    BY <1>4, <1>5, <1>6, <1>7, <1>8, <1>9

-----------------------------------------------------------------------------
(* Starting, and locking *)

LEMMA InitLedgerInv == Init => LedgerInv
  <1> SUFFICES ASSUME Init PROVE LedgerInv
    OBVIOUS
  <1>1. \A t \in Tx : tx[t] = Idle /\ ~Locked(t)
    BY IdleIsIdle DEF Init, Locked
  <1>2. LedgerTypeOK
    BY ChargesAssumption DEF Init, LedgerTypeOK, LessonStatus, Status, Sub
  <1>3. Bounded
    BY <1>1, FS_EmptySet DEF Init, Bounded
  <1>4. ServerChargesOnce
    BY DEF Init, ServerChargesOnce
  <1> QED
    BY <1>1, <1>2, <1>3, <1>4
    DEF LedgerInv, LockInv, SubIsOwn, Exclusive, ColumnsFresh, ChargesFresh

LEMMA BeginKeepsLockInv ==
    ASSUME LockInv, NEW t \in Tx, NEW op \in Op, NEW l \in Lessons, NEW s \in Subs,
           NEW seen \in LessonStatus, NEW target \in LessonStatus,
           NEW used \in Nat, used <= Capacity[s],
           op \in LessonOps => s = SubOf[l],
           Begin(t, op, l, s, seen, target, used)
    PROVE  LockInv'
  <1> USE DEF LockInv
  <1> DEFINE q == [stage |-> "begun", op |-> op, lesson |-> l, sub |-> s,
                   seen |-> seen, target |-> target,
                   used |-> used, paid |-> FALSE, found |-> {}]
  <1>1. /\ q \in Transaction
        /\ q.stage = "begun" /\ q.op = op /\ q.lesson = l /\ q.sub = s
        /\ q.used = used /\ q.found = {}
    BY DEF Transaction
  <1>2. tx' = [tx EXCEPT ![t] = q] /\ UNCHANGED <<lesson, sub, rows, post, corrected>>
    BY DEF Begin, Becomes
  <1> HIDE DEF q
  <1>3. /\ tx'[t] = q
        /\ \A u \in Tx : u # t => tx'[u] = tx[u]
        /\ tx' \in [Tx -> Transaction \cup {Idle}]
    BY <1>1, <1>2 DEF LedgerTypeOK
  <1>4. \A u \in Tx : Locked(u)' => u # t /\ tx'[u] = tx[u] /\ Locked(u)
    BY <1>1, <1>3 DEF Locked
  <1>5. LedgerTypeOK'
    BY <1>2, <1>3 DEF LedgerTypeOK
  <1>6. SubIsOwn'
    BY <1>1, <1>3 DEF SubIsOwn
  <1>7. Bounded'
    BY <1>1, <1>2, <1>3, FS_EmptySet DEF Bounded
  <1>8. Exclusive'
    BY <1>4 DEF Exclusive
  <1>9. ColumnsFresh'
    BY <1>2, <1>4 DEF ColumnsFresh
  <1>10. ChargesFresh'
    BY <1>2, <1>4 DEF ChargesFresh
  <1> QED
    BY <1>5, <1>6, <1>7, <1>8, <1>9, <1>10

LEMMA BeginsStep ==
    ASSUME LockInv, NEW t \in Tx, Begins(t)
    PROVE  LockInv' /\ UNCHANGED <<lesson, sub, rows>>
  <1> USE DEF LockInv
  <1>1. PICK l \in Lessons :
           \/ UpdateStatus(t, l) \/ AutoComplete(t, l) \/ DeleteLesson(t, l)
           \/ \E s \in Subs : AddUsage(t, l, s) \/ DeductLesson(t, l, s)
           \/ ConfirmPayment(t, l) \/ UndoConfirmPayment(t, l)
           \/ CompleteRefund(t, l) \/ UpdateSubscription(t, l)
    BY DEF Begins
  <1>2. /\ lesson[l] \in LessonStatus
        /\ SubOf[l] \in Subs
        /\ \A s \in Subs : Capacity[s] \in Nat
        /\ sub[SubOf[l]].used \in Nat
        /\ sub[SubOf[l]].used <= Capacity[SubOf[l]]
    BY ChargesAssumption, SubFields DEF LedgerTypeOK
  <1>3. \A op \in Op, s \in Subs, seen \in LessonStatus, target \in LessonStatus, used \in Nat :
           /\ used <= Capacity[s]
           /\ op \in LessonOps => s = SubOf[l]
           /\ Begin(t, op, l, s, seen, target, used)
           => LockInv' /\ UNCHANGED <<lesson, sub, rows>>
    BY BeginKeepsLockInv DEF Begin
  <1>4. "scheduled" \in LessonStatus /\ "completed" \in LessonStatus /\ "deleted" \in LessonStatus
    BY DEF LessonStatus, Status
  <1>5. \A op \in Op, target \in LessonStatus :
           BeginLesson(t, op, l, target) => LockInv' /\ UNCHANGED <<lesson, sub, rows>>
    BY <1>2, <1>3 DEF BeginLesson
  <1>6. \A op \in Op \ LessonOps, s \in Subs :
           BeginSub(t, op, l, s) => LockInv' /\ UNCHANGED <<lesson, sub, rows>>
    BY <1>2, <1>3, <1>4 DEF BeginSub
  <1>7. \A op \in Op \ LessonOps :
           BeginWrite(t, op, l) => LockInv' /\ UNCHANGED <<lesson, sub, rows>>
    BY <1>2, <1>3, <1>4 DEF BeginWrite
  <1>8. CASE UpdateStatus(t, l)
    <2>1. \A target \in Status : Verdicts(target) \subseteq LessonStatus
      BY DEF Verdicts, Status, LessonStatus
    <2> QED
      BY <1>5, <1>8, <2>1 DEF UpdateStatus, Op
  <1>9. CASE AutoComplete(t, l)
    BY <1>4, <1>5, <1>9 DEF AutoComplete, Op
  <1>10. CASE DeleteLesson(t, l)
    BY <1>4, <1>5, <1>10 DEF DeleteLesson, Op
  <1>11. CASE \E s \in Subs : AddUsage(t, l, s) \/ DeductLesson(t, l, s)
    BY <1>6, <1>11 DEF AddUsage, DeductLesson, Op, LessonOps
  <1>12. CASE ConfirmPayment(t, l) \/ UndoConfirmPayment(t, l)
    BY <1>2, <1>6, <1>12 DEF ConfirmPayment, UndoConfirmPayment, Op, LessonOps
  <1>13. CASE CompleteRefund(t, l) \/ UpdateSubscription(t, l)
    BY <1>7, <1>13 DEF CompleteRefund, UpdateSubscription, Op, LessonOps
  <1> QED
    BY <1>1, <1>8, <1>9, <1>10, <1>11, <1>12, <1>13

LEMMA LockStep ==
    ASSUME LockInv, NEW t \in Tx, Lock(t)
    PROVE  LockInv' /\ UNCHANGED <<lesson, sub, rows>>
  <1> USE DEF LockInv
  <1>1. tx[t] # Idle /\ RowFree(t, tx[t].sub) /\ UNCHANGED <<lesson, sub, rows, post, corrected>>
    BY DEF Lock
  <1> DEFINE q == Reads(tx[t])
  <1>2. tx[t].sub \in Subs
    BY <1>1, TransactionFields
  <1>3. /\ RowsOf(tx[t].lesson) \subseteq rows
        /\ \A r \in RowsOf(tx[t].lesson) : r.lesson = tx[t].lesson
        /\ \A r \in rows : r.lesson = tx[t].lesson => r \in RowsOf(tx[t].lesson)
    BY DEF RowsOf
  <1>4. /\ q \in Transaction
        /\ q.stage = "locked" /\ q.op = tx[t].op
        /\ q.lesson = tx[t].lesson /\ q.sub = tx[t].sub
        /\ q.used = sub[tx[t].sub].used /\ q.paid = sub[tx[t].sub].paid
        /\ q.found = RowsOf(tx[t].lesson)
    <2>1. /\ tx[t] \in Transaction
          /\ sub[tx[t].sub].used \in Nat /\ sub[tx[t].sub].paid \in BOOLEAN
          /\ RowsOf(tx[t].lesson) \in SUBSET Row
      BY <1>1, <1>2, <1>3, TransactionFields, SubFields DEF LedgerTypeOK
    <2> QED
      BY <2>1 DEF Reads, Transaction
  <1>5. tx' = [tx EXCEPT ![t] = q]
    BY DEF Lock, Becomes
  <1> HIDE DEF q
  <1>6. /\ tx'[t] = q
        /\ \A u \in Tx : u # t => tx'[u] = tx[u]
        /\ tx' \in [Tx -> Transaction \cup {Idle}]
    BY <1>4, <1>5 DEF LedgerTypeOK
  <1>7. LedgerTypeOK'
    BY <1>1, <1>6 DEF LedgerTypeOK
  <1>8. SubIsOwn'
    BY <1>1, <1>4, <1>6 DEF SubIsOwn
  <1>9. Bounded'
    <2>1. sub[tx[t].sub].used <= Capacity[tx[t].sub]
      BY <1>2, SubFields
    <2>2. IsFiniteSet(RowsOf(tx[t].lesson))
      BY <1>3, FS_Subset DEF Bounded
    <2> QED
      BY <1>1, <1>4, <1>6, <2>1, <2>2 DEF Bounded
  <1>10. Exclusive'
    BY <1>1, <1>4, <1>6 DEF Exclusive, RowFree, Locked
  <1>11. ColumnsFresh'
    BY <1>1, <1>3, <1>4, <1>6 DEF ColumnsFresh, Locked
  <1>12. ChargesFresh'
    BY <1>1, <1>3, <1>4, <1>6 DEF ChargesFresh, Locked
  <1> QED
    BY <1>1, <1>7, <1>8, <1>9, <1>10, <1>11, <1>12

-----------------------------------------------------------------------------
(* Committing *)

(* What Records does to the ledger.                                        *)
LEMMA RecordsEffect ==
    ASSUME LockInv, NEW q \in Transaction, NEW kind \in Kind, Records(q, kind)
    PROVE  /\ sub' \in [Subs -> Sub]
           /\ \A s \in Subs : sub'[s].used <= Capacity[s] /\ sub'[s].paid = sub[s].paid
           /\ \A s \in Subs : s # q.sub => sub'[s] = sub[s]
           /\ sub'[q.sub].used = q.used + 1
           /\ \E r \in Row : /\ rows' = rows \cup {r} /\ r \notin rows
                             /\ r.lesson = q.lesson /\ r.sub = q.sub /\ r.kind = kind
           /\ IsFiniteSet(rows')
  <1> USE DEF LockInv
  <1>1. q.sub \in Subs /\ q.lesson \in Lessons /\ q.used \in Nat
    BY DEF Transaction
  <1>2. /\ q.used < Capacity[q.sub]
        /\ sub' = [sub EXCEPT ![q.sub].used = q.used + 1, ![q.sub].consumed = TRUE]
    BY DEF Records
  <1>3. Capacity[q.sub] \in Nat /\ sub \in [Subs -> Sub]
    BY <1>1, SubFields DEF LedgerTypeOK
  <1>4. /\ sub'[q.sub] = [sub[q.sub] EXCEPT !.used = q.used + 1, !.consumed = TRUE]
        /\ sub' = [sub EXCEPT ![q.sub] = [sub[q.sub] EXCEPT !.used = q.used + 1, !.consumed = TRUE]]
    BY <1>1, <1>2, <1>3
  <1> DEFINE c == [sub[q.sub] EXCEPT !.used = q.used + 1, !.consumed = TRUE]
  <1>5. c \in Sub /\ c.used = q.used + 1 /\ c.paid = sub[q.sub].paid
    <2>1. \A o \in Sub, n \in Nat :
             LET d == [o EXCEPT !.used = n, !.consumed = TRUE]
             IN  d \in Sub /\ d.used = n /\ d.paid = o.paid
      BY DEF Sub
    <2>2. sub[q.sub] \in Sub /\ q.used + 1 \in Nat
      BY <1>1, <1>3
    <2> QED
      BY <2>1, <2>2
  <1>6. sub' = [sub EXCEPT ![q.sub] = c]
    BY <1>4
  <1> HIDE DEF c
  <1>7. PICK id \in Usages \ {r.id : r \in rows} :
           rows' = rows \cup {[id |-> id, lesson |-> q.lesson, sub |-> q.sub, kind |-> kind]}
    BY DEF Records
  <1> DEFINE n == [id |-> id, lesson |-> q.lesson, sub |-> q.sub, kind |-> kind]
  <1>8. n \in Row /\ n.id = id /\ n.lesson = q.lesson /\ n.sub = q.sub /\ n.kind = kind
    BY <1>1 DEF Row
  <1>9. rows' = rows \cup {n}
    BY <1>7
  <1> HIDE DEF n
  <1>10. n \notin rows
    BY <1>7, <1>8
  <1>11. IsFiniteSet(rows')
    BY <1>9, FS_AddElement DEF Bounded
  <1>12. \A s \in Subs : s # q.sub => sub'[s] = sub[s]
    BY <1>3, <1>6
  <1>13. sub' \in [Subs -> Sub] /\ sub'[q.sub] = c
    BY <1>1, <1>3, <1>5, <1>6
  <1>14. \A s \in Subs : sub'[s].used <= Capacity[s] /\ sub'[s].paid = sub[s].paid
    <2> TAKE s \in Subs
    <2>1. CASE s = q.sub
      BY <1>1, <1>2, <1>3, <1>5, <1>13, <2>1
    <2>2. CASE s # q.sub
      BY <1>12, <2>2, SubFields
    <2> QED
      BY <2>1, <2>2
  <1>15. \E r \in Row : /\ rows' = rows \cup {r} /\ r \notin rows
                        /\ r.lesson = q.lesson /\ r.sub = q.sub /\ r.kind = kind
    BY <1>8, <1>9, <1>10, Zenon
  <1>16. sub'[q.sub].used = q.used + 1
    BY <1>5, <1>13
  <1> QED
    BY <1>11, <1>12, <1>13, <1>14, <1>15, <1>16, Zenon

(* What Release does to the ledger.                                        *)
LEMMA ReleaseEffect ==
    ASSUME LockInv, NEW t \in Tx, tx[t] # Idle, Locked(t), Release(tx[t])
    PROVE  LET gone == {r \in tx[t].found : r.kind \in Deducted}
           IN  /\ sub' \in [Subs -> Sub]
               /\ \A s \in Subs : sub'[s].used <= Capacity[s] /\ sub'[s].paid = sub[s].paid
               /\ \A s \in Subs : s # tx[t].sub => sub'[s] = sub[s]
               /\ rows' = rows \ gone
               /\ \A r \in gone : r.lesson = tx[t].lesson
               /\ IsFiniteSet(gone)
               /\ IsFiniteSet(rows')
  <1> USE DEF LockInv
  <1> DEFINE q == tx[t]
             gone == {r \in q.found : r.kind \in Deducted}
             left == q.used - Cardinality(gone)
             value == IF gone = {} THEN sub[q.sub].used ELSE IF left < 0 THEN 0 ELSE left
             c == [sub[q.sub] EXCEPT !.used = value]
  <1>1. q.sub \in Subs /\ q.used \in Nat /\ q.used <= Capacity[q.sub]
    BY TransactionFields DEF Bounded
  <1>2. gone \subseteq q.found /\ IsFiniteSet(gone) /\ Cardinality(gone) \in Nat
    BY FS_Subset, FS_CardinalityType DEF Bounded
  <1>3. /\ sub \in [Subs -> Sub]
        /\ Capacity[q.sub] \in Nat
        /\ sub[q.sub].used \in Nat /\ sub[q.sub].used <= Capacity[q.sub]
    BY <1>1, SubFields DEF LedgerTypeOK
  <1>4. left <= q.used /\ left \in Int
    BY <1>1, <1>2
  <1>5. value \in Nat /\ value <= Capacity[q.sub]
    BY <1>1, <1>3, <1>4
  <1>6. rows' = rows \ gone /\ sub' = [sub EXCEPT ![q.sub].used = value]
    BY DEF Release
  <1> HIDE DEF value, gone
  <1>7. c \in Sub /\ c.used = value /\ c.paid = sub[q.sub].paid
    BY <1>1, <1>3, <1>5 DEF Sub
  <1>8. sub' = [sub EXCEPT ![q.sub] = c]
    BY <1>1, <1>3, <1>6
  <1> HIDE DEF c
  <1>9. sub' \in [Subs -> Sub] /\ sub'[q.sub] = c
    BY <1>1, <1>3, <1>7, <1>8
  <1>10. \A s \in Subs : s # q.sub => sub'[s] = sub[s]
    BY <1>3, <1>8
  <1>11. \A s \in Subs : sub'[s].used <= Capacity[s] /\ sub'[s].paid = sub[s].paid
    <2> TAKE s \in Subs
    <2>1. CASE s = q.sub
      BY <1>5, <1>7, <1>9, <2>1
    <2>2. CASE s # q.sub
      BY <1>10, <2>2, SubFields
    <2> QED
      BY <2>1, <2>2
  <1>12. IsFiniteSet(rows')
    BY <1>6, FS_Subset DEF Bounded
  <1>13. \A r \in gone : r.lesson = q.lesson
    BY <1>2 DEF ColumnsFresh
  <1> QED
    BY <1>2, <1>6, <1>9, <1>10, <1>11, <1>12, <1>13 DEF gone

(* A row with the lock of its own subscription disturbs nobody.            *)
LEMMA RecordsSafe ==
    ASSUME LockInv, NEW t \in Tx, Locked(t), tx[t] # Idle, NEW kind \in Kind,
           Records(tx[t], kind), kind = "server" => tx[t].sub = SubOf[tx[t].lesson],
           lesson' \in [Lessons -> LessonStatus],
           post' \in [Lessons -> {"none", "sent", "recorded"}], UNCHANGED corrected
    PROVE  LedgerTypes' /\ Disturbs(t)
  <1> USE DEF LockInv
  <1>1. tx[t] \in Transaction /\ tx[t].sub \in Subs
    BY TransactionFields
  <1>2. RowFree(t, tx[t].sub)
    BY HolderIsAlone
  <1>3. /\ sub' \in [Subs -> Sub]
        /\ \A s \in Subs : sub'[s].used <= Capacity[s] /\ sub'[s].paid = sub[s].paid
        /\ \A s \in Subs : s # tx[t].sub => sub'[s] = sub[s]
        /\ \E r \in Row : /\ rows' = rows \cup {r} /\ r \notin rows
                          /\ r.lesson = tx[t].lesson /\ r.sub = tx[t].sub /\ r.kind = kind
        /\ IsFiniteSet(rows')
    BY <1>1, RecordsEffect
  <1>4. LedgerTypes'
    BY <1>3 DEF LedgerTypes, LedgerTypeOK
  <1>5. Disturbs(t)
    BY <1>2, <1>3 DEF Disturbs
  <1> QED
    BY <1>4, <1>5

LEMMA ReleaseSafe ==
    ASSUME LockInv, NEW t \in Tx, Locked(t), tx[t] # Idle, tx[t].op \in LessonOps,
           Release(tx[t]), lesson' \in [Lessons -> LessonStatus], UNCHANGED <<post, corrected>>
    PROVE  LedgerTypes' /\ Disturbs(t)
  <1> USE DEF LockInv
  <1> DEFINE gone == {r \in tx[t].found : r.kind \in Deducted}
  <1>1. RowFree(t, tx[t].sub) /\ tx[t].sub = SubOf[tx[t].lesson]
    BY HolderIsAlone DEF SubIsOwn
  <1>2. /\ sub' \in [Subs -> Sub]
        /\ \A s \in Subs : sub'[s].used <= Capacity[s] /\ sub'[s].paid = sub[s].paid
        /\ \A s \in Subs : s # tx[t].sub => sub'[s] = sub[s]
        /\ rows' = rows \ gone
        /\ \A r \in gone : r.lesson = tx[t].lesson
        /\ IsFiniteSet(rows')
    BY ReleaseEffect
  <1> HIDE DEF gone
  <1>3. LedgerTypes'
    BY <1>2 DEF LedgerTypes, LedgerTypeOK
  <1>4. Disturbs(t)
    BY <1>1, <1>2 DEF Disturbs
  <1> QED
    BY <1>3, <1>4

LEMMA NoChargeSafe ==
    ASSUME LockInv, NEW t \in Tx, UNCHANGED <<sub, rows, corrected>>,
           lesson' \in [Lessons -> LessonStatus], post' = post
    PROVE  LedgerTypes' /\ Disturbs(t)
  BY DEF LockInv, LedgerTypes, LedgerTypeOK, Bounded, Disturbs

(* The three things a change of a lesson's status can come to.             *)
LEMMA LessonCommit ==
    ASSUME LockInv, NEW t \in Tx, tx[t] # Idle, tx[t].op \in LessonOps,
           Ends(t), lesson' \in [Lessons -> LessonStatus], UNCHANGED <<post, corrected>>,
           \/ Locked(t) /\ Charge(tx[t])
           \/ Locked(t) /\ Release(tx[t])
           \/ NoCharge
    PROVE  LockInv'
  <1>1. tx[t].sub = SubOf[tx[t].lesson]
    BY DEF LockInv, SubIsOwn
  <1>2. CASE Locked(t) /\ Charge(tx[t]) /\ Chargeable(tx[t])
    <2>1. Records(tx[t], "server") /\ "server" \in Kind
      BY <1>2 DEF Charge, Kind
    <2>2. post' \in [Lessons -> {"none", "sent", "recorded"}] /\ UNCHANGED corrected
      BY DEF LockInv, LedgerTypeOK
    <2>3. LedgerTypes' /\ Disturbs(t)
      BY <1>1, <1>2, <2>1, <2>2, RecordsSafe
    <2> QED
      BY <2>3, EndKeepsLockInv
  <1>3. CASE Locked(t) /\ Release(tx[t])
    BY <1>3, ReleaseSafe, EndKeepsLockInv
  <1>4. CASE NoCharge
    BY <1>4, NoChargeSafe, EndKeepsLockInv DEF NoCharge
  <1> QED
    BY <1>2, <1>3, <1>4 DEF Charge

(* The last parts of the actions, by what they take from the transaction.  *)
LEMMA WritesType ==
    ASSUME LockInv, NEW t \in Tx, tx[t] # Idle, Writes(tx[t])
    PROVE  lesson' \in [Lessons -> LessonStatus]
  BY TransactionFields DEF LockInv, LedgerTypeOK, Writes

LEMMA CommitStatusInv ==
    ASSUME LockInv, NEW t \in Tx, CommitStatus(t)
    PROVE  LockInv'
  <1>1. /\ tx[t] # Idle /\ tx[t].op = "status" /\ Ends(t) /\ Writes(tx[t])
        /\ NeedsLock(tx[t]) => Locked(t)
        /\ UNCHANGED <<post, corrected>>
    BY DEF CommitStatus, Ready, Locked
  <1>2. \/ Charges(tx[t]) /\ Charge(tx[t])
        \/ Releases(tx[t]) /\ Release(tx[t])
        \/ NoCharge
    BY DEF CommitStatus
  <1>3. tx[t].op \in LessonOps
    BY <1>1 DEF LessonOps
  <1> QED
    BY <1>1, <1>2, <1>3, WritesType, LessonCommit DEF NeedsLock

LEMMA CommitAutoInv ==
    ASSUME LockInv, NEW t \in Tx, CommitAuto(t)
    PROVE  LockInv'
  <1>1. /\ tx[t] # Idle /\ tx[t].op = "auto" /\ Ends(t) /\ Writes(tx[t]) /\ Charge(tx[t])
        /\ NeedsLock(tx[t]) => Locked(t)
        /\ UNCHANGED <<post, corrected>>
    BY DEF CommitAuto, Ready, Locked
  <1>2. tx[t].op \in LessonOps /\ Locked(t)
    BY <1>1 DEF LessonOps, NeedsLock, Charges
  <1> QED
    BY <1>1, <1>2, WritesType, LessonCommit

LEMMA CommitDeleteInv ==
    ASSUME LockInv, NEW t \in Tx, CommitDelete(t)
    PROVE  LockInv'
  <1>1. /\ tx[t] # Idle /\ tx[t].op = "delete" /\ Ends(t)
        /\ NeedsLock(tx[t]) => Locked(t)
        /\ lesson' = [lesson EXCEPT ![tx[t].lesson] = "deleted"]
        /\ (Releases(tx[t]) /\ Release(tx[t])) \/ NoCharge
        /\ UNCHANGED <<post, corrected>>
    BY DEF CommitDelete, Ready, Locked
  <1>2. lesson' \in [Lessons -> LessonStatus] /\ tx[t].op \in LessonOps
    BY <1>1 DEF LockInv, LedgerTypeOK, LessonStatus, LessonOps
  <1> QED
    BY <1>1, <1>2, LessonCommit DEF NeedsLock

LEMMA CommitUsageInv ==
    ASSUME LockInv, NEW t \in Tx, CommitUsage(t)
    PROVE  LockInv'
  <1>1. /\ tx[t] # Idle /\ tx[t].op = "usage" /\ Ends(t) /\ Records(tx[t], "app")
        /\ NeedsLock(tx[t]) => Locked(t)
        /\ post' = [post EXCEPT ![tx[t].lesson] = "recorded"]
        /\ UNCHANGED <<lesson, corrected>>
    BY DEF CommitUsage, Ready, Locked
  <1>2. Locked(t) /\ "app" \in Kind /\ "app" # "server"
    BY <1>1 DEF NeedsLock, Kind
  <1>3. /\ lesson' \in [Lessons -> LessonStatus]
        /\ post' \in [Lessons -> {"none", "sent", "recorded"}]
    BY <1>1 DEF LockInv, LedgerTypeOK
  <1>4. LedgerTypes' /\ Disturbs(t)
    BY <1>1, <1>2, <1>3, RecordsSafe
  <1> QED
    BY <1>1, <1>4, EndKeepsLockInv

LEMMA CommitDeductInv ==
    ASSUME LockInv, NEW t \in Tx, CommitDeduct(t)
    PROVE  LockInv'
  <1>1. /\ tx[t] # Idle /\ tx[t].op = "deduct" /\ Ends(t)
        /\ NeedsLock(tx[t]) => Locked(t)
        /\ UNCHANGED <<lesson, post, corrected>>
    BY DEF CommitDeduct, Ready, Locked
  <1>2. PICK kind \in {"manual", "history"} : Records(tx[t], kind)
    BY DEF CommitDeduct
  <1>3. Locked(t) /\ kind \in Kind /\ kind # "server"
    BY <1>1 DEF NeedsLock, Kind
  <1>4. /\ lesson' \in [Lessons -> LessonStatus]
        /\ post' \in [Lessons -> {"none", "sent", "recorded"}]
    BY <1>1 DEF LockInv, LedgerTypeOK
  <1>5. LedgerTypes' /\ Disturbs(t)
    BY <1>1, <1>2, <1>3, <1>4, RecordsSafe
  <1> QED
    BY <1>1, <1>5, EndKeepsLockInv

(* A change of one subscription's columns that found its row free.         *)
LEMMA ColumnChange ==
    ASSUME LockInv, NEW t \in Tx, tx[t] # Idle, Ends(t), RowFree(t, tx[t].sub),
           NEW c \in Sub, c.used <= Capacity[tx[t].sub],
           sub' = [sub EXCEPT ![tx[t].sub] = c],
           lesson' \in [Lessons -> LessonStatus], corrected' \in [Subs -> BOOLEAN],
           UNCHANGED <<rows, post>>
    PROVE  LockInv'
  <1> USE DEF LockInv
  <1>1. tx[t].sub \in Subs /\ sub \in [Subs -> Sub]
    BY TransactionFields DEF LedgerTypeOK
  <1>2. /\ sub' \in [Subs -> Sub] /\ sub'[tx[t].sub] = c
        /\ \A s \in Subs : s # tx[t].sub => sub'[s] = sub[s]
    BY <1>1
  <1>3. LedgerTypes'
    BY <1>2 DEF LedgerTypes, LedgerTypeOK, Bounded
  <1>4. Disturbs(t)
    BY <1>2 DEF Disturbs
  <1> QED
    BY <1>3, <1>4, EndKeepsLockInv

LEMMA CommitConfirmInv ==
    ASSUME LockInv, NEW t \in Tx, CommitConfirm(t)
    PROVE  LockInv'
  <1> USE DEF LockInv
  <1>1. /\ tx[t] # Idle /\ tx[t].op = "confirm" /\ Ends(t)
        /\ NeedsLock(tx[t]) => Locked(t)
        /\ sub' = [sub EXCEPT ![tx[t].sub].paid = TRUE]
        /\ UNCHANGED <<lesson, rows, post, corrected>>
    BY DEF CommitConfirm, Ready, Locked
  <1>2. RowFree(t, tx[t].sub)
    BY <1>1, HolderIsAlone DEF NeedsLock
  <1>3. tx[t].sub \in Subs /\ sub[tx[t].sub] \in Sub
    BY <1>1, TransactionFields DEF LedgerTypeOK
  <1> DEFINE c == [sub[tx[t].sub] EXCEPT !.paid = TRUE]
  <1>4. c \in Sub /\ c.used <= Capacity[tx[t].sub]
    BY <1>3, SubFields DEF Sub
  <1>5. sub' = [sub EXCEPT ![tx[t].sub] = c]
    BY <1>1, <1>3
  <1> HIDE DEF c
  <1>6. lesson' \in [Lessons -> LessonStatus] /\ corrected' \in [Subs -> BOOLEAN]
    BY <1>1 DEF LedgerTypeOK
  <1> QED
    BY <1>1, <1>2, <1>4, <1>5, <1>6, ColumnChange

LEMMA CommitUndoInv ==
    ASSUME LockInv, NEW t \in Tx, CommitUndo(t)
    PROVE  LockInv'
  <1> USE DEF LockInv
  <1>1. /\ tx[t] # Idle /\ Ends(t) /\ RowFree(t, tx[t].sub)
        /\ sub' = [sub EXCEPT ![tx[t].sub].paid = FALSE]
        /\ UNCHANGED <<rows, post, corrected>>
    BY DEF CommitUndo, Ready
  <1>2. lesson' \in [Lessons -> LessonStatus]
    BY DEF CommitUndo, LedgerTypeOK, LessonStatus, Status
  <1>3. tx[t].sub \in Subs /\ sub[tx[t].sub] \in Sub
    BY <1>1, TransactionFields DEF LedgerTypeOK
  <1> DEFINE c == [sub[tx[t].sub] EXCEPT !.paid = FALSE]
  <1>4. c \in Sub /\ c.used <= Capacity[tx[t].sub]
    BY <1>3, SubFields DEF Sub
  <1>5. sub' = [sub EXCEPT ![tx[t].sub] = c]
    BY <1>1, <1>3
  <1> HIDE DEF c
  <1>6. corrected' \in [Subs -> BOOLEAN]
    BY <1>1 DEF LedgerTypeOK
  <1> QED
    BY <1>1, <1>2, <1>4, <1>5, <1>6, ColumnChange

LEMMA SetsUsedInv ==
    ASSUME LockInv, NEW t \in Tx, tx[t] # Idle, Ends(t),
           NEW value \in Nat, value <= Capacity[tx[t].sub], NEW refunded \in BOOLEAN,
           SetsUsed(t, value, refunded)
    PROVE  LockInv'
  <1> USE DEF LockInv
  <1> DEFINE s == tx[t].sub
             used == IF value = tx[t].used THEN sub[s].used ELSE value
             c == [sub[s] EXCEPT !.used = used, !.refunded = sub[s].refunded \/ refunded]
  <1>1. s \in Subs /\ sub \in [Subs -> Sub] /\ sub[s].used <= Capacity[s]
    BY TransactionFields DEF LedgerTypeOK
  <1>2. /\ RowFree(t, s)
        /\ sub' = [sub EXCEPT ![s].used = used, ![s].refunded = @ \/ refunded]
        /\ corrected' = [corrected EXCEPT ![s] = TRUE]
        /\ UNCHANGED <<lesson, rows, post>>
    BY DEF SetsUsed
  <1>3. used \in Nat /\ used <= Capacity[s]
    BY <1>1 DEF Sub
  <1>4. sub' = [sub EXCEPT ![s] = c]
    BY <1>1, <1>2
  <1> HIDE DEF used
  <1>5. c \in Sub /\ c.used = used
    <2>1. \A o \in Sub, n \in Nat, b \in BOOLEAN :
             LET d == [o EXCEPT !.used = n, !.refunded = o.refunded \/ b]
             IN  d \in Sub /\ d.used = n
      BY DEF Sub
    <2>2. sub[s] \in Sub
      BY <1>1
    <2> QED
      BY <1>3, <2>1, <2>2
  <1> HIDE DEF c
  <1>6. lesson' \in [Lessons -> LessonStatus] /\ corrected' \in [Subs -> BOOLEAN]
    BY <1>2 DEF LedgerTypeOK
  <1> QED
    BY <1>2, <1>3, <1>4, <1>5, <1>6, ColumnChange

LEMMA CommitRefundInv ==
    ASSUME LockInv, NEW t \in Tx, CommitRefund(t)
    PROVE  LockInv'
  <1>1. tx[t] # Idle /\ Ends(t) /\ SetsUsed(t, Capacity[tx[t].sub], TRUE)
    BY DEF CommitRefund, Ready
  <1> DEFINE value == Capacity[tx[t].sub]
  <1>2. value \in Nat /\ value <= Capacity[tx[t].sub] /\ TRUE \in BOOLEAN
    BY <1>1, TransactionFields, ChargesAssumption DEF LockInv
  <1> HIDE DEF value
  <1>3. SetsUsed(t, value, TRUE)
    BY <1>1 DEF value
  <1> QED
    BY <1>1, <1>2, <1>3, SetsUsedInv

LEMMA CommitUpdateInv ==
    ASSUME LockInv, NEW t \in Tx, CommitUpdate(t)
    PROVE  LockInv'
  <1>1. tx[t] # Idle /\ Ends(t)
    BY DEF CommitUpdate, Ready
  <1>2. PICK value \in 0 .. Capacity[tx[t].sub] : SetsUsed(t, value, FALSE)
    BY DEF CommitUpdate
  <1>3. Capacity[tx[t].sub] \in Nat
    BY <1>1, TransactionFields, ChargesAssumption DEF LockInv
  <1>4. value \in Nat /\ value <= Capacity[tx[t].sub]
    BY <1>3
  <1> QED
    BY <1>1, <1>2, <1>4, SetsUsedInv

LEMMA AbortInv ==
    ASSUME LockInv, NEW t \in Tx, Abort(t)
    PROVE  LockInv' /\ UNCHANGED <<lesson, sub, rows>>
  <1>1. Ends(t) /\ UNCHANGED <<lesson, sub, rows, post, corrected>>
    BY DEF Abort
  <1>2. lesson' \in [Lessons -> LessonStatus]
    BY <1>1 DEF LockInv, LedgerTypeOK
  <1> QED
    BY <1>1, <1>2, NoChargeSafe, EndKeepsLockInv

LEMMA PostUsageInv ==
    ASSUME LockInv, NEW l \in Lessons, PostUsage(l)
    PROVE  LockInv' /\ UNCHANGED <<lesson, sub, rows>>
  <1>1. post' = [post EXCEPT ![l] = "sent"] /\ UNCHANGED <<lesson, sub, rows, tx, corrected>>
    BY DEF PostUsage
  <1>2. LedgerTypeOK'
    BY <1>1 DEF LockInv, LedgerTypeOK
  <1> QED
    BY <1>1, <1>2
    DEF LockInv, SubIsOwn, Bounded, Exclusive, ColumnsFresh, ChargesFresh, Locked

LEMMA LockInvStep == LockInv /\ [Next]_vars => LockInv'
  <1> SUFFICES ASSUME LockInv, [Next]_vars PROVE LockInv'
    OBVIOUS
  <1>1. CASE \E l \in Lessons : PostUsage(l)
    BY <1>1, PostUsageInv
  <1>2. ASSUME NEW t \in Tx, Begins(t) \/ Lock(t) \/ Commits(t) \/ Abort(t)
        PROVE  LockInv'
    <2>1. CASE Begins(t)
      BY <2>1, BeginsStep
    <2>2. CASE Lock(t)
      BY <2>2, LockStep
    <2>3. CASE Commits(t)
      BY <2>3, CommitStatusInv, CommitAutoInv, CommitDeleteInv, CommitUsageInv, CommitDeductInv,
         CommitConfirmInv, CommitUndoInv, CommitRefundInv, CommitUpdateInv DEF Commits
    <2>4. CASE Abort(t)
      BY <2>4, AbortInv
    <2> QED
      BY <1>2, <2>1, <2>2, <2>3, <2>4
  <1>3. CASE UNCHANGED vars
    BY <1>3 DEF vars, LockInv, LedgerTypeOK, SubIsOwn, Bounded, Exclusive,
                ColumnsFresh, ChargesFresh, Locked
  <1> QED
    BY <1>1, <1>2, <1>3 DEF Next

-----------------------------------------------------------------------------
(* What a step does to the table of usages *)

LEMMA StepTx ==
    ASSUME [Next]_vars, UNCHANGED <<lesson, rows>> => FALSE
    PROVE  \E t \in Tx : Begins(t) \/ Lock(t) \/ Commits(t) \/ Abort(t)
  BY DEF Next, PostUsage, vars

LEMMA RecordsRow ==
    ASSUME NEW q \in Transaction, NEW kind \in Kind, Records(q, kind)
    PROVE  \E r : rows' = rows \cup {r} /\ r.lesson = q.lesson /\ r.sub = q.sub /\ r.kind = kind
  <1>1. PICK id \in Usages \ {r.id : r \in rows} :
           rows' = rows \cup {[id |-> id, lesson |-> q.lesson, sub |-> q.sub, kind |-> kind]}
    BY DEF Records
  <1> DEFINE n == [id |-> id, lesson |-> q.lesson, sub |-> q.sub, kind |-> kind]
  <1>2. rows' = rows \cup {n} /\ n.lesson = q.lesson /\ n.sub = q.sub /\ n.kind = kind
    BY <1>1
  <1> HIDE DEF n
  <1> QED
    BY <1>2, Zenon

(* A new row is written by a transaction with the lock; one of the server  *)
(* or the teacher, only if the subscription is paid, and one of the        *)
(* server, only if the lesson had none.                                    *)
NewRow(t, r) ==
    /\ tx[t] # Idle
    /\ Locked(t)
    /\ rows' = rows \cup {r}
    /\ r.lesson = tx[t].lesson
    /\ r.sub = tx[t].sub
    /\ r.kind # "app" => tx[t].paid
    /\ r.kind = "server" => tx[t].op \in LessonOps /\ tx[t].found = {}

LEMMA ChargeRow ==
    ASSUME LockInv, NEW t \in Tx, tx[t] # Idle, Locked(t), tx[t].op \in LessonOps, Charge(tx[t])
    PROVE  rows' \subseteq rows \/ \E r : NewRow(t, r)
  <1>1. CASE ~Chargeable(tx[t])
    BY <1>1 DEF Charge, NoCharge
  <1>2. CASE Chargeable(tx[t])
    <2>1. Records(tx[t], "server") /\ tx[t].paid /\ tx[t].found = {} /\ "server" \in Kind
      BY <1>2 DEF Charge, Chargeable, Kind
    <2>2. tx[t] \in Transaction
      BY TransactionFields DEF LockInv
    <2>3. PICK r : /\ rows' = rows \cup {r}
                   /\ r.lesson = tx[t].lesson /\ r.sub = tx[t].sub /\ r.kind = "server"
      BY <2>1, <2>2, RecordsRow
    <2>4. NewRow(t, r)
      BY <2>1, <2>3 DEF NewRow
    <2> QED
      BY <2>4
  <1> QED
    BY <1>1, <1>2

LEMMA CommitRow ==
    ASSUME LockInv, NEW t \in Tx, Commits(t)
    PROVE  rows' \subseteq rows \/ \E r : NewRow(t, r)
  <1>1. CASE CommitStatus(t)
    <2>1. /\ tx[t] # Idle /\ tx[t].op \in LessonOps
          /\ Charges(tx[t]) => Locked(t)
          /\ (Charges(tx[t]) /\ Charge(tx[t])) \/ Release(tx[t]) \/ NoCharge
      BY <1>1 DEF CommitStatus, Ready, NeedsLock, Locked, LessonOps
    <2> QED
      BY <2>1, ChargeRow DEF Release, NoCharge
  <1>2. CASE CommitAuto(t)
    <2>1. tx[t] # Idle /\ tx[t].op \in LessonOps /\ Locked(t) /\ Charge(tx[t])
      BY <1>2 DEF CommitAuto, Ready, NeedsLock, Charges, Locked, LessonOps
    <2> QED
      BY <2>1, ChargeRow
  <1>3. CASE CommitDelete(t)
    BY <1>3 DEF CommitDelete, Release, NoCharge
  <1>4. CASE CommitUsage(t)
    <2>1. /\ tx[t] # Idle /\ Locked(t)
          /\ Records(tx[t], "app") /\ "app" \in Kind
      BY <1>4 DEF CommitUsage, Ready, NeedsLock, Locked, Kind
    <2>2. PICK r : /\ rows' = rows \cup {r}
                   /\ r.lesson = tx[t].lesson /\ r.sub = tx[t].sub /\ r.kind = "app"
      BY <2>1, TransactionFields, RecordsRow DEF LockInv
    <2>3. NewRow(t, r)
      BY <2>1, <2>2 DEF NewRow
    <2> QED
      BY <2>3
  <1>5. CASE CommitDeduct(t)
    <2>1. tx[t] # Idle /\ Locked(t) /\ tx[t].paid
      BY <1>5 DEF CommitDeduct, Ready, NeedsLock, Locked
    <2>2. PICK kind \in {"manual", "history"} : Records(tx[t], kind)
      BY <1>5 DEF CommitDeduct
    <2>3. kind \in Kind /\ kind # "server"
      BY DEF Kind
    <2>4. PICK r : /\ rows' = rows \cup {r}
                   /\ r.lesson = tx[t].lesson /\ r.sub = tx[t].sub /\ r.kind = kind
      BY <2>1, <2>2, <2>3, TransactionFields, RecordsRow DEF LockInv
    <2>5. NewRow(t, r)
      BY <2>1, <2>3, <2>4 DEF NewRow
    <2> QED
      BY <2>5
  <1>6. CASE CommitConfirm(t) \/ CommitUndo(t) \/ CommitRefund(t) \/ CommitUpdate(t)
    BY <1>6 DEF CommitConfirm, CommitUndo, CommitRefund, CommitUpdate, SetsUsed
  <1> QED
    BY <1>1, <1>2, <1>3, <1>4, <1>5, <1>6 DEF Commits

LEMMA RowStep ==
    ASSUME LockInv, [Next]_vars
    PROVE  rows' \subseteq rows \/ \E t \in Tx : \E r : NewRow(t, r)
  <1>1. CASE UNCHANGED <<lesson, rows>>
    BY <1>1
  <1>2. CASE ~UNCHANGED <<lesson, rows>>
    <2>1. PICK t \in Tx : Begins(t) \/ Lock(t) \/ Commits(t) \/ Abort(t)
      BY <1>2, StepTx
    <2>2. CASE Begins(t) \/ Lock(t) \/ Abort(t)
      BY <2>2, BeginsStep, LockStep, AbortInv
    <2>3. CASE Commits(t)
      BY <2>3, CommitRow
    <2> QED
      BY <2>1, <2>2, <2>3
  <1> QED
    BY <1>1, <1>2

-----------------------------------------------------------------------------
(* Theorems *)

LEMMA LedgerInvStep == LedgerInv /\ [Next]_vars => LedgerInv'
  <1> SUFFICES ASSUME LedgerInv, [Next]_vars PROVE LedgerInv'
    OBVIOUS
  <1>1. LockInv /\ LockInv' /\ ServerChargesOnce
    BY LockInvStep DEF LedgerInv
  <1>2. ServerChargesOnce'
    <2>1. CASE rows' \subseteq rows
      BY <1>1, <2>1 DEF ServerChargesOnce
    <2>2. ASSUME NEW t \in Tx, NEW r, NewRow(t, r) PROVE ServerChargesOnce'
      <3>1. \A o \in rows : r.kind = "server" /\ o.kind = "server" => o.lesson # r.lesson
        BY <1>1, <2>2 DEF NewRow, LockInv, ChargesFresh
      <3> QED
        BY <1>1, <2>2, <3>1 DEF NewRow, ServerChargesOnce
    <2> QED
      BY <1>1, <2>1, <2>2, RowStep
  <1> QED
    BY <1>1, <1>2 DEF LedgerInv

(* Lesson statuses, subscription columns, rows and transactions keep their *)
(* types; no subscription ever has fewer used sessions than none or more   *)
(* than its capacity, though every counter is written from a value read    *)
(* earlier.                                                                *)
THEOREM LedgerTypeCorrect == Spec => []LedgerTypeOK
  <1>1. LedgerInv => LedgerTypeOK
    BY DEF LedgerInv, LockInv
  <1> QED
    BY <1>1, InitLedgerInv, LedgerInvStep, PTL DEF Spec

(* The server charges a lesson at most once at a time, for any number of   *)
(* concurrent status changes, job runs, deletions and hand-made charges.   *)
THEOREM ServerChargesOnceCorrect == Spec => []ServerChargesOnce
  <1>1. LedgerInv => ServerChargesOnce
    BY DEF LedgerInv
  <1> QED
    BY <1>1, InitLedgerInv, LedgerInvStep, PTL DEF Spec

(* When the server or the teacher records a deduction the subscription is  *)
(* paid at that very moment, whatever is being confirmed or undone.        *)
THEOREM ChargesArePaidCorrect == Spec => ChargesArePaid
  <1>1. ASSUME LedgerInv, [Next]_vars, NEW o \in rows' \ rows, o.kind # "app"
        PROVE  sub[o.sub].paid
    <2>1. LockInv
      BY <1>1 DEF LedgerInv
    <2>2. PICK t \in Tx : \E r : NewRow(t, r)
      BY <1>1, <2>1, RowStep
    <2>3. NewRow(t, o)
      BY <1>1, <2>2 DEF NewRow
    <2> QED
      BY <1>1, <2>1, <2>3 DEF NewRow, LockInv, ColumnsFresh
  <1>2. LedgerInv /\ [Next]_vars =>
           [\A r \in rows' \ rows : r.kind # "app" => sub[r.sub].paid]_vars
    BY <1>1
  <1> QED
    BY <1>2, InitLedgerInv, LedgerInvStep, PTL DEF Spec, ChargesArePaid

(* Who makes a lesson completed holds the lock, and charges if it may.     *)
LEMMA CompletionStep ==
    ASSUME LockInv, [Next]_vars, NEW l \in Lessons,
           lesson'[l] = "completed", lesson[l] # "completed"
    PROVE  \E t \in Tx : /\ tx[t] # Idle /\ Locked(t) /\ tx[t].op \in LessonOps
                         /\ tx[t].lesson = l /\ Charge(tx[t])
  <1>1. PICK t \in Tx : Begins(t) \/ Lock(t) \/ Commits(t) \/ Abort(t)
    BY StepTx
  <1>2. ~(Begins(t) \/ Lock(t) \/ Abort(t))
    BY BeginsStep, LockStep, AbortInv
  <1>3. lesson \in [Lessons -> LessonStatus]
    BY DEF LockInv, LedgerTypeOK
  <1>4. CASE CommitStatus(t)
    <2>1. /\ tx[t] # Idle /\ tx[t].op = "status" /\ Writes(tx[t])
          /\ NeedsLock(tx[t]) => Locked(t)
      BY <1>4 DEF CommitStatus, Ready, Locked
    <2>2. tx[t].lesson = l /\ tx[t].target = "completed"
      BY <1>3, <2>1, TransactionFields DEF Writes, LockInv
    <2>3. Charges(tx[t])
      BY <2>1, <2>2 DEF Charges
    <2>4. Charge(tx[t])
      BY <1>4, <2>3 DEF CommitStatus
    <2> QED
      BY <2>1, <2>2, <2>3, <2>4 DEF NeedsLock, LessonOps
  <1>5. CASE CommitAuto(t)
    <2>1. /\ tx[t] # Idle /\ tx[t].op = "auto" /\ Writes(tx[t]) /\ Charge(tx[t])
          /\ Locked(t)
      BY <1>5 DEF CommitAuto, Ready, NeedsLock, Charges, Locked
    <2>2. tx[t].lesson = l
      BY <1>3, <2>1, TransactionFields DEF Writes, LockInv
    <2> QED
      BY <2>1, <2>2 DEF LessonOps
  <1>6. CASE CommitDelete(t)
    BY <1>3, <1>6 DEF CommitDelete
  <1>7. CASE CommitUndo(t)
    BY <1>3, <1>7 DEF CommitUndo
  <1>8. CASE CommitUsage(t) \/ CommitDeduct(t) \/ CommitConfirm(t) \/ CommitRefund(t) \/ CommitUpdate(t)
    BY <1>8 DEF CommitUsage, CommitDeduct, CommitConfirm, CommitRefund, CommitUpdate, SetsUsed
  <1> QED
    BY <1>1, <1>2, <1>4, <1>5, <1>6, <1>7, <1>8 DEF Commits

(* A lesson that becomes completed has been charged for, unless its        *)
(* subscription is unpaid or used up at that moment: no interleaving of    *)
(* requests and the attendance job loses the charge.                       *)
THEOREM CompletionIsChargedCorrect == Spec => CompletionIsCharged
  <1>1. ASSUME LedgerInv, [Next]_vars, NEW l \in Lessons,
               lesson'[l] = "completed", lesson[l] # "completed"
        PROVE  \/ \E r \in rows' : r.lesson = l
               \/ ~sub[SubOf[l]].paid
               \/ sub[SubOf[l]].used = Capacity[SubOf[l]]
    <2>1. LockInv
      BY <1>1 DEF LedgerInv
    <2>2. PICK t \in Tx : /\ tx[t] # Idle /\ Locked(t) /\ tx[t].op \in LessonOps
                          /\ tx[t].lesson = l /\ Charge(tx[t])
      BY <1>1, <2>1, CompletionStep
    <2>3. /\ tx[t].sub = SubOf[l] /\ SubOf[l] \in Subs
          /\ tx[t].used = sub[SubOf[l]].used /\ tx[t].paid = sub[SubOf[l]].paid
          /\ tx[t].found \subseteq rows /\ \A r \in tx[t].found : r.lesson = l
      BY <2>1, <2>2, ChargesAssumption DEF LockInv, SubIsOwn, ColumnsFresh, ChargesFresh
    <2>4. CASE Chargeable(tx[t])
      <3>1. Records(tx[t], "server") /\ "server" \in Kind /\ tx[t] \in Transaction
        BY <2>1, <2>2, <2>4, TransactionFields DEF Charge, Kind, LockInv
      <3>2. PICK r : rows' = rows \cup {r} /\ r.lesson = tx[t].lesson
        BY <3>1, RecordsRow
      <3> QED
        BY <2>2, <3>2
    <2>5. CASE ~Chargeable(tx[t])
      <3>1. rows' = rows
        BY <2>2, <2>5 DEF Charge, NoCharge
      <3>2. CASE tx[t].found # {}
        BY <2>3, <3>1, <3>2
      <3>3. CASE tx[t].found = {} /\ sub[SubOf[l]].paid
        <4>1. ~(sub[SubOf[l]].used < Capacity[SubOf[l]])
          BY <2>3, <2>5, <3>3 DEF Chargeable
        <4>2. /\ sub[SubOf[l]].used \in Nat /\ Capacity[SubOf[l]] \in Nat
              /\ sub[SubOf[l]].used <= Capacity[SubOf[l]]
          BY <2>1, <2>3, SubFields DEF LockInv
        <4> QED
          BY <4>1, <4>2
      <3> QED
        BY <3>2, <3>3
    <2> QED
      BY <2>4, <2>5
  <1>2. LedgerInv /\ [Next]_vars =>
           [\A l \in Lessons :
              lesson'[l] = "completed" /\ lesson[l] # "completed" =>
                 \/ \E r \in rows' : r.lesson = l
                 \/ ~sub[SubOf[l]].paid
                 \/ sub[SubOf[l]].used = Capacity[SubOf[l]]]_vars
    BY <1>1
  <1> QED
    BY <1>2, InitLedgerInv, LedgerInvStep, PTL DEF Spec, CompletionIsCharged

-----------------------------------------------------------------------------
(* The counter, for a student with one subscription *)

OneSubscription == \A s1, s2 \in Subs : s1 = s2

LEMMA AllRows ==
    ASSUME LedgerTypeOK, OneSubscription, NEW s \in Subs
    PROVE  {r \in rows : r.sub = s} = rows
  BY DEF LedgerTypeOK, OneSubscription, Row

(* For one subscription: used_lessons is the number of its usage rows.     *)
Counted == \A s \in Subs : corrected[s] \/ sub[s].used = Cardinality(rows)

LEMMA RecordsCounted ==
    ASSUME LockInv, OneSubscription, Counted, NEW t \in Tx, tx[t] # Idle, Locked(t),
           NEW kind \in Kind, Records(tx[t], kind), UNCHANGED corrected
    PROVE  Counted'
  <1>1. tx[t] \in Transaction /\ tx[t].sub \in Subs
    BY TransactionFields DEF LockInv
  <1>2. /\ sub'[tx[t].sub].used = tx[t].used + 1
        /\ \E r \in Row : rows' = rows \cup {r} /\ r \notin rows
    BY <1>1, RecordsEffect
  <1>3. Cardinality(rows') = Cardinality(rows) + 1
    BY <1>2, FS_AddElement DEF LockInv, Bounded
  <1>4. tx[t].used = sub[tx[t].sub].used
    BY DEF LockInv, ColumnsFresh
  <1> QED
    BY <1>1, <1>2, <1>3, <1>4 DEF Counted, OneSubscription

LEMMA ReleaseCounted ==
    ASSUME LockInv, OneSubscription, Counted, NEW t \in Tx, tx[t] # Idle, Locked(t),
           tx[t].op \in LessonOps, Release(tx[t]), UNCHANGED corrected
    PROVE  Counted'
  <1> DEFINE s == tx[t].sub
             gone == {r \in tx[t].found : r.kind \in Deducted}
  <1>1. /\ s \in Subs /\ tx[t].used = sub[s].used /\ tx[t].used \in Nat
        /\ gone \subseteq rows /\ IsFiniteSet(rows) /\ sub \in [Subs -> Sub]
    BY TransactionFields DEF LockInv, ColumnsFresh, ChargesFresh, Bounded, LedgerTypeOK
  <1>2. /\ rows' = rows \ gone
        /\ sub' = [sub EXCEPT ![s].used = IF gone = {} THEN @
                     ELSE IF tx[t].used - Cardinality(gone) < 0 THEN 0
                     ELSE tx[t].used - Cardinality(gone)]
    BY DEF Release
  <1> HIDE DEF gone
  <1>3. /\ Cardinality(rows \ gone) = Cardinality(rows) - Cardinality(rows \cap gone)
        /\ rows \cap gone = gone
        /\ Cardinality(rows) \in Nat /\ Cardinality(gone) \in Nat
        /\ Cardinality(gone) <= Cardinality(rows)
        /\ gone = {} => Cardinality(gone) = 0
    BY <1>1, FS_Difference, FS_Subset, FS_CardinalityType, FS_EmptySet
  <1>4. sub'[s].used = IF gone = {} THEN sub[s].used
                       ELSE IF tx[t].used - Cardinality(gone) < 0 THEN 0
                       ELSE tx[t].used - Cardinality(gone)
    BY <1>1, <1>2 DEF Sub
  <1>5. corrected[s] \/ sub'[s].used = Cardinality(rows')
    <2>1. CASE corrected[s]
      BY <2>1
    <2>2. CASE sub[s].used = Cardinality(rows)
      <3>1. Cardinality(rows') = tx[t].used - Cardinality(gone)
        BY <1>1, <1>2, <1>3, <2>2
      <3>2. CASE gone = {}
        BY <1>1, <1>3, <1>4, <2>2, <3>1, <3>2
      <3>3. CASE gone # {}
        BY <1>1, <1>3, <1>4, <2>2, <3>1, <3>3
      <3> QED
        BY <3>2, <3>3
    <2> QED
      BY <1>1, <2>1, <2>2 DEF Counted
  <1> QED
    BY <1>1, <1>5 DEF Counted, OneSubscription

LEMMA LessonCounted ==
    ASSUME LockInv, OneSubscription, Counted, NEW t \in Tx, tx[t] # Idle,
           tx[t].op \in LessonOps, UNCHANGED corrected,
           \/ Locked(t) /\ Charge(tx[t])
           \/ Locked(t) /\ Release(tx[t])
           \/ NoCharge
    PROVE  Counted'
  <1>1. CASE Locked(t) /\ Records(tx[t], "server")
    BY <1>1, RecordsCounted DEF Kind
  <1>2. CASE Locked(t) /\ Release(tx[t])
    BY <1>2, ReleaseCounted
  <1>3. CASE NoCharge
    BY <1>3 DEF NoCharge, Counted
  <1> QED
    BY <1>1, <1>2, <1>3 DEF Charge

LEMMA CommitCounted ==
    ASSUME LockInv, OneSubscription, Counted, NEW t \in Tx, Commits(t)
    PROVE  Counted'
  <1>1. CASE CommitStatus(t)
    BY <1>1, LessonCounted DEF CommitStatus, Ready, NeedsLock, Locked, LessonOps
  <1>2. CASE CommitAuto(t)
    BY <1>2, LessonCounted DEF CommitAuto, Ready, NeedsLock, Charges, Locked, LessonOps
  <1>3. CASE CommitDelete(t)
    BY <1>3, LessonCounted DEF CommitDelete, Ready, NeedsLock, Locked, LessonOps
  <1>4. CASE CommitUsage(t)
    BY <1>4, RecordsCounted DEF CommitUsage, Ready, NeedsLock, Locked, Kind
  <1>5. CASE CommitDeduct(t)
    <2>1. tx[t] # Idle /\ Locked(t) /\ UNCHANGED corrected
      BY <1>5 DEF CommitDeduct, Ready, NeedsLock, Locked
    <2>2. PICK kind \in {"manual", "history"} : Records(tx[t], kind)
      BY <1>5 DEF CommitDeduct
    <2> QED
      BY <2>1, <2>2, RecordsCounted DEF Kind
  <1>6. sub \in [Subs -> Sub] /\ corrected \in [Subs -> BOOLEAN]
    BY DEF LockInv, LedgerTypeOK
  <1>7. CASE CommitConfirm(t) \/ CommitUndo(t)
    <2>1. /\ tx[t] # Idle /\ UNCHANGED <<rows, corrected>>
          /\ \E b \in BOOLEAN : sub' = [sub EXCEPT ![tx[t].sub].paid = b]
      BY <1>7 DEF CommitConfirm, CommitUndo, Ready
    <2>2. \A s \in Subs : sub'[s].used = sub[s].used
      BY <1>6, <2>1 DEF Sub
    <2> QED
      BY <2>1, <2>2 DEF Counted
  <1>8. CASE CommitRefund(t) \/ CommitUpdate(t)
    <2>1. tx[t] # Idle /\ UNCHANGED rows /\ corrected' = [corrected EXCEPT ![tx[t].sub] = TRUE]
      BY <1>8 DEF CommitRefund, CommitUpdate, SetsUsed, Ready
    <2>2. tx[t].sub \in Subs
      BY <2>1, TransactionFields DEF LockInv
    <2> QED
      BY <1>6, <2>1, <2>2 DEF Counted, OneSubscription
  <1> QED
    BY <1>1, <1>2, <1>3, <1>4, <1>5, <1>7, <1>8 DEF Commits

LEMMA CountedStep ==
    ASSUME OneSubscription
    PROVE  LockInv /\ Counted /\ [Next]_vars => Counted'
  <1> SUFFICES ASSUME LockInv, Counted, [Next]_vars PROVE Counted'
    OBVIOUS
  <1>1. CASE UNCHANGED <<sub, rows, corrected>>
    BY <1>1 DEF Counted
  <1>2. ASSUME NEW t \in Tx, Begins(t) \/ Lock(t) \/ Commits(t) \/ Abort(t)
        PROVE  Counted'
    <2>1. CASE Commits(t)
      BY <2>1, CommitCounted
    <2>2. CASE Begins(t)
      BY <1>1, <2>2 DEF Begins, UpdateStatus, AutoComplete, DeleteLesson, AddUsage, DeductLesson,
         ConfirmPayment, UndoConfirmPayment, CompleteRefund, UpdateSubscription,
         BeginLesson, BeginSub, BeginWrite, Begin
    <2>3. CASE Lock(t) \/ Abort(t)
      BY <1>1, <2>3 DEF Lock, Abort
    <2> QED
      BY <1>2, <2>1, <2>2, <2>3
  <1>3. CASE \E l \in Lessons : PostUsage(l)
    BY <1>1, <1>3 DEF PostUsage
  <1> QED
    BY <1>1, <1>2, <1>3 DEF Next, vars

(* A student with one subscription: used_lessons is the number of usage    *)
(* rows, through any charges, releases, deletions and undone payments,     *)
(* until somebody sets it by hand or refunds.                              *)
THEOREM CounterMatchesRowsCorrect ==
    ASSUME OneSubscription
    PROVE  Spec => []CounterMatchesRows
  <1>1. Init => Counted
    BY FS_EmptySet DEF Init, Counted
  <1>2. LedgerInv /\ Counted /\ [Next]_vars => Counted'
    BY CountedStep DEF LedgerInv
  <1>3. LedgerInv /\ Counted => CounterMatchesRows
    <2>1. LedgerInv => LedgerTypeOK
      BY DEF LedgerInv, LockInv
    <2> QED
      BY <2>1, AllRows DEF Counted, CounterMatchesRows
  <1> QED
    BY <1>1, <1>2, <1>3, InitLedgerInv, LedgerInvStep, PTL DEF Spec
=============================================================================
