----------------------- MODULE SubscriptionExpiry_proofs -----------------------
(***************************************************************************)
(* The properties of SubscriptionExpiry, for any number of workers,        *)
(* connections, subscriptions and days.                                    *)
(*                                                                         *)
(* The log: the rows of open transactions are disjoint and not in the log, *)
(* so each adds one notification per row.  The pushes: as long as nothing  *)
(* broke, the connection that holds a run's lock is in the hands of that   *)
(* run's process, hence no second process is granted the lock, and what a  *)
(* run has sent is what its rows say.                                      *)
(***************************************************************************)
EXTENDS SubscriptionExpiry, TLAPS

Stage == {"off", "checking", "checked", "dispatching", "closing", "unlocking", "ended"}

-----------------------------------------------------------------------------
(* Types *)

LEMMA RunFields ==
    ASSUME NEW r \in Run
    PROVE  /\ r.stage \in Stage
           /\ r.conn \in Conns \cup {NoConn} /\ r.lock \in Conns \cup {NoConn}
           /\ r.target \in [Subs -> Status \cup {NoStatus}]
           /\ r.due \in SUBSET Notice /\ r.sending \in SUBSET Notice /\ r.rows \in SUBSET Notice
           /\ r.last \in -1 .. MaxDay
  BY DEF Run, Stage

LEMMA OffIsRun ==
    ASSUME NEW last \in -1 .. MaxDay
    PROVE  /\ Off(last) \in Run
           /\ Off(last).stage = "off" /\ Off(last).conn = NoConn /\ Off(last).lock = NoConn
           /\ Off(last).due = {} /\ Off(last).sending = {} /\ Off(last).rows = {}
           /\ [Off(last) EXCEPT !.stage = "ended"] \in Run
           /\ [Off(last) EXCEPT !.stage = "ended"].stage = "ended"
           /\ [Off(last) EXCEPT !.stage = "ended"].conn = NoConn
           /\ [Off(last) EXCEPT !.stage = "ended"].lock = NoConn
           /\ [Off(last) EXCEPT !.stage = "ended"].due = {}
           /\ [Off(last) EXCEPT !.stage = "ended"].sending = {}
           /\ [Off(last) EXCEPT !.stage = "ended"].rows = {}
  <1>1. [s \in Subs |-> NoStatus] \in [Subs -> Status \cup {NoStatus}]
    OBVIOUS
  <1> QED
    BY <1>1 DEF Off, Run

(* One worker's run is written.                                            *)
LEMMA RunWritten ==
    ASSUME ExpiryTypeOK, NEW w \in Workers, NEW r \in Run, run' = [run EXCEPT ![w] = r]
    PROVE  /\ run' \in [Workers -> Run]
           /\ run'[w] = r
           /\ \A v \in Workers : v # w => run'[v] = run[v]
  BY DEF ExpiryTypeOK

LEMMA RunIsRun ==
    ASSUME ExpiryTypeOK, NEW w \in Workers
    PROVE  run[w] \in Run
  BY DEF ExpiryTypeOK

LEMMA ScanIsTarget ==
    ASSUME ExpiryTypeOK
    PROVE  Scan \in [Subs -> Status \cup {NoStatus}]
  <1>1. \A s \in Subs : NextStatus(s) \in Status
    BY DEF NextStatus, Status, ExpiryTypeOK
  <1> QED
    BY <1>1 DEF Scan

LEMMA CheckinTypes ==
    ASSUME LockTypeOK, NEW w \in Workers, NEW c \in Conns, Checkin(w, c)
    PROVE  /\ pool' \in [Workers -> SUBSET Conns]
           /\ HoldsAfterCheckin(w, c) \in [Conns -> Nat]
           /\ \A v \in Workers : v # w => pool'[v] = pool[v]
           /\ pool'[w] \subseteq pool[w] \cup {c}
           /\ Kept(w) => pool'[w] = pool[w] \cup {c} /\ HoldsAfterCheckin(w, c) = holds
           /\ ~Kept(w) => /\ pool'[w] = pool[w]
                          /\ HoldsAfterCheckin(w, c)[c] = 0
                          /\ \A d \in Conns : d # c => HoldsAfterCheckin(w, c)[d] = holds[d]
  BY DEF LockTypeOK, Checkin, HoldsAfterCheckin

LEMMA CheckoutTypes ==
    ASSUME LockTypeOK, NEW w \in Workers, NEW c, Checkout(w, c)
    PROVE  /\ pool' \in [Workers -> SUBSET Conns]
           /\ pool'[w] = pool[w] \ {c}
           /\ \A v \in Workers : v # w => pool'[v] = pool[v]
  BY DEF LockTypeOK, Checkout

LEMMA FreeIsConn ==
    ASSUME LockTypeOK, NEW w \in Workers
    PROVE  Free(w) \subseteq Conns
  BY DEF LockTypeOK, Free, Available

LEMMA GivesBackTypes ==
    ASSUME ExpiryTypeOK, NEW w \in Workers, GivesBack(w)
    PROVE  /\ pool' \in [Workers -> SUBSET Conns] /\ holds' \in [Conns -> Nat]
           /\ \A v \in Workers : v # w => pool'[v] = pool[v]
           /\ pool[w] \subseteq pool'[w] /\ pool'[w] \subseteq pool[w] \cup OwnConn(w)
  <1> USE DEF ExpiryTypeOK
  <1>1. run[w].conn \in Conns \cup {NoConn}
    BY RunIsRun, RunFields
  <1>2. CASE run[w].conn = NoConn
    BY <1>2 DEF GivesBack, LockTypeOK
  <1>3. CASE run[w].conn # NoConn
    <2>1. Checkin(w, run[w].conn) /\ holds' = HoldsAfterCheckin(w, run[w].conn)
      BY <1>3 DEF GivesBack
    <2> QED
      BY <1>1, <1>3, <2>1, CheckinTypes DEF OwnConn, Kept
  <1> QED
    BY <1>2, <1>3

(* A connection that is given back while nothing breaks takes no lock with *)
(* it.                                                                     *)
LEMMA GivesBackSafely ==
    ASSUME ExpiryTypeOK, NEW w \in Workers, GivesBack(w), Breaks(w)
    PROVE  /\ broken' \in BOOLEAN
           /\ ~broken' =>
                /\ ~broken
                /\ \A v \in Workers : run[v].lock # NoConn =>
                     /\ holds'[run[v].lock] = holds[run[v].lock]
                     /\ run[v].lock \in OwnConn(w) => run[v].lock \in pool'[w]
  <1> USE DEF ExpiryTypeOK
  <1>1. \A v \in Workers : run[v].conn \in Conns \cup {NoConn} /\ run[v].lock \in Conns \cup {NoConn}
    BY RunIsRun, RunFields
  <1>2. broken' \in BOOLEAN /\ (~broken' => ~broken)
    BY DEF Breaks
  <1>3. CASE run[w].conn = NoConn
    BY <1>2, <1>3 DEF GivesBack, OwnConn
  <1>4. CASE run[w].conn # NoConn
    <2> DEFINE c == run[w].conn
    <2>1. Checkin(w, c) /\ holds' = HoldsAfterCheckin(w, c)
      BY <1>4 DEF GivesBack
    <2>2. /\ Kept(w) => pool'[w] = pool[w] \cup {c} /\ holds' = holds
          /\ ~Kept(w) => \A d \in Conns : d # c => holds'[d] = holds[d]
      BY <1>1, <1>4, <2>1, CheckinTypes
    <2>3. ~broken' => Kept(w) \/ \A v \in Workers : run[v].lock # c
      BY <1>4 DEF Breaks, LosesLock
    <2> QED
      BY <1>1, <1>2, <2>2, <2>3 DEF OwnConn
  <1> QED
    BY <1>3, <1>4

-----------------------------------------------------------------------------
(* The steps of a run: types, and what they do to the run                  *)

LEMMA StartStep ==
    ASSUME ExpiryTypeOK, NEW w \in Workers, Start(w)
    PROVE  /\ ExpiryTypeOK'
           /\ run[w].stage \in {"off", "ended"}
           /\ \A v \in Workers : v # w => run'[v] = run[v] /\ pool'[v] = pool[v]
           /\ UNCHANGED <<log, inbox, pushed, broken, lent>>
           /\ run'[w].sending = {} /\ run'[w].rows = {}
           /\ \E c \in Free(w) :
                \/ /\ Granted(c)
                   /\ pool'[w] = pool[w] \ {c}
                   /\ holds' = [holds EXCEPT ![c] = @ + 1]
                   /\ run'[w].stage = "checking" /\ run'[w].conn = c /\ run'[w].lock = c
                \/ /\ pool'[w] = pool[w] \cup {c}
                   /\ holds' = holds
                   /\ run'[w].stage = "off" /\ run'[w].conn = NoConn /\ run'[w].lock = NoConn
  <1> USE DEF ExpiryTypeOK
  <1>1. /\ run[w].stage \in {"off", "ended"}
        /\ UNCHANGED <<day, sub, edit, log, inbox, pushed, broken, lent>>
    BY DEF Start
  <1>2. PICK c \in Free(w) :
           IF Granted(c)
           THEN /\ Checkout(w, c)
                /\ Acquire(c)
                /\ run' = [run EXCEPT ![w] =
                             [stage |-> "checking", conn |-> c, lock |-> c, target |-> Scan,
                              due |-> Due, sending |-> {}, rows |-> {}, last |-> day]]
           ELSE /\ pool' = [pool EXCEPT ![w] = @ \cup {c}]
                /\ run' = [run EXCEPT ![w] = Off(day)]
                /\ UNCHANGED holds
    BY DEF Start
  <1>3. c \in Conns
    BY FreeIsConn
  <1>4. CASE Granted(c)
    <2> DEFINE r == [stage |-> "checking", conn |-> c, lock |-> c, target |-> Scan,
                     due |-> Due, sending |-> {}, rows |-> {}, last |-> day]
    <2>1. Due \in SUBSET Notice
      BY DEF Due
    <2>2. /\ r \in Run /\ r.stage = "checking" /\ r.conn = c /\ r.lock = c
          /\ r.sending = {} /\ r.rows = {}
      BY <1>3, <2>1, ScanIsTarget DEF Run
    <2>3. run' = [run EXCEPT ![w] = r] /\ Checkout(w, c) /\ Acquire(c)
      BY <1>2, <1>4
    <2> HIDE DEF r
    <2>4. /\ run' \in [Workers -> Run] /\ run'[w] = r
          /\ \A v \in Workers : v # w => run'[v] = run[v]
      BY <2>2, <2>3, RunWritten
    <2>5. holds' = [holds EXCEPT ![c] = @ + 1] /\ holds' \in [Conns -> Nat]
      BY <1>3, <2>3 DEF Acquire, LockTypeOK
    <2>6. /\ pool' \in [Workers -> SUBSET Conns] /\ pool'[w] = pool[w] \ {c}
          /\ \A v \in Workers : v # w => pool'[v] = pool[v]
      BY <2>3, CheckoutTypes
    <2>7. ExpiryTypeOK'
      BY <1>1, <2>4, <2>5, <2>6 DEF LockTypeOK
    <2> QED
      BY <1>1, <1>4, <2>2, <2>4, <2>5, <2>6, <2>7
  <1>5. CASE ~Granted(c)
    <2>1. /\ Off(day) \in Run /\ Off(day).stage = "off" /\ Off(day).conn = NoConn
          /\ Off(day).lock = NoConn /\ Off(day).sending = {} /\ Off(day).rows = {}
      <3>1. day \in -1 .. MaxDay
        OBVIOUS
      <3> QED
        BY <3>1, OffIsRun
    <2>2. run' = [run EXCEPT ![w] = Off(day)] /\ pool' = [pool EXCEPT ![w] = @ \cup {c}]
          /\ holds' = holds
      BY <1>2, <1>5
    <2>3. /\ run' \in [Workers -> Run] /\ run'[w] = Off(day)
          /\ \A v \in Workers : v # w => run'[v] = run[v]
      BY <2>1, <2>2, RunWritten
    <2>4. /\ pool' \in [Workers -> SUBSET Conns] /\ pool'[w] = pool[w] \cup {c}
          /\ \A v \in Workers : v # w => pool'[v] = pool[v]
      BY <1>3, <2>2 DEF LockTypeOK
    <2>5. ExpiryTypeOK'
      BY <1>1, <2>2, <2>3, <2>4 DEF LockTypeOK
    <2> QED
      BY <1>1, <2>1, <2>2, <2>3, <2>4, <2>5
  <1> QED
    BY <1>4, <1>5

LEMMA CheckCommitStep ==
    ASSUME ExpiryTypeOK, NEW w \in Workers, CheckCommit(w)
    PROVE  /\ ExpiryTypeOK'
           /\ run[w].stage = "checking" /\ run'[w].stage = "checked"
           /\ run'[w].conn = NoConn /\ run'[w].lock = run[w].lock
           /\ run'[w].due = run[w].due
           /\ run'[w].sending = run[w].sending /\ run'[w].rows = run[w].rows
           /\ \A v \in Workers : v # w => run'[v] = run[v]
           /\ GivesBack(w) /\ Breaks(w)
           /\ UNCHANGED <<log, inbox, pushed, lent>>
  <1> DEFINE r == [run[w] EXCEPT !.stage = "checked", !.conn = NoConn]
  <1>1. /\ run[w].stage = "checking" /\ GivesBack(w) /\ Breaks(w)
        /\ sub' = [s \in Subs |-> IF run[w].target[s] = NoStatus THEN sub[s]
                                  ELSE [sub[s] EXCEPT !.status = run[w].target[s]]]
        /\ UNCHANGED <<day, edit, log, inbox, pushed, lent>>
    BY DEF CheckCommit
  <1>2. run[w] \in Run /\ run[w].target \in [Subs -> Status \cup {NoStatus}]
    BY RunIsRun, RunFields
  <1>3. /\ r \in Run /\ r.stage = "checked" /\ r.conn = NoConn /\ r.lock = run[w].lock
        /\ r.due = run[w].due /\ r.sending = run[w].sending /\ r.rows = run[w].rows
    BY <1>2 DEF Run
  <1>4. run' = [run EXCEPT ![w] = r]
    BY DEF CheckCommit, ExpiryTypeOK
  <1> HIDE DEF r
  <1>5. /\ run' \in [Workers -> Run] /\ run'[w] = r
        /\ \A v \in Workers : v # w => run'[v] = run[v]
    BY <1>3, <1>4, RunWritten
  <1>6. sub' \in [Subs -> [status : Status, end : Ends]]
    BY <1>1, <1>2 DEF ExpiryTypeOK
  <1>7. ExpiryTypeOK'
    BY <1>1, <1>5, <1>6, GivesBackTypes, GivesBackSafely DEF ExpiryTypeOK, LockTypeOK
  <1> QED
    BY <1>1, <1>3, <1>5, <1>7

LEMMA DispatchBeginStep ==
    ASSUME ExpiryTypeOK, NEW w \in Workers, DispatchBegin(w)
    PROVE  /\ ExpiryTypeOK'
           /\ run[w].stage = "checked" /\ run'[w].stage = "dispatching"
           /\ run'[w].lock = run[w].lock
           /\ run'[w].due = run[w].due
           /\ run'[w].sending = run[w].sending /\ run'[w].rows = run[w].rows
           /\ \A v \in Workers : v # w => run'[v] = run[v] /\ pool'[v] = pool[v]
           /\ \E c \in Free(w) : pool'[w] = pool[w] \ {c} /\ run'[w].conn = c
           /\ UNCHANGED <<log, inbox, pushed, broken, lent, holds>>
  <1>1. /\ run[w].stage = "checked"
        /\ UNCHANGED <<day, sub, edit, log, inbox, pushed, broken, lent, holds>>
    BY DEF DispatchBegin
  <1>2. PICK c \in Free(w) :
           /\ Checkout(w, c)
           /\ run' = [run EXCEPT ![w] = [@ EXCEPT !.stage = "dispatching", !.conn = c]]
    BY DEF DispatchBegin
  <1> DEFINE r == [run[w] EXCEPT !.stage = "dispatching", !.conn = c]
  <1>3. c \in Conns /\ run[w] \in Run
    BY RunIsRun, FreeIsConn DEF ExpiryTypeOK
  <1>4. /\ r \in Run /\ r.stage = "dispatching" /\ r.conn = c /\ r.lock = run[w].lock
        /\ r.due = run[w].due /\ r.sending = run[w].sending /\ r.rows = run[w].rows
    BY <1>3 DEF Run
  <1>5. run' = [run EXCEPT ![w] = r]
    BY <1>2 DEF ExpiryTypeOK
  <1> HIDE DEF r
  <1>6. /\ run' \in [Workers -> Run] /\ run'[w] = r
        /\ \A v \in Workers : v # w => run'[v] = run[v]
    BY <1>4, <1>5, RunWritten
  <1>7. /\ pool' \in [Workers -> SUBSET Conns] /\ pool'[w] = pool[w] \ {c}
        /\ \A v \in Workers : v # w => pool'[v] = pool[v]
    BY <1>2, CheckoutTypes DEF ExpiryTypeOK
  <1>8. ExpiryTypeOK'
    BY <1>1, <1>6, <1>7 DEF ExpiryTypeOK, LockTypeOK
  <1> QED
    BY <1>1, <1>4, <1>6, <1>7, <1>8

LEMMA SendStep ==
    ASSUME ExpiryTypeOK, NEW w \in Workers, NEW n \in Notice, Send(w, n)
    PROVE  /\ ExpiryTypeOK'
           /\ run[w].stage = "dispatching" /\ run'[w].stage = "dispatching"
           /\ run'[w].conn = run[w].conn /\ run'[w].lock = run[w].lock
           /\ n \in run[w].due /\ run'[w].due = run[w].due \ {n}
           /\ run[w].sending = {} /\ run'[w].rows = run[w].rows
           /\ run'[w].sending = (IF n \in log THEN {} ELSE {n})
           /\ pushed'[n] = IF n \in log THEN pushed[n] ELSE pushed[n] + 1
           /\ \A m \in Notice : m # n => pushed'[m] = pushed[m]
           /\ \A v \in Workers : v # w => run'[v] = run[v]
           /\ UNCHANGED <<log, inbox, broken, lockVars>>
  <1> DEFINE r == [run[w] EXCEPT !.due = run[w].due \ {n}, !.sending = IF n \in log THEN {} ELSE {n}]
  <1>1. /\ run[w].stage = "dispatching" /\ run[w].sending = {} /\ n \in run[w].due
        /\ pushed' = [pushed EXCEPT ![n] = IF n \in log THEN @ ELSE @ + 1]
        /\ UNCHANGED <<day, sub, edit, log, inbox, broken, lockVars>>
    BY DEF Send
  <1>2. run[w] \in Run
    BY RunIsRun
  <1>3. (IF n \in log THEN {} ELSE {n}) \in SUBSET Notice
    OBVIOUS
  <1>4. /\ r \in Run /\ r.stage = run[w].stage /\ r.conn = run[w].conn /\ r.lock = run[w].lock
        /\ r.due = run[w].due \ {n} /\ r.rows = run[w].rows
        /\ r.sending = IF n \in log THEN {} ELSE {n}
    BY <1>2, <1>3 DEF Run
  <1>5. run' = [run EXCEPT ![w] = r]
    BY DEF Send, ExpiryTypeOK
  <1> HIDE DEF r
  <1>6. /\ run' \in [Workers -> Run] /\ run'[w] = r
        /\ \A v \in Workers : v # w => run'[v] = run[v]
    BY <1>4, <1>5, RunWritten
  <1>7. /\ pushed' \in [Notice -> Nat]
        /\ pushed'[n] = IF n \in log THEN pushed[n] ELSE pushed[n] + 1
        /\ \A m \in Notice : m # n => pushed'[m] = pushed[m]
    BY <1>1 DEF ExpiryTypeOK
  <1>8. ExpiryTypeOK'
    BY <1>1, <1>6, <1>7 DEF ExpiryTypeOK, LockTypeOK, lockVars
  <1> QED
    BY <1>1, <1>4, <1>6, <1>7, <1>8

LEMMA RecordStep ==
    ASSUME ExpiryTypeOK, NEW w \in Workers, Record(w)
    PROVE  /\ ExpiryTypeOK'
           /\ run[w].stage = "dispatching" /\ run'[w].stage = "dispatching"
           /\ run'[w].conn = run[w].conn /\ run'[w].lock = run[w].lock
           /\ run'[w].due = run[w].due
           /\ run'[w].sending = {} /\ run'[w].rows = run[w].rows \cup run[w].sending
           /\ \A v \in Workers \ {w} : run[v].rows \cap run[w].sending = {}
           /\ run[w].sending \cap log = {}
           /\ \A v \in Workers : v # w => run'[v] = run[v]
           /\ UNCHANGED <<log, inbox, pushed, broken, lockVars>>
  <1> DEFINE r == [run[w] EXCEPT !.rows = run[w].rows \cup run[w].sending, !.sending = {}]
  <1>1. /\ run[w].stage = "dispatching"
        /\ \A v \in Workers \ {w} : run[v].rows \cap run[w].sending = {}
        /\ run[w].sending \cap log = {}
        /\ UNCHANGED <<day, sub, edit, log, inbox, pushed, broken, lockVars>>
    BY DEF Record
  <1>2. run[w] \in Run
    BY RunIsRun
  <1>3. /\ r \in Run /\ r.stage = run[w].stage /\ r.conn = run[w].conn /\ r.lock = run[w].lock
        /\ r.due = run[w].due /\ r.rows = run[w].rows \cup run[w].sending /\ r.sending = {}
    BY <1>2 DEF Run
  <1>4. run' = [run EXCEPT ![w] = r]
    BY DEF Record, ExpiryTypeOK
  <1> HIDE DEF r
  <1>5. /\ run' \in [Workers -> Run] /\ run'[w] = r
        /\ \A v \in Workers : v # w => run'[v] = run[v]
    BY <1>3, <1>4, RunWritten
  <1>6. ExpiryTypeOK'
    BY <1>1, <1>5 DEF ExpiryTypeOK, LockTypeOK, lockVars
  <1> QED
    BY <1>1, <1>3, <1>5, <1>6

LEMMA DispatchCommitStep ==
    ASSUME ExpiryTypeOK, NEW w \in Workers, DispatchCommit(w)
    PROVE  /\ ExpiryTypeOK'
           /\ run[w].stage = "dispatching" /\ run'[w].stage = "closing"
           /\ run'[w].conn = NoConn /\ run'[w].lock = run[w].lock
           /\ run[w].due = {} /\ run[w].sending = {}
           /\ run'[w].due = {} /\ run'[w].sending = {} /\ run'[w].rows = {}
           /\ log' = log \cup run[w].rows
           /\ \A n \in Notice : inbox'[n] = IF n \in run[w].rows THEN inbox[n] + 1 ELSE inbox[n]
           /\ \A v \in Workers : v # w => run'[v] = run[v]
           /\ GivesBack(w) /\ Breaks(w)
           /\ UNCHANGED <<pushed, lent>>
  <1> DEFINE r == [run[w] EXCEPT !.stage = "closing", !.conn = NoConn, !.rows = {}]
  <1>1. /\ run[w].stage = "dispatching" /\ run[w].due = {} /\ run[w].sending = {}
        /\ log' = log \cup run[w].rows
        /\ inbox' = [n \in Notice |-> IF n \in run[w].rows THEN inbox[n] + 1 ELSE inbox[n]]
        /\ GivesBack(w) /\ Breaks(w)
        /\ UNCHANGED <<day, sub, edit, pushed, lent>>
    BY DEF DispatchCommit
  <1>2. run[w] \in Run /\ run[w].rows \in SUBSET Notice
    BY RunIsRun, RunFields
  <1>3. /\ r \in Run /\ r.stage = "closing" /\ r.conn = NoConn /\ r.lock = run[w].lock
        /\ r.due = run[w].due /\ r.sending = run[w].sending /\ r.rows = {}
    BY <1>2 DEF Run
  <1>4. run' = [run EXCEPT ![w] = r]
    BY DEF DispatchCommit, ExpiryTypeOK
  <1> HIDE DEF r
  <1>5. /\ run' \in [Workers -> Run] /\ run'[w] = r
        /\ \A v \in Workers : v # w => run'[v] = run[v]
    BY <1>3, <1>4, RunWritten
  <1>6. inbox' \in [Notice -> Nat] /\ log' \subseteq Notice
    BY <1>1, <1>2 DEF ExpiryTypeOK
  <1>7. ExpiryTypeOK'
    BY <1>1, <1>5, <1>6, GivesBackTypes, GivesBackSafely DEF ExpiryTypeOK, LockTypeOK
  <1> QED
    BY <1>1, <1>3, <1>5, <1>7

LEMMA NothingDueStep ==
    ASSUME ExpiryTypeOK, NEW w \in Workers, NothingDue(w)
    PROVE  /\ ExpiryTypeOK'
           /\ run[w].stage = "checked" /\ run'[w].stage = "closing"
           /\ run'[w].conn = run[w].conn /\ run'[w].lock = run[w].lock
           /\ run'[w].due = run[w].due
           /\ run'[w].sending = run[w].sending /\ run'[w].rows = run[w].rows
           /\ \A v \in Workers : v # w => run'[v] = run[v]
           /\ UNCHANGED <<log, inbox, pushed, broken, lockVars>>
  <1> DEFINE r == [run[w] EXCEPT !.stage = "closing"]
  <1>1. /\ run[w].stage = "checked"
        /\ UNCHANGED <<day, sub, edit, log, inbox, pushed, broken, lockVars>>
    BY DEF NothingDue
  <1>2. run[w] \in Run
    BY RunIsRun
  <1>3. /\ r \in Run /\ r.stage = "closing" /\ r.conn = run[w].conn /\ r.lock = run[w].lock
        /\ r.due = run[w].due /\ r.sending = run[w].sending /\ r.rows = run[w].rows
    BY <1>2 DEF Run
  <1>4. run' = [run EXCEPT ![w] = r]
    BY DEF NothingDue, ExpiryTypeOK
  <1> HIDE DEF r
  <1>5. /\ run' \in [Workers -> Run] /\ run'[w] = r
        /\ \A v \in Workers : v # w => run'[v] = run[v]
    BY <1>3, <1>4, RunWritten
  <1>6. ExpiryTypeOK'
    BY <1>1, <1>5 DEF ExpiryTypeOK, LockTypeOK, lockVars
  <1> QED
    BY <1>1, <1>3, <1>5, <1>6

LEMMA UnlockStep ==
    ASSUME ExpiryTypeOK, NEW w \in Workers, Unlock(w)
    PROVE  /\ ExpiryTypeOK'
           /\ run[w].stage = "closing" /\ run'[w].stage = "unlocking"
           /\ run'[w].lock = NoConn
           /\ run'[w].due = run[w].due
           /\ run'[w].sending = run[w].sending /\ run'[w].rows = {}
           /\ \A v \in Workers : v # w => run'[v] = run[v] /\ pool'[v] = pool[v]
           /\ \E c \in Free(w) \cup OwnConn(w) :
                /\ pool'[w] = pool[w] \ {c} /\ run'[w].conn = c
                /\ run[w].conn \in {c, NoConn}
                /\ \A d \in Conns : d # c => holds'[d] = holds[d]
           /\ UNCHANGED <<log, inbox, pushed, broken, lent>>
  <1>1. /\ run[w].stage = "closing"
        /\ UNCHANGED <<day, sub, edit, log, inbox, pushed, broken, lent>>
    BY DEF Unlock
  <1>2. PICK c \in IF run[w].conn = NoConn THEN Free(w) ELSE {run[w].conn} :
           /\ Checkout(w, c)
           /\ Release(c)
           /\ run' = [run EXCEPT ![w] = [@ EXCEPT !.stage = "unlocking", !.conn = c,
                                                  !.lock = NoConn, !.rows = {}]]
    BY DEF Unlock
  <1> DEFINE r == [run[w] EXCEPT !.stage = "unlocking", !.conn = c, !.lock = NoConn, !.rows = {}]
  <1>3. /\ c \in Conns /\ c \in Free(w) \cup OwnConn(w) /\ run[w] \in Run
        /\ run[w].conn \in {c, NoConn}
    BY RunIsRun, RunFields, FreeIsConn DEF ExpiryTypeOK, OwnConn
  <1>4. /\ r \in Run /\ r.stage = "unlocking" /\ r.conn = c /\ r.lock = NoConn
        /\ r.due = run[w].due /\ r.sending = run[w].sending /\ r.rows = {}
    BY <1>3 DEF Run
  <1>5. run' = [run EXCEPT ![w] = r]
    BY <1>2 DEF ExpiryTypeOK
  <1> HIDE DEF r
  <1>6. /\ run' \in [Workers -> Run] /\ run'[w] = r
        /\ \A v \in Workers : v # w => run'[v] = run[v]
    BY <1>4, <1>5, RunWritten
  <1>7. /\ pool' \in [Workers -> SUBSET Conns] /\ pool'[w] = pool[w] \ {c}
        /\ \A v \in Workers : v # w => pool'[v] = pool[v]
    BY <1>2, CheckoutTypes DEF ExpiryTypeOK
  <1>8. holds' \in [Conns -> Nat] /\ \A d \in Conns : d # c => holds'[d] = holds[d]
    BY <1>2, <1>3 DEF Release, ExpiryTypeOK, LockTypeOK
  <1>9. ExpiryTypeOK'
    BY <1>1, <1>6, <1>7, <1>8 DEF ExpiryTypeOK, LockTypeOK
  <1> QED
    BY <1>1, <1>3, <1>4, <1>6, <1>7, <1>8, <1>9

(* A run that is over, whichever way.                                      *)
LEMMA RunOver ==
    ASSUME ExpiryTypeOK, NEW w \in Workers, NEW stage \in {"off", "ended"},
           run' = [run EXCEPT ![w] = [Off(run[w].last) EXCEPT !.stage = stage]]
    PROVE  /\ run' \in [Workers -> Run]
           /\ run'[w].stage = stage
           /\ run'[w].conn = NoConn /\ run'[w].lock = NoConn
           /\ run'[w].due = {} /\ run'[w].sending = {} /\ run'[w].rows = {}
           /\ \A v \in Workers : v # w => run'[v] = run[v]
  <1> DEFINE r == [Off(run[w].last) EXCEPT !.stage = stage]
  <1>1. run[w].last \in -1 .. MaxDay
    BY RunIsRun, RunFields
  <1>2. Off(run[w].last) \in Run
    BY <1>1, OffIsRun
  <1>3. /\ r \in Run /\ r.stage = stage /\ r.conn = NoConn /\ r.lock = NoConn
        /\ r.due = {} /\ r.sending = {} /\ r.rows = {}
    BY <1>1, <1>2, OffIsRun DEF Run
  <1>4. run' = [run EXCEPT ![w] = r]
    OBVIOUS
  <1> HIDE DEF r
  <1> QED
    BY <1>3, <1>4, RunWritten

LEMMA EndStep ==
    ASSUME ExpiryTypeOK, NEW w \in Workers, End(w)
    PROVE  /\ ExpiryTypeOK'
           /\ run[w].stage = "unlocking" /\ run'[w].stage = "ended"
           /\ run'[w].conn = NoConn /\ run'[w].lock = NoConn
           /\ run'[w].due = {} /\ run'[w].sending = {} /\ run'[w].rows = {}
           /\ \A v \in Workers : v # w => run'[v] = run[v]
           /\ GivesBack(w) /\ Breaks(w)
           /\ UNCHANGED <<log, inbox, pushed, lent>>
  <1>1. /\ run[w].stage = "unlocking" /\ GivesBack(w) /\ Breaks(w)
        /\ run' = [run EXCEPT ![w] = [Off(run[w].last) EXCEPT !.stage = "ended"]]
        /\ UNCHANGED <<day, sub, edit, log, inbox, pushed, lent>>
    BY DEF End
  <1>2. /\ run' \in [Workers -> Run] /\ run'[w].stage = "ended"
        /\ run'[w].conn = NoConn /\ run'[w].lock = NoConn
        /\ run'[w].due = {} /\ run'[w].sending = {} /\ run'[w].rows = {}
        /\ \A v \in Workers : v # w => run'[v] = run[v]
    BY <1>1, RunOver
  <1>3. ExpiryTypeOK'
    BY <1>1, <1>2, GivesBackTypes, GivesBackSafely DEF ExpiryTypeOK, LockTypeOK
  <1> QED
    BY <1>1, <1>2, <1>3

LEMMA RaisesStep ==
    ASSUME ExpiryTypeOK, NEW w \in Workers, Raises(w)
    PROVE  /\ ExpiryTypeOK'
           /\ broken'
           /\ InTransaction(w) /\ run'[w].stage = "closing"
           /\ run'[w].conn = run[w].conn /\ run'[w].lock = run[w].lock
           /\ run'[w].sending = {} /\ run'[w].rows = run[w].rows
           /\ \A v \in Workers : v # w => run'[v] = run[v]
           /\ UNCHANGED <<log, inbox, pushed, lockVars>>
  <1> DEFINE r == [run[w] EXCEPT !.stage = "closing", !.sending = {}]
  <1>1. /\ InTransaction(w) /\ broken' = TRUE
        /\ UNCHANGED <<day, sub, edit, log, inbox, pushed, lockVars>>
    BY DEF Raises
  <1>2. run[w] \in Run
    BY RunIsRun
  <1>3. /\ r \in Run /\ r.stage = "closing" /\ r.conn = run[w].conn /\ r.lock = run[w].lock
        /\ r.sending = {} /\ r.rows = run[w].rows
    BY <1>2 DEF Run
  <1>4. run' = [run EXCEPT ![w] = r]
    BY DEF Raises, ExpiryTypeOK
  <1> HIDE DEF r
  <1>5. /\ run' \in [Workers -> Run] /\ run'[w] = r
        /\ \A v \in Workers : v # w => run'[v] = run[v]
    BY <1>3, <1>4, RunWritten
  <1>6. ExpiryTypeOK'
    BY <1>1, <1>5 DEF ExpiryTypeOK, LockTypeOK, lockVars
  <1> QED
    BY <1>1, <1>3, <1>5, <1>6

LEMMA FailsStep ==
    ASSUME ExpiryTypeOK, NEW w \in Workers, Fails(w)
    PROVE  /\ ExpiryTypeOK'
           /\ broken'
           /\ run'[w].stage = "ended"
           /\ run'[w].conn = NoConn /\ run'[w].lock = NoConn
           /\ run'[w].due = {} /\ run'[w].sending = {} /\ run'[w].rows = {}
           /\ \A v \in Workers : v # w => run'[v] = run[v]
           /\ GivesBack(w)
           /\ UNCHANGED <<log, inbox, pushed, lent>>
  <1>1. /\ broken' = TRUE /\ GivesBack(w)
        /\ run' = [run EXCEPT ![w] = [Off(run[w].last) EXCEPT !.stage = "ended"]]
        /\ UNCHANGED <<day, sub, edit, log, inbox, pushed, lent>>
    BY DEF Fails
  <1>2. /\ run' \in [Workers -> Run] /\ run'[w].stage = "ended"
        /\ run'[w].conn = NoConn /\ run'[w].lock = NoConn
        /\ run'[w].due = {} /\ run'[w].sending = {} /\ run'[w].rows = {}
        /\ \A v \in Workers : v # w => run'[v] = run[v]
    BY <1>1, RunOver
  <1>3. ExpiryTypeOK'
    BY <1>1, <1>2, GivesBackTypes DEF ExpiryTypeOK, LockTypeOK
  <1> QED
    BY <1>1, <1>2, <1>3

LEMMA DiesStep ==
    ASSUME ExpiryTypeOK, NEW w \in Workers, Dies(w)
    PROVE  /\ ExpiryTypeOK'
           /\ ~broken' => ~broken /\ run[w].stage \in {"off", "ended"}
           /\ run'[w].stage = "off"
           /\ run'[w].conn = NoConn /\ run'[w].lock = NoConn
           /\ run'[w].due = {} /\ run'[w].sending = {} /\ run'[w].rows = {}
           /\ pool'[w] = {} /\ lent'[w] = {}
           /\ \A v \in Workers : v # w =>
                run'[v] = run[v] /\ pool'[v] = pool[v] /\ lent'[v] = lent[v]
           /\ \A d \in Conns : d \notin pool[w] \cup lent[w] \cup OwnConn(w) => holds'[d] = holds[d]
           /\ UNCHANGED <<log, inbox, pushed>>
  <1>1. /\ broken' = (broken \/ run[w].stage \notin {"off", "ended"})
        /\ ProcessDies(w, OwnConn(w))
        /\ run' = [run EXCEPT ![w] = Off(run[w].last)]
        /\ UNCHANGED <<day, sub, edit, log, inbox, pushed>>
    BY DEF Dies
  <1>2. run[w].last \in -1 .. MaxDay
    BY RunIsRun, RunFields
  <1>3. /\ Off(run[w].last) \in Run
        /\ Off(run[w].last).stage = "off" /\ Off(run[w].last).conn = NoConn
        /\ Off(run[w].last).lock = NoConn /\ Off(run[w].last).due = {}
        /\ Off(run[w].last).sending = {} /\ Off(run[w].last).rows = {}
    BY <1>2, OffIsRun
  <1>4. /\ run' \in [Workers -> Run] /\ run'[w] = Off(run[w].last)
        /\ \A v \in Workers : v # w => run'[v] = run[v]
    BY <1>1, <1>3, RunWritten
  <1>5. /\ LockTypeOK'
        /\ pool'[w] = {} /\ lent'[w] = {}
        /\ \A v \in Workers : v # w => pool'[v] = pool[v] /\ lent'[v] = lent[v]
        /\ \A d \in Conns : d \notin pool[w] \cup lent[w] \cup OwnConn(w) => holds'[d] = holds[d]
    BY <1>1 DEF ProcessDies, LockTypeOK, ExpiryTypeOK
  <1>6. broken' \in BOOLEAN /\ (~broken' => ~broken /\ run[w].stage \in {"off", "ended"})
    BY <1>1
  <1>7. ExpiryTypeOK'
    BY <1>1, <1>4, <1>5, <1>6 DEF ExpiryTypeOK
  <1> QED
    BY <1>1, <1>3, <1>4, <1>5, <1>6, <1>7

(* Other requests of the process take a connection or give one back.       *)
LEMMA TrafficStep ==
    ASSUME ExpiryTypeOK, NEW w \in Workers, Traffic(w)
    PROVE  /\ ExpiryTypeOK'
           /\ UNCHANGED <<log, inbox, pushed, run>>
           /\ \A v \in Workers : v # w => pool'[v] = pool[v] /\ lent'[v] = lent[v]
           /\ pool'[w] \cup lent'[w] \subseteq pool[w] \cup lent[w] \cup Free(w)
           /\ ~broken' =>
                /\ ~broken
                /\ \A v \in Workers : run[v].lock # NoConn =>
                     /\ holds'[run[v].lock] = holds[run[v].lock]
                     /\ run[v].lock \in pool[w] \cup lent[w]
                          => run[v].lock \in pool'[w] \cup lent'[w]
  <1> USE DEF ExpiryTypeOK
  <1>1. UNCHANGED <<day, sub, edit, log, inbox, pushed, run>>
    BY DEF Traffic
  <1>2. \A v \in Workers : run[v].lock \in Conns \cup {NoConn}
    BY RunIsRun, RunFields
  <1>3. ASSUME NEW c \in Free(w), Borrow(w, c), UNCHANGED broken
        PROVE  /\ LockTypeOK' /\ broken' = broken /\ holds' = holds
               /\ \A v \in Workers : v # w => pool'[v] = pool[v] /\ lent'[v] = lent[v]
               /\ pool'[w] = pool[w] \ {c} /\ lent'[w] = lent[w] \cup {c}
    <2>1. c \in Conns
      BY FreeIsConn
    <2>2. Checkout(w, c) /\ lent' = [lent EXCEPT ![w] = @ \cup {c}] /\ holds' = holds
      BY <1>3 DEF Borrow
    <2>3. /\ pool' \in [Workers -> SUBSET Conns] /\ pool'[w] = pool[w] \ {c}
          /\ \A v \in Workers : v # w => pool'[v] = pool[v]
      BY <2>2, CheckoutTypes
    <2> QED
      BY <1>3, <2>1, <2>2, <2>3 DEF LockTypeOK
  <1>4. ASSUME NEW c \in lent[w], GiveBack(w, c), broken' = (broken \/ LosesLock(w, c))
        PROVE  /\ LockTypeOK' /\ broken' \in BOOLEAN
               /\ \A v \in Workers : v # w => pool'[v] = pool[v] /\ lent'[v] = lent[v]
               /\ pool'[w] \subseteq pool[w] \cup {c} /\ pool[w] \subseteq pool'[w]
               /\ lent'[w] = lent[w] \ {c}
               /\ ~broken' =>
                    /\ ~broken
                    /\ \A v \in Workers : run[v].lock # NoConn =>
                         /\ holds'[run[v].lock] = holds[run[v].lock]
                         /\ run[v].lock = c => run[v].lock \in pool'[w]
    <2>1. c \in Conns
      BY DEF LockTypeOK
    <2>2. Checkin(w, c) /\ lent' = [lent EXCEPT ![w] = @ \ {c}] /\ holds' = HoldsAfterCheckin(w, c)
      BY <1>4 DEF GiveBack
    <2>3. /\ pool' \in [Workers -> SUBSET Conns] /\ holds' \in [Conns -> Nat]
          /\ \A v \in Workers : v # w => pool'[v] = pool[v]
          /\ pool'[w] \subseteq pool[w] \cup {c}
          /\ Kept(w) => pool'[w] = pool[w] \cup {c} /\ holds' = holds
          /\ ~Kept(w) => /\ pool'[w] = pool[w]
                         /\ \A d \in Conns : d # c => holds'[d] = holds[d]
      BY <2>1, <2>2, CheckinTypes
    <2>4. lent' \in [Workers -> SUBSET Conns] /\ lent'[w] = lent[w] \ {c}
          /\ \A v \in Workers : v # w => lent'[v] = lent[v]
      BY <2>2 DEF LockTypeOK
    <2>5. ~broken' => ~broken /\ (Kept(w) \/ \A v \in Workers : run[v].lock # c)
      BY <1>4 DEF LosesLock
    <2>6. ~broken' => \A v \in Workers : run[v].lock # NoConn =>
                         /\ holds'[run[v].lock] = holds[run[v].lock]
                         /\ run[v].lock = c => run[v].lock \in pool'[w]
      BY <1>2, <2>3, <2>5
    <2>7. LockTypeOK' /\ broken' \in BOOLEAN
      BY <1>4, <2>3, <2>4 DEF LockTypeOK
    <2> QED
      BY <2>3, <2>4, <2>5, <2>6, <2>7
  <1>5. CASE \E c \in Free(w) : Borrow(w, c) /\ UNCHANGED broken
    BY <1>1, <1>3, <1>5
  <1>6. CASE \E c \in lent[w] : GiveBack(w, c) /\ broken' = (broken \/ LosesLock(w, c))
    BY <1>1, <1>4, <1>6
  <1> QED
    BY <1>5, <1>6 DEF Traffic

(* Teachers and the calendar.                                              *)
Edits == (\E s \in Subs : UpdateStatus(s) \/ CommitStatus(s) \/ SetEnd(s)) \/ NextDay

LEMMA AllowedIsStatus == \A s \in Status : Allowed[s] \subseteq Status
  <1> SUFFICES ASSUME NEW s \in Status PROVE Allowed[s] \subseteq Status
    OBVIOUS
  <1> QED
    BY DEF Allowed, Status

LEMMA EditsStep ==
    ASSUME ExpiryTypeOK, Edits
    PROVE  ExpiryTypeOK' /\ UNCHANGED <<log, inbox, pushed, run, broken, lockVars>>
  <1> USE DEF ExpiryTypeOK
  <1>1. ASSUME NEW s \in Subs, UpdateStatus(s)
        PROVE  ExpiryTypeOK' /\ UNCHANGED <<log, inbox, pushed, run, broken, lockVars>>
    <2>1. PICK target \in Allowed[sub[s].status] : edit' = [edit EXCEPT ![s] = target]
      BY <1>1 DEF UpdateStatus
    <2>2. target \in Status
      BY <2>1, AllowedIsStatus
    <2>3. UNCHANGED <<day, sub, log, inbox, pushed, run, broken, lockVars>>
      BY <1>1 DEF UpdateStatus
    <2> QED
      BY <2>1, <2>2, <2>3 DEF LockTypeOK, lockVars
  <1>2. ASSUME NEW s \in Subs, CommitStatus(s)
        PROVE  ExpiryTypeOK' /\ UNCHANGED <<log, inbox, pushed, run, broken, lockVars>>
    <2>1. /\ edit[s] # NoStatus
          /\ sub' = [sub EXCEPT ![s].status = edit[s]]
          /\ edit' = [edit EXCEPT ![s] = NoStatus]
          /\ UNCHANGED <<day, log, inbox, pushed, run, broken, lockVars>>
      BY <1>2 DEF CommitStatus
    <2>2. edit[s] \in Status
      BY <2>1
    <2> QED
      BY <2>1, <2>2 DEF LockTypeOK, lockVars
  <1>3. ASSUME NEW s \in Subs, SetEnd(s)
        PROVE  ExpiryTypeOK' /\ UNCHANGED <<log, inbox, pushed, run, broken, lockVars>>
    BY <1>3 DEF SetEnd, LockTypeOK, lockVars
  <1>4. ASSUME NextDay
        PROVE  ExpiryTypeOK' /\ UNCHANGED <<log, inbox, pushed, run, broken, lockVars>>
    BY <1>4, ExpiryAssumption DEF NextDay, LockTypeOK, lockVars
  <1> QED
    BY <1>1, <1>2, <1>3, <1>4 DEF Edits

-----------------------------------------------------------------------------
(* Connections and the lock *)

Own(w) == pool[w] \cup lent[w] \cup OwnConn(w)

(* What the stage of a run tells: whether its session has a connection,    *)
(* whether it has taken the lock, whether it may have rows.                *)
StageInv ==
    \A w \in Workers :
        /\ run[w].stage \in {"off", "checked", "ended"} => run[w].conn = NoConn
        /\ run[w].lock # NoConn
             <=> run[w].stage \in {"checking", "checked", "dispatching", "closing"}
        /\ run[w].stage # "dispatching" => run[w].sending = {}
        /\ run[w].stage \notin {"dispatching", "closing"} => run[w].rows = {}

Separate == \A v, w \in Workers : v # w => Own(v) \cap Own(w) = {}

Held ==
    ~broken => \A w \in Workers :
        run[w].lock # NoConn => run[w].lock \in Own(w) /\ holds[run[w].lock] > 0

OneRun ==
    ~broken => \A v, w \in Workers : run[v].lock # NoConn /\ run[w].lock # NoConn => v = w

LockInv ==
    /\ ExpiryTypeOK
    /\ StageInv
    /\ Separate
    /\ Held
    /\ OneRun

LEMMA FreeIsNobodyElses ==
    ASSUME ExpiryTypeOK, Separate, NEW w \in Workers, NEW c \in Free(w)
    PROVE  \A v \in Workers : v # w => c \notin Own(v)
  <1>1. CASE pool[w] = {}
    <2>1. c \notin OpenConns
      BY <1>1 DEF Free, Available
    <2> QED
      BY <2>1 DEF OpenConns, Own
  <1>2. CASE pool[w] # {}
    <2>1. c \in Own(w)
      BY <1>2 DEF Free, Available, Own
    <2> QED
      BY <2>1 DEF Separate
  <1> QED
    BY <1>1, <1>2

LEMMA SeparateKept ==
    ASSUME ExpiryTypeOK, Separate, NEW w \in Workers,
           \A v \in Workers : v # w => Own(v)' = Own(v),
           Own(w)' \subseteq Own(w) \cup Free(w)
    PROVE  Separate'
  <1>1. \A v \in Workers : v # w => Own(v)' \cap Own(w)' = {}
    BY FreeIsNobodyElses DEF Separate
  <1> QED
    BY <1>1 DEF Separate

(* A step that takes no lock and leaves those of other runs where they     *)
(* are, unless it breaks something.                                        *)
LEMMA LocksKept ==
    ASSUME Held, OneRun,
           ~broken' =>
             /\ ~broken
             /\ \A v \in Workers :
                  /\ run'[v].lock \in {run[v].lock, NoConn}
                  /\ run'[v].lock # NoConn =>
                       /\ holds'[run[v].lock] = holds[run[v].lock]
                       /\ run[v].lock \in Own(v) => run[v].lock \in Own(v)'
    PROVE  Held' /\ OneRun'
  BY DEF Held, OneRun

LEMMA StartKeepsLockInv ==
    ASSUME LockInv, NEW w \in Workers, Start(w)
    PROVE  LockInv'
  <1> USE DEF LockInv
  <1>1. /\ ExpiryTypeOK' /\ run[w].stage \in {"off", "ended"}
        /\ \A v \in Workers : v # w => run'[v] = run[v] /\ pool'[v] = pool[v]
        /\ UNCHANGED <<log, inbox, pushed, broken, lent>>
        /\ run'[w].sending = {} /\ run'[w].rows = {}
    BY StartStep
  <1>2. PICK c \in Free(w) :
          \/ /\ Granted(c)
             /\ pool'[w] = pool[w] \ {c}
             /\ holds' = [holds EXCEPT ![c] = @ + 1]
             /\ run'[w].stage = "checking" /\ run'[w].conn = c /\ run'[w].lock = c
          \/ /\ pool'[w] = pool[w] \cup {c}
             /\ holds' = holds
             /\ run'[w].stage = "off" /\ run'[w].conn = NoConn /\ run'[w].lock = NoConn
    BY StartStep
  <1>3. c \in Conns /\ c # NoConn /\ holds \in [Conns -> Nat]
    BY FreeIsConn, ExpiryAssumption DEF ExpiryTypeOK, LockTypeOK
  <1>4. run[w].lock = NoConn /\ run[w].conn = NoConn
    BY <1>1 DEF StageInv
  <1>5. \A v \in Workers : v # w => Own(v)' = Own(v)
    BY <1>1 DEF Own, OwnConn
  <1>6. Own(w)' \subseteq Own(w) \cup Free(w)
    BY <1>1, <1>2 DEF Own, OwnConn
  <1>7. Separate'
    BY <1>5, <1>6, SeparateKept
  <1>8. StageInv'
    BY <1>1, <1>2, <1>3 DEF StageInv
  <1>9. CASE Granted(c) /\ run'[w].lock = c
    <2>1. ~broken => \A v \in Workers : run[v].lock = NoConn
      <3> SUFFICES ASSUME ~broken, NEW v \in Workers, run[v].lock # NoConn PROVE FALSE
        OBVIOUS
      <3>1. v # w /\ run[v].lock \in Own(v) /\ holds[run[v].lock] > 0
        BY <1>4 DEF Held
      <3>2. run[v].lock # c
        BY <3>1, FreeIsNobodyElses
      <3>3. run[v].lock \in Conns
        BY RunIsRun, RunFields
      <3> QED
        BY <1>9, <3>1, <3>2, <3>3 DEF Granted
    <2>2. OneRun'
      BY <1>1, <2>1 DEF OneRun
    <2>3. c \in Own(w)' /\ holds'[c] > 0
      BY <1>2, <1>3, <1>9 DEF Own, OwnConn
    <2>4. Held'
      BY <1>1, <1>9, <2>1, <2>3 DEF Held
    <2> QED
      BY <1>1, <1>7, <1>8, <2>2, <2>4
  <1>10. CASE run'[w].lock = NoConn
    <2>1. holds' = holds
      BY <1>2, <1>3, <1>10
    <2>2. Held' /\ OneRun'
      BY <1>1, <1>4, <1>5, <1>10, <2>1, LocksKept
    <2> QED
      BY <1>1, <1>7, <1>8, <2>2
  <1> QED
    BY <1>2, <1>9, <1>10

(* CheckCommit, DispatchCommit, End and Fails give the connection back.    *)
LEMMA GivingBackKeepsLockInv ==
    ASSUME LockInv, ExpiryTypeOK', StageInv', NEW w \in Workers, GivesBack(w),
           Breaks(w) \/ broken',
           run'[w].conn = NoConn, run'[w].lock \in {run[w].lock, NoConn},
           \A v \in Workers : v # w => run'[v] = run[v],
           UNCHANGED lent
    PROVE  LockInv'
  <1> USE DEF LockInv
  <1>1. /\ \A v \in Workers : v # w => pool'[v] = pool[v]
        /\ pool[w] \subseteq pool'[w] /\ pool'[w] \subseteq pool[w] \cup OwnConn(w)
    BY GivesBackTypes
  <1>2. \A v \in Workers : v # w => Own(v)' = Own(v)
    BY <1>1 DEF Own, OwnConn
  <1>3. Own(w)' \subseteq Own(w) \cup Free(w)
    BY <1>1 DEF Own, OwnConn
  <1>4. Separate'
    BY <1>2, <1>3, SeparateKept
  <1>5. ~broken' =>
           /\ ~broken
           /\ \A v \in Workers : run[v].lock # NoConn =>
                /\ holds'[run[v].lock] = holds[run[v].lock]
                /\ run[v].lock \in OwnConn(w) => run[v].lock \in pool'[w]
    BY GivesBackSafely
  <1>6. ~broken' => \A v \in Workers : run[v].lock # NoConn /\ run[v].lock \in Own(v)
                                          => run[v].lock \in Own(v)'
    BY <1>1, <1>2, <1>5 DEF Own
  <1>7. Held' /\ OneRun'
    BY <1>5, <1>6, LocksKept
  <1> QED
    BY <1>4, <1>7

(* DispatchBegin and Unlock take a connection that is free, or their own.  *)
LEMMA TakingKeepsLockInv ==
    ASSUME LockInv, ExpiryTypeOK', StageInv', NEW w \in Workers,
           NEW c \in Free(w) \cup OwnConn(w),
           pool'[w] = pool[w] \ {c}, run'[w].conn = c, c # NoConn,
           run[w].conn \in {c, NoConn},
           run'[w].lock \in {run[w].lock, NoConn},
           \A v \in Workers : v # w => run'[v] = run[v] /\ pool'[v] = pool[v],
           ~broken => \A v \in Workers :
              run'[v].lock # NoConn => holds'[run[v].lock] = holds[run[v].lock],
           UNCHANGED <<broken, lent>>
    PROVE  LockInv'
  <1> USE DEF LockInv
  <1>1. \A v \in Workers : v # w => Own(v)' = Own(v)
    BY DEF Own, OwnConn
  <1>2. Own(w)' \subseteq Own(w) \cup Free(w) /\ Own(w) \subseteq Own(w)'
    BY DEF Own, OwnConn
  <1>3. Separate'
    BY <1>1, <1>2, SeparateKept
  <1>4. Held' /\ OneRun'
    BY <1>1, <1>2, LocksKept
  <1> QED
    BY <1>3, <1>4

(* Steps that leave the connections alone.                                 *)
LEMMA StayingKeepsLockInv ==
    ASSUME LockInv, ExpiryTypeOK', StageInv',
           ~broken' => ~broken,
           \A v \in Workers : run'[v].conn = run[v].conn /\ run'[v].lock = run[v].lock,
           UNCHANGED lockVars
    PROVE  LockInv'
  <1> USE DEF LockInv, lockVars
  <1>1. \A v \in Workers : Own(v)' = Own(v)
    BY DEF Own, OwnConn
  <1>2. Separate'
    BY <1>1 DEF Separate
  <1>3. Held' /\ OneRun'
    BY <1>1, LocksKept
  <1> QED
    BY <1>2, <1>3

LEMMA LockInvJobStep ==
    ASSUME LockInv, NEW w \in Workers, JobStep(w)
    PROVE  LockInv'
  <1> USE DEF LockInv
  <1>1. run[w].lock \in Conns \cup {NoConn} /\ run[w].conn \in Conns \cup {NoConn}
    BY RunIsRun, RunFields
  <1>2. CASE Start(w)
    BY <1>2, StartKeepsLockInv
  <1>3. CASE CheckCommit(w)
    <2>1. StageInv'
      BY <1>3, CheckCommitStep DEF StageInv
    <2> QED
      BY <1>3, <2>1, CheckCommitStep, GivingBackKeepsLockInv
  <1>4. CASE DispatchBegin(w)
    <2>1. PICK c \in Free(w) : pool'[w] = pool[w] \ {c} /\ run'[w].conn = c
      BY <1>4, DispatchBeginStep
    <2>2. c # NoConn /\ run[w].conn = NoConn
      BY <1>4, FreeIsConn, ExpiryAssumption, DispatchBeginStep DEF StageInv, ExpiryTypeOK
    <2>3. StageInv'
      BY <1>4, DispatchBeginStep DEF StageInv
    <2>4. /\ run'[w].lock = run[w].lock /\ UNCHANGED <<broken, lent, holds>> /\ ExpiryTypeOK'
          /\ \A v \in Workers : v # w => run'[v] = run[v] /\ pool'[v] = pool[v]
      BY <1>4, DispatchBeginStep
    <2>5. \A v \in Workers : holds'[run[v].lock] = holds[run[v].lock]
      BY <2>4
    <2> QED
      BY <2>1, <2>2, <2>3, <2>4, <2>5, TakingKeepsLockInv
  <1>5. CASE \E n \in Notice : Send(w, n)
    <2>1. PICK n \in Notice : Send(w, n)
      BY <1>5
    <2>2. StageInv'
      <3>1. /\ run[w].stage = "dispatching" /\ run'[w].stage = "dispatching"
            /\ run'[w].lock = run[w].lock
            /\ \A v \in Workers : v # w => run'[v] = run[v]
        BY <2>1, SendStep
      <3> QED
        BY <3>1 DEF StageInv
    <2> QED
      BY <2>1, <2>2, SendStep, StayingKeepsLockInv
  <1>6. CASE Record(w)
    <2>1. StageInv'
      BY <1>6, RecordStep DEF StageInv
    <2> QED
      BY <1>6, <2>1, RecordStep, StayingKeepsLockInv
  <1>7. CASE DispatchCommit(w)
    <2>1. StageInv'
      BY <1>7, DispatchCommitStep DEF StageInv
    <2> QED
      BY <1>7, <2>1, DispatchCommitStep, GivingBackKeepsLockInv
  <1>8. CASE NothingDue(w)
    <2>1. StageInv'
      BY <1>8, NothingDueStep DEF StageInv
    <2> QED
      BY <1>8, <2>1, NothingDueStep, StayingKeepsLockInv
  <1>9. CASE Unlock(w)
    <2>1. PICK c \in Free(w) \cup OwnConn(w) :
             /\ pool'[w] = pool[w] \ {c} /\ run'[w].conn = c
             /\ run[w].conn \in {c, NoConn}
             /\ \A d \in Conns : d # c => holds'[d] = holds[d]
      BY <1>9, UnlockStep
    <2>2. c \in Conns /\ c # NoConn
      BY <1>1, <2>1, FreeIsConn, ExpiryAssumption DEF OwnConn, ExpiryTypeOK
    <2>3. /\ run[w].stage = "closing" /\ run'[w].lock = NoConn
          /\ UNCHANGED <<broken, lent>> /\ ExpiryTypeOK'
          /\ \A v \in Workers : v # w => run'[v] = run[v] /\ pool'[v] = pool[v]
      BY <1>9, UnlockStep
    <2>4. StageInv'
      BY <1>9, <2>1, <2>2, UnlockStep DEF StageInv
    <2>5. run[w].lock # NoConn
      BY <2>3 DEF StageInv
    <2>6. ~broken => \A v \in Workers : v # w => run[v].lock = NoConn
      BY <2>5 DEF OneRun
    <2>7. ~broken => \A v \in Workers :
             run'[v].lock # NoConn => holds'[run[v].lock] = holds[run[v].lock]
      BY <2>3, <2>6
    <2> QED
      BY <2>1, <2>2, <2>3, <2>4, <2>7, TakingKeepsLockInv
  <1>10. CASE End(w)
    <2>1. StageInv'
      BY <1>10, EndStep DEF StageInv
    <2> QED
      BY <1>10, <2>1, EndStep, GivingBackKeepsLockInv
  <1>11. CASE Raises(w)
    <2>1. StageInv'
      BY <1>11, RaisesStep DEF StageInv, InTransaction
    <2> QED
      BY <1>11, <2>1, RaisesStep, StayingKeepsLockInv
  <1>12. CASE Fails(w)
    <2>1. StageInv'
      BY <1>12, FailsStep DEF StageInv
    <2> QED
      BY <1>12, <2>1, FailsStep, GivingBackKeepsLockInv
  <1>13. CASE Dies(w)
    <2>1. StageInv'
      BY <1>13, DiesStep DEF StageInv
    <2>2. \A v \in Workers : v # w => Own(v)' = Own(v)
      BY <1>13, DiesStep DEF Own, OwnConn
    <2>3. Own(w)' = {}
      BY <1>13, DiesStep DEF Own, OwnConn
    <2>4. Separate'
      BY <2>2, <2>3, SeparateKept
    <2>5. ~broken' => ~broken /\ run[w].lock = NoConn
      BY <1>13, DiesStep DEF StageInv
    <2>6. ~broken' => \A v \in Workers : run[v].lock # NoConn =>
             /\ v # w /\ run[v].lock \in Conns /\ run[v].lock \notin Own(w)
      <3>1. \A v \in Workers : run[v].lock \in Conns \cup {NoConn}
        BY RunIsRun, RunFields
      <3> QED
        BY <2>5, <3>1 DEF Held, Separate
    <2>7. Held' /\ OneRun'
      <3>1. \A v \in Workers : run'[v].lock \in {run[v].lock, NoConn}
        BY <1>13, DiesStep
      <3>2. \A d \in Conns : d \notin Own(w) => holds'[d] = holds[d]
        BY <1>13, DiesStep DEF Own
      <3> QED
        BY <2>2, <2>5, <2>6, <3>1, <3>2, LocksKept
    <2> QED
      BY <1>13, <2>1, <2>4, <2>7, DiesStep
  <1> QED
    BY <1>2, <1>3, <1>4, <1>5, <1>6, <1>7, <1>8, <1>9, <1>10, <1>11, <1>12, <1>13 DEF JobStep

LEMMA TrafficKeepsLockInv ==
    ASSUME LockInv, NEW w \in Workers, Traffic(w)
    PROVE  LockInv'
  <1> USE DEF LockInv
  <1>1. StageInv'
    BY TrafficStep DEF StageInv
  <1>2. \A v \in Workers : v # w => Own(v)' = Own(v)
    BY TrafficStep DEF Own, OwnConn
  <1>3. Own(w)' \subseteq Own(w) \cup Free(w)
    BY TrafficStep DEF Own, OwnConn
  <1>4. Separate'
    BY <1>2, <1>3, SeparateKept
  <1>5. ~broken' => \A v \in Workers : run[v].lock # NoConn /\ run[v].lock \in Own(v)
                                          => run[v].lock \in Own(v)'
    BY <1>2, TrafficStep DEF Own, OwnConn
  <1>6. Held' /\ OneRun'
    BY <1>5, TrafficStep, LocksKept
  <1> QED
    BY <1>1, <1>4, <1>6, TrafficStep

(* In a stuttering step and in an edit the job stays as it is.             *)
LEMMA LockInvStep == LockInv /\ [Next]_vars => LockInv'
  <1> SUFFICES ASSUME LockInv, [Next]_vars PROVE LockInv'
    OBVIOUS
  <1>1. ASSUME ExpiryTypeOK', UNCHANGED <<log, inbox, pushed, run, broken, lockVars>>
        PROVE  LockInv'
    BY <1>1, StayingKeepsLockInv DEF StageInv, LockInv
  <1>2. CASE UNCHANGED vars
    BY <1>1, <1>2 DEF vars, expiryVars, lockVars, LockInv, ExpiryTypeOK, LockTypeOK
  <1>3. CASE Edits
    BY <1>1, <1>3, EditsStep DEF LockInv
  <1>4. ASSUME NEW w \in Workers, JobStep(w) PROVE LockInv'
    BY <1>4, LockInvJobStep
  <1>5. ASSUME NEW w \in Workers, Traffic(w) PROVE LockInv'
    BY <1>5, TrafficKeepsLockInv
  <1> QED
    BY <1>2, <1>3, <1>4, <1>5 DEF Next, Edits

-----------------------------------------------------------------------------
(* Notices *)

RowsNew ==
    /\ \A w \in Workers : run[w].rows \cap log = {}
    /\ \A v, w \in Workers : v # w => run[v].rows \cap run[w].rows = {}

NoticeInv ==
    /\ LockInv
    /\ RowsNew
    /\ NoticeOnce

LEMMA NoRowKeepsNoticeInv ==
    ASSUME NoticeInv, LockInv', UNCHANGED <<log, inbox>>,
           \A v \in Workers : run'[v].rows \subseteq run[v].rows
    PROVE  NoticeInv'
  BY DEF NoticeInv, RowsNew, NoticeOnce

(* What has gone out is in the log or about to be.                         *)
SentBy(w) == run[w].rows \cup run[w].sending

Accounted(n) == n \in log \/ \E w \in Workers : n \in SentBy(w)

PushesAccounted ==
    ~broken =>
      /\ \A w \in Workers : run[w].due \cap SentBy(w) = {}
      /\ \A w \in Workers : run[w].stage = "closing" => run[w].rows = {}
      /\ \A n \in Notice : pushed[n] = IF Accounted(n) THEN 1 ELSE 0

ExpiryInv ==
    /\ NoticeInv
    /\ PushesAccounted

LEMMA NoPushKeepsAccount ==
    ASSUME PushesAccounted, UNCHANGED pushed,
           ~broken' =>
             /\ ~broken
             /\ \A v \in Workers :
                  /\ run'[v].due \cap SentBy(v)' = {}
                  /\ run'[v].stage = "closing" => run'[v].rows = {}
             /\ \A n \in Notice : Accounted(n)' <=> Accounted(n)
    PROVE  PushesAccounted'
  BY DEF PushesAccounted

(* The other runs send nothing, as long as nothing broke.                  *)
LEMMA OthersSilent ==
    ASSUME ExpiryInv, ~broken, NEW w \in Workers, run[w].stage = "dispatching"
    PROVE  \A v \in Workers : v # w => run[v].rows = {} /\ run[v].sending = {}
  <1> USE DEF ExpiryInv, NoticeInv, LockInv
  <1>1. \A v \in Workers : v # w => run[v].lock = NoConn
    BY DEF StageInv, OneRun
  <1> QED
    BY <1>1 DEF StageInv

LEMMA ExpiryInvJobStep ==
    ASSUME ExpiryInv, NEW w \in Workers, JobStep(w)
    PROVE  ExpiryInv'
  <1> USE DEF ExpiryInv, NoticeInv, LockInv
  <1>1. LockInv'
    BY LockInvJobStep
  <1>2. ASSUME UNCHANGED <<log, inbox, pushed>>,
               ~broken' => ~broken,
               \A v \in Workers : v # w => run'[v] = run[v],
               run'[w].rows \subseteq run[w].rows,
               ~broken' =>
                  /\ SentBy(w)' = SentBy(w)
                  /\ run'[w].due \cap SentBy(w)' = {}
                  /\ run'[w].stage = "closing" => run'[w].rows = {}
        PROVE  ExpiryInv'
    <2>1. NoticeInv'
      BY <1>1, <1>2, NoRowKeepsNoticeInv
    <2>2. ~broken' => \A v \in Workers : SentBy(v)' = SentBy(v)
      BY <1>2 DEF SentBy
    <2>3. ~broken' => \A n \in Notice : Accounted(n)' <=> Accounted(n)
      BY <1>2, <2>2 DEF Accounted
    <2>4. ~broken' => \A v \in Workers : v # w =>
             /\ run'[v].due \cap SentBy(v)' = {}
             /\ run'[v].stage = "closing" => run'[v].rows = {}
      BY <1>2, <2>2 DEF PushesAccounted
    <2>5. PushesAccounted'
      BY <1>2, <2>3, <2>4, NoPushKeepsAccount
    <2> QED
      BY <2>1, <2>5
  <1>3. run[w].stage \in {"off", "checking", "checked", "unlocking", "ended"} => SentBy(w) = {}
    BY DEF StageInv, SentBy
  <1>4. ~broken /\ run[w].stage = "closing" => SentBy(w) = {}
    BY DEF StageInv, SentBy, PushesAccounted
  <1>5. ASSUME UNCHANGED <<log, inbox, pushed>>,
               ~broken' => ~broken /\ run[w].stage # "dispatching",
               \A v \in Workers : v # w => run'[v] = run[v],
               run'[w].rows \subseteq run[w].rows,
               ~broken' => run'[w].sending = {} \/ run'[w].sending = run[w].sending
        PROVE  ExpiryInv'
    <2>1. run[w].stage \in Stage
      BY RunIsRun, RunFields
    <2>2. ~broken' => SentBy(w) = {}
      BY <1>3, <1>4, <1>5, <2>1 DEF Stage
    <2>3. ~broken' => run'[w].rows = {} /\ run'[w].sending = {}
      BY <1>5, <2>2 DEF SentBy
    <2>4. ~broken' => SentBy(w)' = {}
      BY <2>3 DEF SentBy
    <2> QED
      BY <1>2, <1>5, <2>2, <2>3, <2>4
  <1>6. CASE Start(w)
    <2>1. /\ run'[w].sending = {} /\ run'[w].rows = {} /\ run[w].stage \in {"off", "ended"}
          /\ \A v \in Workers : v # w => run'[v] = run[v]
          /\ UNCHANGED <<log, inbox, pushed, broken>>
      BY <1>6, StartStep
    <2> QED
      BY <1>5, <2>1
  <1>7. CASE CheckCommit(w)
    <2>1. /\ run[w].stage = "checking"
          /\ run'[w].sending = run[w].sending /\ run'[w].rows = run[w].rows
          /\ \A v \in Workers : v # w => run'[v] = run[v]
          /\ UNCHANGED <<log, inbox, pushed>>
          /\ ~broken' => ~broken
      BY <1>7, CheckCommitStep, GivesBackSafely
    <2> QED
      BY <1>5, <2>1
  <1>8. CASE DispatchBegin(w)
    <2>1. /\ run[w].stage = "checked"
          /\ run'[w].sending = run[w].sending /\ run'[w].rows = run[w].rows
          /\ \A v \in Workers : v # w => run'[v] = run[v]
          /\ UNCHANGED <<log, inbox, pushed, broken>>
      BY <1>8, DispatchBeginStep
    <2> QED
      BY <1>5, <2>1
  <1>9. CASE \E n \in Notice : Send(w, n)
    <2>1. PICK n \in Notice : Send(w, n)
      BY <1>9
    <2>2. /\ run[w].stage = "dispatching" /\ run'[w].stage = "dispatching"
          /\ n \in run[w].due /\ run'[w].due = run[w].due \ {n}
          /\ run[w].sending = {} /\ run'[w].rows = run[w].rows
          /\ run'[w].sending = (IF n \in log THEN {} ELSE {n})
          /\ \A v \in Workers : v # w => run'[v] = run[v]
          /\ UNCHANGED <<log, inbox, broken>>
      BY <2>1, SendStep
    <2>3. /\ pushed'[n] = IF n \in log THEN pushed[n] ELSE pushed[n] + 1
          /\ \A m \in Notice : m # n => pushed'[m] = pushed[m]
      BY <2>1, SendStep
    <2>4. NoticeInv'
      BY <1>1, <2>2, NoRowKeepsNoticeInv
    <2>5. CASE n \in log
      <3>1. \A m \in Notice : pushed'[m] = pushed[m]
        BY <2>3, <2>5
      <3>2. \A v \in Workers : SentBy(v)' = SentBy(v) /\ run'[v].due \subseteq run[v].due
        BY <2>2, <2>5 DEF SentBy
      <3>3. \A m \in Notice : Accounted(m)' <=> Accounted(m)
        BY <2>2, <3>2 DEF Accounted
      <3>4. PushesAccounted'
        BY <2>2, <3>1, <3>2, <3>3 DEF PushesAccounted
      <3> QED
        BY <2>4, <3>4
    <2>6. CASE n \notin log
      <3> SUFFICES ASSUME ~broken PROVE PushesAccounted'
        BY <2>2, <2>4 DEF PushesAccounted
      <3>1. \A v \in Workers : v # w => run[v].rows = {} /\ run[v].sending = {}
        BY <2>2, OthersSilent
      <3>2. /\ SentBy(w)' = SentBy(w) \cup {n}
            /\ \A v \in Workers : v # w => SentBy(v)' = SentBy(v) /\ SentBy(v) = {}
        BY <2>2, <2>6, <3>1 DEF SentBy
      <3>3. n \notin SentBy(w)
        BY <2>2 DEF PushesAccounted
      <3>4. ~Accounted(n) /\ Accounted(n)'
        BY <2>2, <2>6, <3>2, <3>3 DEF Accounted
      <3>5. \A m \in Notice : m # n => (Accounted(m)' <=> Accounted(m))
        BY <2>2, <3>2 DEF Accounted
      <3>6. pushed'[n] = 1
        BY <2>3, <2>6, <3>4 DEF PushesAccounted
      <3>7. \A m \in Notice : pushed'[m] = IF Accounted(m)' THEN 1 ELSE 0
        BY <2>3, <3>4, <3>5, <3>6 DEF PushesAccounted
      <3>8. \A v \in Workers : /\ run'[v].due \cap SentBy(v)' = {}
                               /\ run'[v].stage = "closing" => run'[v].rows = {}
        BY <2>2, <3>2 DEF PushesAccounted
      <3> QED
        BY <3>7, <3>8 DEF PushesAccounted
    <2> QED
      BY <2>5, <2>6
  <1>10. CASE Record(w)
    <2>1. /\ run[w].stage = "dispatching" /\ run'[w].stage = "dispatching"
          /\ run'[w].due = run[w].due
          /\ run'[w].sending = {} /\ run'[w].rows = run[w].rows \cup run[w].sending
          /\ \A v \in Workers \ {w} : run[v].rows \cap run[w].sending = {}
          /\ run[w].sending \cap log = {}
          /\ \A v \in Workers : v # w => run'[v] = run[v]
          /\ UNCHANGED <<log, inbox, pushed, broken>>
      BY <1>10, RecordStep
    <2>2. RowsNew'
      BY <2>1 DEF RowsNew
    <2>3. NoticeOnce'
      BY <2>1 DEF NoticeOnce
    <2>4. \A v \in Workers : SentBy(v)' = SentBy(v) /\ run'[v].due = run[v].due
      BY <2>1 DEF SentBy
    <2>5. \A n \in Notice : Accounted(n)' <=> Accounted(n)
      BY <2>1, <2>4 DEF Accounted
    <2>6. ~broken => \A v \in Workers :
             /\ run'[v].due \cap SentBy(v)' = {}
             /\ run'[v].stage = "closing" => run'[v].rows = {}
      BY <2>1, <2>4 DEF PushesAccounted
    <2>7. PushesAccounted'
      BY <2>1, <2>5, <2>6, NoPushKeepsAccount
    <2> QED
      BY <1>1, <2>2, <2>3, <2>7
  <1>11. CASE DispatchCommit(w)
    <2>1. /\ run[w].stage = "dispatching" /\ run[w].sending = {}
          /\ run'[w].due = {} /\ run'[w].sending = {} /\ run'[w].rows = {}
          /\ log' = log \cup run[w].rows
          /\ \A n \in Notice : inbox'[n] = IF n \in run[w].rows THEN inbox[n] + 1 ELSE inbox[n]
          /\ \A v \in Workers : v # w => run'[v] = run[v]
          /\ UNCHANGED pushed
          /\ ~broken' => ~broken
      BY <1>11, DispatchCommitStep, GivesBackSafely
    <2>2. RowsNew'
      BY <2>1 DEF RowsNew
    <2>3. NoticeOnce'
      <3>1. \A n \in run[w].rows : n \notin log
        BY DEF RowsNew
      <3> QED
        BY <2>1, <3>1 DEF NoticeOnce
    <2>4. SentBy(w) = run[w].rows /\ SentBy(w)' = {}
      BY <2>1 DEF SentBy
    <2>5. \A v \in Workers : v # w => SentBy(v)' = SentBy(v)
      BY <2>1 DEF SentBy
    <2>6. \A n \in Notice : Accounted(n)' <=> Accounted(n)
      BY <2>1, <2>4, <2>5 DEF Accounted
    <2>7. ~broken' => \A v \in Workers :
             /\ run'[v].due \cap SentBy(v)' = {}
             /\ run'[v].stage = "closing" => run'[v].rows = {}
      BY <2>1, <2>5 DEF PushesAccounted
    <2>8. PushesAccounted'
      BY <2>1, <2>6, <2>7, NoPushKeepsAccount
    <2> QED
      BY <1>1, <2>2, <2>3, <2>8
  <1>12. CASE NothingDue(w)
    <2>1. /\ run[w].stage = "checked"
          /\ run'[w].sending = run[w].sending /\ run'[w].rows = run[w].rows
          /\ \A v \in Workers : v # w => run'[v] = run[v]
          /\ UNCHANGED <<log, inbox, pushed, broken>>
      BY <1>12, NothingDueStep
    <2> QED
      BY <1>5, <2>1
  <1>13. CASE Unlock(w)
    <2>1. /\ run[w].stage = "closing"
          /\ run'[w].sending = run[w].sending /\ run'[w].rows = {}
          /\ \A v \in Workers : v # w => run'[v] = run[v]
          /\ UNCHANGED <<log, inbox, pushed, broken>>
      BY <1>13, UnlockStep
    <2> QED
      BY <1>5, <2>1
  <1>14. CASE End(w)
    <2>1. /\ run[w].stage = "unlocking"
          /\ run'[w].sending = {} /\ run'[w].rows = {}
          /\ \A v \in Workers : v # w => run'[v] = run[v]
          /\ UNCHANGED <<log, inbox, pushed>>
          /\ ~broken' => ~broken
      BY <1>14, EndStep, GivesBackSafely
    <2> QED
      BY <1>5, <2>1
  <1>15. CASE Raises(w)
    <2>1. /\ broken' /\ run'[w].rows = run[w].rows
          /\ \A v \in Workers : v # w => run'[v] = run[v]
          /\ UNCHANGED <<log, inbox, pushed>>
      BY <1>15, RaisesStep
    <2> QED
      BY <1>5, <2>1
  <1>16. CASE Fails(w)
    <2>1. /\ broken' /\ run'[w].rows = {}
          /\ \A v \in Workers : v # w => run'[v] = run[v]
          /\ UNCHANGED <<log, inbox, pushed>>
      BY <1>16, FailsStep
    <2> QED
      BY <1>5, <2>1
  <1>17. CASE Dies(w)
    <2>1. /\ ~broken' => ~broken /\ run[w].stage \in {"off", "ended"}
          /\ run'[w].sending = {} /\ run'[w].rows = {}
          /\ \A v \in Workers : v # w => run'[v] = run[v]
          /\ UNCHANGED <<log, inbox, pushed>>
      BY <1>17, DiesStep
    <2> QED
      BY <1>5, <2>1
  <1> QED
    BY <1>6, <1>7, <1>8, <1>9, <1>10, <1>11, <1>12, <1>13, <1>14, <1>15, <1>16, <1>17
       DEF JobStep

-----------------------------------------------------------------------------
(* The invariant *)

LEMMA InitExpiryInv == Init => ExpiryInv
  <1> SUFFICES ASSUME Init PROVE ExpiryInv
    OBVIOUS
  <1> USE DEF Init, LockInit
  <1>1. /\ Off(-1) \in Run
        /\ Off(-1).stage = "off" /\ Off(-1).conn = NoConn /\ Off(-1).lock = NoConn
        /\ Off(-1).due = {} /\ Off(-1).sending = {} /\ Off(-1).rows = {}
    <2>1. -1 \in -1 .. MaxDay
      BY ExpiryAssumption
    <2> QED
      BY <2>1, OffIsRun
  <1>2. \A w \in Workers :
           /\ run[w] = Off(-1) /\ pool[w] = {} /\ lent[w] = {}
    OBVIOUS
  <1>3. ExpiryTypeOK
    <2>1. sub \in [Subs -> [status : Status, end : Ends]]
      BY DEF Status
    <2>2. run \in [Workers -> Run]
      BY <1>1
    <2>3. day \in 0 .. MaxDay /\ log \subseteq Notice /\ broken \in BOOLEAN
      <3>1. day = 0 /\ log = {} /\ broken = FALSE
        OBVIOUS
      <3>2. 0 \in 0 .. MaxDay
        BY ExpiryAssumption
      <3> HIDE DEF Init
      <3> QED
        BY <3>1, <3>2
    <2>4. /\ edit \in [Subs -> Status \cup {NoStatus}]
          /\ inbox \in [Notice -> Nat] /\ pushed \in [Notice -> Nat]
      OBVIOUS
    <2>5. LockTypeOK
      BY DEF LockTypeOK
    <2> QED
      BY <2>1, <2>2, <2>3, <2>4, <2>5 DEF ExpiryTypeOK
  <1>4. StageInv /\ Held /\ OneRun
    BY <1>1, <1>2 DEF StageInv, Held, OneRun
  <1>5. Separate
    BY <1>1, <1>2 DEF Separate, Own, OwnConn
  <1>6. RowsNew /\ NoticeOnce
    BY <1>1, <1>2 DEF RowsNew, NoticeOnce
  <1>7. \A w \in Workers : SentBy(w) = {}
    BY <1>1, <1>2 DEF SentBy
  <1>8. \A n \in Notice : pushed[n] = 0 /\ ~Accounted(n)
    BY <1>7 DEF Accounted
  <1>9. PushesAccounted
    BY <1>1, <1>2, <1>7, <1>8 DEF PushesAccounted
  <1> QED
    BY <1>3, <1>4, <1>5, <1>6, <1>9 DEF ExpiryInv, NoticeInv, LockInv

LEMMA ExpiryInvStep == ExpiryInv /\ [Next]_vars => ExpiryInv'
  <1> SUFFICES ASSUME ExpiryInv, [Next]_vars PROVE ExpiryInv'
    OBVIOUS
  <1> USE DEF ExpiryInv, NoticeInv
  <1>1. LockInv'
    BY LockInvStep
  <1>2. ASSUME UNCHANGED <<log, inbox, pushed, run>>, ~broken' => ~broken
        PROVE  ExpiryInv'
    <2>1. NoticeInv'
      BY <1>1, <1>2, NoRowKeepsNoticeInv
    <2>2. \A n \in Notice : Accounted(n)' <=> Accounted(n)
      BY <1>2 DEF Accounted, SentBy
    <2>3. PushesAccounted'
      <3>1. \A v \in Workers : run'[v] = run[v] /\ SentBy(v)' = SentBy(v)
        BY <1>2 DEF SentBy
      <3>2. ~broken' => \A v \in Workers :
               /\ run'[v].due \cap SentBy(v)' = {}
               /\ run'[v].stage = "closing" => run'[v].rows = {}
        BY <1>2, <3>1 DEF PushesAccounted
      <3> QED
        BY <1>2, <2>2, <3>2, NoPushKeepsAccount
    <2> QED
      BY <2>1, <2>3
  <1>3. CASE UNCHANGED vars
    BY <1>2, <1>3 DEF vars, expiryVars
  <1>4. CASE Edits
    BY <1>2, <1>4, EditsStep DEF LockInv
  <1>5. ASSUME NEW w \in Workers, Traffic(w) PROVE ExpiryInv'
    BY <1>2, <1>5, TrafficStep DEF LockInv
  <1>6. ASSUME NEW w \in Workers, JobStep(w) PROVE ExpiryInv'
    BY <1>6, ExpiryInvJobStep
  <1> QED
    BY <1>3, <1>4, <1>5, <1>6 DEF Next, Edits

-----------------------------------------------------------------------------

(* Connections, runs and their rows stay in range, and no connection       *)
(* releases a lock it does not hold.                                       *)
THEOREM ExpiryTypeCorrect == Spec => []ExpiryTypeOK
  <1>1. ExpiryInv => ExpiryTypeOK
    BY DEF ExpiryInv, NoticeInv, LockInv
  <1> QED
    BY <1>1, InitExpiryInv, ExpiryInvStep, PTL DEF Spec

(* While no run has failed, died or had the connection that locked for it  *)
(* closed by its pool, at most one process is between taking the lock and  *)
(* giving it back, though its session changes connections at each commit:  *)
(* the connection that locked stays in that process and holds the lock.    *)
THEOREM OneRunCorrect == Spec => [](Held /\ OneRun)
  <1>1. ExpiryInv => Held /\ OneRun
    BY DEF ExpiryInv, NoticeInv, LockInv
  <1> QED
    BY <1>1, InitExpiryInv, ExpiryInvStep, PTL DEF Spec

(* One notification per row of the log, whatever fails, dies or overlaps.  *)
THEOREM NoticeOnceCorrect == Spec => []NoticeOnce
  <1>1. ExpiryInv => NoticeOnce
    BY DEF ExpiryInv, NoticeInv
  <1> QED
    BY <1>1, InitExpiryInv, ExpiryInvStep, PTL DEF Spec

(* No push goes out twice unless a run failed or lost the connection that  *)
(* locked for it, for any number of processes and any size of their pools. *)
THEOREM PushOnceCorrect == Spec => []PushOnce
  <1>1. ExpiryInv => PushOnce
    BY DEF ExpiryInv, PushesAccounted, PushOnce
  <1> QED
    BY <1>1, InitExpiryInv, ExpiryInvStep, PTL DEF Spec

==============================================================================
