-------------------------- MODULE SubscriptionExpiry --------------------------
(***************************************************************************)
(* The nightly job: it moves subscriptions to expiringSoon and expired,    *)
(* and notifies about those that end soon.  Every worker process starts it *)
(* at 00:05; the advisory lock and the dispatch log are to keep the second *)
(* from doing it again.  Teachers edit the subscriptions meanwhile.        *)
(***************************************************************************)
EXTENDS JobLocks

CONSTANTS
    NoConn,        \* stands for no connection
    Subs,
    Recipients,    \* the student and the parents a notice goes to
    Milestones,    \* days before the end on which a notice is due
    Soon,          \* EXPIRING_THRESHOLD_DAYS
    Ends,          \* bound: the end dates, as days
    MaxDay,        \* bound: the last day
    Asked          \* bound: the statuses teachers ask for

ASSUME ExpiryAssumption ==
    /\ NoConn \notin Conns
    /\ Milestones \subseteq Int
    /\ Soon \in Nat
    /\ Ends \subseteq Int
    /\ MaxDay \in Nat

VARIABLES
    day,       \* today
    sub,       \* per subscription: its status and end date
    edit,      \* per subscription: a status change under way
    log,       \* the table subscription_expiry_dispatch_log
    inbox,     \* per notice: its rows in the notification list
    pushed,    \* per notice: pushes sent
    run,       \* per worker: its run of the job
    broken     \* ghost: a run failed, died, or lost the connection that locked for it

expiryVars == <<day, sub, edit, log, inbox, pushed, run, broken>>
vars == <<expiryVars, lockVars>>

Status == {"pending", "active", "expiringSoon", "expired", "exhausted",
           "paused", "suspended", "cancelled"}

(* UNIQUE (subscription_id, milestone, sent_date, recipient_user_id).      *)
Notice == [sub : Subs, milestone : Milestones, date : 0 .. MaxDay, to : Recipients]

NoStatus == "unchanged"

(* conn: the connection of the run's session, if it has one; lock: the one *)
(* that took the lock; target: the statuses it is going to write; due: the *)
(* notices it has still to dispatch; sending: the one between its push and *)
(* its log row; rows: the log rows of its open transaction.                *)
Run ==
    [stage : {"off", "checking", "checked", "dispatching", "closing", "unlocking", "ended"},
     conn : Conns \cup {NoConn}, lock : Conns \cup {NoConn},
     target : [Subs -> Status \cup {NoStatus}],
     due : SUBSET Notice, sending : SUBSET Notice, rows : SUBSET Notice,
     last : -1 .. MaxDay]

Off(last) ==
    [stage |-> "off", conn |-> NoConn, lock |-> NoConn,
     target |-> [s \in Subs |-> NoStatus],
     due |-> {}, sending |-> {}, rows |-> {}, last |-> last]

Init ==
    /\ LockInit
    /\ day = 0
    /\ \E end \in [Subs -> Ends] : sub = [s \in Subs |-> [status |-> "active", end |-> end[s]]]
    /\ edit = [s \in Subs |-> NoStatus]
    /\ log = {}
    /\ inbox = [n \in Notice |-> 0]
    /\ pushed = [n \in Notice |-> 0]
    /\ run = [w \in Workers |-> Off(-1)]
    /\ broken = FALSE

-----------------------------------------------------------------------------
(* Taking and giving back connections *)

OwnConn(w) == {run[w].conn} \ {NoConn}

OpenConns == UNION {pool[w] \cup lent[w] \cup OwnConn(w) : w \in Workers}

Free(w) == Available(w, OpenConns)

(* The lock of a run goes with its connection if the pool is full.         *)
LosesLock(w, c) == ~Kept(w) /\ \E v \in Workers : run[v].lock = c

GivesBack(w) ==
    LET c == run[w].conn
    IN  IF c = NoConn THEN UNCHANGED <<pool, holds>>
        ELSE Checkin(w, c) /\ holds' = HoldsAfterCheckin(w, c)

Breaks(w) == broken' = (broken \/ (run[w].conn # NoConn /\ LosesLock(w, run[w].conn)))

-----------------------------------------------------------------------------
(* The job *)

Scanned == {s \in Subs : sub[s].status \in {"active", "expiringSoon", "expired"}}

DaysLeft(s) == sub[s].end - day

(* Mutant: a status the database's enum does not have. *)
NextStatusSnakeCase(s) ==
    IF DaysLeft(s) < 0 THEN "expired"
    ELSE IF DaysLeft(s) <= Soon THEN "expiring_soon"
    ELSE IF sub[s].status = "expired" THEN "active"
    ELSE sub[s].status

(* _next_status, which also brings an expired subscription back that was   *)
(* extended (#468 1c).                                                     *)
NextStatus(s) ==
    IF DaysLeft(s) < 0 THEN "expired"
    ELSE IF DaysLeft(s) <= Soon THEN "expiringSoon"
    ELSE IF sub[s].status = "expired" THEN "active"
    ELSE sub[s].status

Due == {n \in Notice : n.sub \in Scanned /\ n.milestone = DaysLeft(n.sub) /\ n.date = day}

Scan == [s \in Subs |-> IF s \in Scanned /\ NextStatus(s) # sub[s].status THEN NextStatus(s)
                        ELSE NoStatus]

(* Every worker starts the job once a day; the connection that takes the   *)
(* lock also reads the subscriptions.                                      *)
Start(w) ==
    /\ run[w].stage \in {"off", "ended"}
    /\ run[w].last < day
    /\ \E c \in Free(w) :
         IF Granted(c)
         THEN /\ Checkout(w, c)
              /\ Acquire(c)
              /\ run' = [run EXCEPT ![w] =
                           [stage |-> "checking", conn |-> c, lock |-> c, target |-> Scan,
                            due |-> Due, sending |-> {}, rows |-> {}, last |-> day]]
         ELSE /\ pool' = [pool EXCEPT ![w] = @ \cup {c}]
              /\ run' = [run EXCEPT ![w] = Off(day)]
              /\ UNCHANGED holds
    /\ UNCHANGED <<day, sub, edit, log, inbox, pushed, broken, lent>>

(* The statuses are committed before anything is sent.                     *)
CheckCommit(w) ==
    /\ run[w].stage = "checking"
    /\ sub' = [s \in Subs |-> IF run[w].target[s] = NoStatus THEN sub[s]
                              ELSE [sub[s] EXCEPT !.status = run[w].target[s]]]
    /\ GivesBack(w)
    /\ Breaks(w)
    /\ run' = [run EXCEPT ![w] = [@ EXCEPT !.stage = "checked", !.conn = NoConn]]
    /\ UNCHANGED <<day, edit, log, inbox, pushed, lent>>

DispatchBegin(w) ==
    /\ run[w].stage = "checked"
    /\ run[w].due # {}
    /\ \E c \in Free(w) :
         /\ Checkout(w, c)
         /\ run' = [run EXCEPT ![w] = [@ EXCEPT !.stage = "dispatching", !.conn = c]]
    /\ UNCHANGED <<day, sub, edit, log, inbox, pushed, broken, lent, holds>>

(* A notice that is not in the log goes to the inbox and out as a push,    *)
(* before its row is written.                                              *)
Send(w, n) ==
    /\ run[w].stage = "dispatching"
    /\ run[w].sending = {}
    /\ n \in run[w].due
    /\ pushed' = [pushed EXCEPT ![n] = IF n \in log THEN @ ELSE @ + 1]
    /\ run' = [run EXCEPT ![w] = [@ EXCEPT !.due = run[w].due \ {n},
                                           !.sending = IF n \in log THEN {} ELSE {n}]]
    /\ UNCHANGED <<day, sub, edit, log, inbox, broken, lockVars>>

(* Mutant: the table has no UNIQUE constraint. *)
RecordAnyway(w) ==
    /\ run[w].stage = "dispatching"
    /\ run[w].sending # {}
    /\ run' = [run EXCEPT ![w] = [@ EXCEPT !.rows = run[w].rows \cup run[w].sending,
                                           !.sending = {}]]
    /\ UNCHANGED <<day, sub, edit, log, inbox, pushed, broken, lockVars>>

(* The log row waits for another transaction that is inserting it, and is  *)
(* refused if it is there.                                                 *)
Record(w) ==
    /\ run[w].stage = "dispatching"
    /\ run[w].sending # {}
    /\ \A v \in Workers \ {w} : run[v].rows \cap run[w].sending = {}
    /\ run[w].sending \cap log = {}
    /\ run' = [run EXCEPT ![w] = [@ EXCEPT !.rows = run[w].rows \cup run[w].sending,
                                           !.sending = {}]]
    /\ UNCHANGED <<day, sub, edit, log, inbox, pushed, broken, lockVars>>

DispatchCommit(w) ==
    /\ run[w].stage = "dispatching"
    /\ run[w].due = {} /\ run[w].sending = {}
    /\ log' = log \cup run[w].rows
    /\ inbox' = [n \in Notice |-> IF n \in run[w].rows THEN inbox[n] + 1 ELSE inbox[n]]
    /\ GivesBack(w)
    /\ Breaks(w)
    /\ run' = [run EXCEPT ![w] = [@ EXCEPT !.stage = "closing", !.conn = NoConn, !.rows = {}]]
    /\ UNCHANGED <<day, sub, edit, pushed, lent>>

NothingDue(w) ==
    /\ run[w].stage = "checked"
    /\ run[w].due = {}
    /\ run' = [run EXCEPT ![w] = [@ EXCEPT !.stage = "closing"]]
    /\ UNCHANGED <<day, sub, edit, log, inbox, pushed, broken, lockVars>>

(* The finally block: whatever connection the session has or gets now.     *)
Unlock(w) ==
    /\ run[w].stage = "closing"
    /\ \E c \in IF run[w].conn = NoConn THEN Free(w) ELSE {run[w].conn} :
         /\ Checkout(w, c)
         /\ Release(c)
         /\ run' = [run EXCEPT ![w] = [@ EXCEPT !.stage = "unlocking", !.conn = c,
                                                !.lock = NoConn, !.rows = {}]]
    /\ UNCHANGED <<day, sub, edit, log, inbox, pushed, broken, lent>>

End(w) ==
    /\ run[w].stage = "unlocking"
    /\ GivesBack(w)
    /\ Breaks(w)
    /\ run' = [run EXCEPT ![w] = [Off(run[w].last) EXCEPT !.stage = "ended"]]
    /\ UNCHANGED <<day, sub, edit, log, inbox, pushed, lent>>

InTransaction(w) == run[w].stage \in {"checking", "dispatching"}

(* An error rolls back.  The unlocking still works if the database did not *)
(* refuse a statement,                                                     *)
Raises(w) ==
    /\ InTransaction(w)
    /\ broken' = TRUE
    /\ run' = [run EXCEPT ![w] = [@ EXCEPT !.stage = "closing", !.sending = {}]]
    /\ UNCHANGED <<day, sub, edit, log, inbox, pushed, lockVars>>

(* and is refused itself if it did; that is only logged.                   *)
Fails(w) ==
    /\ InTransaction(w)
    /\ broken' = TRUE
    /\ GivesBack(w)
    /\ run' = [run EXCEPT ![w] = [Off(run[w].last) EXCEPT !.stage = "ended"]]
    /\ UNCHANGED <<day, sub, edit, log, inbox, pushed, lent>>

(* The process dies and is started again.                                  *)
Dies(w) ==
    /\ broken' = (broken \/ run[w].stage \notin {"off", "ended"})
    /\ ProcessDies(w, OwnConn(w))
    /\ run' = [run EXCEPT ![w] = Off(run[w].last)]
    /\ UNCHANGED <<day, sub, edit, log, inbox, pushed>>

-----------------------------------------------------------------------------
(* Teachers, traffic and time *)

(* The transition matrix of update_status.                                 *)
Allowed == [s \in Status |->
    CASE s = "pending" -> {"active", "cancelled", "expired"}
      [] s = "active" -> {"expiringSoon", "exhausted", "expired", "paused", "suspended", "cancelled"}
      [] s = "expiringSoon" -> {"active", "exhausted", "expired", "paused", "suspended", "cancelled"}
      [] s = "paused" -> {"active", "expired", "suspended", "cancelled"}
      [] s = "suspended" -> {"active", "expired", "cancelled"}
      [] s = "exhausted" -> {"expired", "cancelled"}
      [] OTHER -> {}]

(* It judges the status it read, without a lock.                           *)
UpdateStatus(s) ==
    /\ edit[s] = NoStatus
    /\ \E target \in Allowed[sub[s].status] \cap Asked : edit' = [edit EXCEPT ![s] = target]
    /\ UNCHANGED <<day, sub, log, inbox, pushed, run, broken, lockVars>>

CommitStatus(s) ==
    /\ edit[s] # NoStatus
    /\ sub' = [sub EXCEPT ![s].status = edit[s]]
    /\ edit' = [edit EXCEPT ![s] = NoStatus]
    /\ UNCHANGED <<day, log, inbox, pushed, run, broken, lockVars>>

(* PATCH sets the end date.                                                *)
SetEnd(s) ==
    /\ \E end \in Ends \ {sub[s].end} : sub' = [sub EXCEPT ![s].end = end]
    /\ UNCHANGED <<day, edit, log, inbox, pushed, run, broken, lockVars>>

Traffic(w) ==
    /\ \/ \E c \in Free(w) : Borrow(w, c) /\ UNCHANGED broken
       \/ \E c \in lent[w] : GiveBack(w, c) /\ broken' = (broken \/ LosesLock(w, c))
    /\ UNCHANGED <<day, sub, edit, log, inbox, pushed, run>>

(* A run takes less than a day.                                            *)
NextDay ==
    /\ day < MaxDay
    /\ \A w \in Workers : run[w].stage \in {"off", "ended"}
    /\ day' = day + 1
    /\ UNCHANGED <<sub, edit, log, inbox, pushed, run, broken, lockVars>>

JobStep(w) ==
    \/ Start(w) \/ CheckCommit(w) \/ DispatchBegin(w)
    \/ \E n \in Notice : Send(w, n)
    \/ Record(w) \/ DispatchCommit(w) \/ NothingDue(w) \/ Unlock(w) \/ End(w)
    \/ Raises(w) \/ Fails(w) \/ Dies(w)

Next ==
    \/ \E w \in Workers : JobStep(w) \/ Traffic(w)
    \/ \E s \in Subs : UpdateStatus(s) \/ CommitStatus(s) \/ SetEnd(s)
    \/ NextDay

Spec == Init /\ [][Next]_vars

-----------------------------------------------------------------------------
(* Properties *)

ExpiryTypeOK ==
    /\ LockTypeOK
    /\ day \in 0 .. MaxDay
    /\ sub \in [Subs -> [status : Status, end : Ends]]
    /\ edit \in [Subs -> Status \cup {NoStatus}]
    /\ log \subseteq Notice
    /\ inbox \in [Notice -> Nat]
    /\ pushed \in [Notice -> Nat]
    /\ run \in [Workers -> Run]
    /\ broken \in BOOLEAN

(* A notice is in the recipient's list at most once, also when runs        *)
(* overlap, fail or die: the log row and the notification are one          *)
(* transaction.                                                            *)
NoticeOnce == \A n \in Notice : inbox[n] = (IF n \in log THEN 1 ELSE 0)

(* A push cannot be rolled back, so it may go out twice, but only after a  *)
(* run failed or its lock was lost with a connection: a lock that was left *)
(* behind, or is held by another connection of the process, is not enough. *)
PushOnce == broken \/ \A n \in Notice : pushed[n] <= 1

(* A run that went well leaves no lock behind in the pool of its process:  *)
(* the finally block gives back what the run took.                         *)
LockReleased ==
    \A w \in Workers : run[w].stage = "ended" /\ ~broken => \A c \in pool[w] : holds[c] = 0

=============================================================================
