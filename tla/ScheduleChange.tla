----------------------------- MODULE ScheduleChange -----------------------------
(***************************************************************************)
(* The negotiation of one session's new time: a log of events that teacher *)
(* and student append to, and an hourly job, in every server process, that *)
(* reminds after 24 hours and after 72 writes an expiry and gives a change *)
(* allowance back.                                                         *)
(*                                                                         *)
(* Two endpoints append to the log.  That of the subscription judges the   *)
(* log it reads, going by the actor the client says; that of the lesson    *)
(* request knows the actor and judges nothing.  An answer is in the log    *)
(* when its request commits; what judges nothing is one step, its commit.  *)
(* The job reads the log under an advisory lock, then flushes its event,   *)
(* which takes its place in the log but is not seen before the commit.     *)
(*                                                                         *)
(* The lock is free here whenever no run is under way.  The code commits   *)
(* before it unlocks, so the lock may stay with another connection, as in  *)
(* SubscriptionExpiry, and grant fewer runs than these.                    *)
(***************************************************************************)
EXTENDS Integers, Sequences, FiniteSets

CONSTANTS
    Parties,      \* the teacher and the student
    System,       \* the job as an actor
    Workers,      \* server processes
    Allowance,    \* total_reschedule_allowance + bonus_reschedule_count
    MaxEvents,    \* bound: length of the log
    Tx            \* bound: answers under way at once

ASSUME ChangeAssumption ==
    /\ System \notin Parties
    /\ Allowance \in Nat
    /\ MaxEvents \in Nat

VARIABLES
    log,        \* the events of the session, by created_at
    age,        \* how long the last proposal has been waiting
    used,       \* used_reschedule_count
    tx,         \* the answers under way
    run,        \* per worker: its run of the job
    balance,    \* ghost: the count as last set by hand, and what was used and given back since
    restored,   \* ghost: allowances given back
    raced       \* ghost: an event came while an answer was under way

vars == <<log, age, used, tx, run, balance, restored, raced>>

(* A counter-proposal is a proposal that used no allowance; accepting and  *)
(* rejecting are one answer here.                                          *)
Open == {"proposed"}                        \* the timer runs
Sources == Open \cup {"lessonCancelled"}    \* may be answered
Answers == {"answered"}
Marks == {"expired", "reminder"}
Type == Sources \cup Answers \cup Marks

(* 24 hours, 72 hours have passed.                                         *)
Age == {"fresh", "late", "overdue"}

(* Which endpoint wrote an event.  A bare one came by the lesson request   *)
(* and does not name the subscription, so nobody finds it there.           *)
Via == {"subscription", "request", "bare", "job"}

(* by: actor_type; credit: what its expiry gives back, change_credit_used  *)
(* if it names the subscription; flushed: not committed yet.               *)
Event == [type : Type, by : Parties \cup {System}, credit : {0, 1}, via : Via,
          flushed : BOOLEAN]

Request == [type : Answers, by : Parties]

Idle == [type |-> "none"]

(* thread: the proposal the job has found waiting; due: what its age calls *)
(* for; mark: the event it has flushed; count: used_reschedule_count as    *)
(* read FOR UPDATE, for a run that gives one back.                         *)
Run == [stage : {"off", "read", "flushed"}, thread : 0..MaxEvents,
        due : Marks \cup {"none"}, mark : Marks \cup {"none"},
        restores : BOOLEAN, count : Nat]

Off == [stage |-> "off", thread |-> 0, due |-> "none", mark |-> "none",
        restores |-> FALSE, count |-> 0]

Init ==
    /\ log = <<>>
    /\ age = "fresh"
    /\ used = 0
    /\ tx = [t \in Tx |-> Idle]
    /\ run = [w \in Workers |-> Off]
    /\ balance = 0 /\ restored = 0
    /\ raced = FALSE

-----------------------------------------------------------------------------
(* Reading the log *)

Seen(types) == {n \in DOMAIN log : ~log[n].flushed /\ log[n].type \in types}

(* Found by their subscription_id.                                         *)
Linked(types) == {n \in Seen(types) : log[n].via # "bare"}

NewEvent(type, by, credit, via, flushed) ==
    [type |-> type, by |-> by, credit |-> credit, via |-> via, flushed |-> flushed]

-----------------------------------------------------------------------------
(* Teacher and student *)

UnderWay == {t \in Tx : tx[t] # Idle}

AddEvent(e, judging) ==
    /\ Len(log) < MaxEvents
    /\ log' = Append(log, e)
    /\ age' = IF e.type \in Open THEN "fresh" ELSE age
    /\ raced' = (raced \/ judging # {})
    /\ UNCHANGED <<used, run, balance, restored>>

(* Proposing, countering and cancelling the lesson are always possible.    *)
Propose(by) ==
    /\ \E type \in Sources, credit \in {0, 1} :
         /\ credit = 1 => type = "proposed"
         /\ AddEvent(NewEvent(type, by, credit, "subscription", FALSE), UnderWay)
    /\ UNCHANGED tx

(* The endpoint of the lesson request takes every event.                   *)
AddRequestEvent(by) ==
    /\ \E type \in Sources \cup Answers, credit \in {0, 1}, via \in {"request", "bare"} :
         /\ credit = 1 => type = "proposed" /\ via = "request"
         /\ AddEvent(NewEvent(type, by, credit, via, FALSE), UnderWay)
    /\ UNCHANGED tx

(* Mutant: nobody asks whose proposal it is. *)
MayAnswerOwn(by) ==
    \E n \in Linked(Sources) : \A m \in Linked(Sources \cup Answers) : m <= n

(* The last proposal or answer is a proposal of another party than the one *)
(* the request says it is from.  An expiry is not among what is looked at. *)
MayAnswer(by) ==
    \E n \in Linked(Sources) :
        /\ \A m \in Linked(Sources \cup Answers) : m <= n
        /\ log[n].by # by

Answer(t, by) ==
    /\ tx[t] = Idle
    /\ MayAnswer(by)
    /\ \E type \in Answers : tx' = [tx EXCEPT ![t] = [type |-> type, by |-> by]]
    /\ UNCHANGED <<log, age, used, run, balance, restored, raced>>

CommitAnswer(t) ==
    /\ tx[t] # Idle
    /\ AddEvent(NewEvent(tx[t].type, tx[t].by, 0, "subscription", FALSE), UnderWay \ {t})
    /\ tx' = [tx EXCEPT ![t] = Idle]

AbortAnswer(t) ==
    /\ tx[t] # Idle
    /\ tx' = [tx EXCEPT ![t] = Idle]
    /\ UNCHANGED <<log, age, used, run, balance, restored, raced>>

(* Mutant: no row lock. *)
RowFreeAlways == TRUE

RowFree == \A w \in Workers : ~run[w].restores

(* Mutant: off by one. *)
AllowanceLeftOneMore == used <= Allowance

AllowanceLeft == used < Allowance

(* The teacher's use of one, and moves of bookings (see Calendar).         *)
UseReschedule ==
    /\ RowFree
    /\ AllowanceLeft
    /\ used' = used + 1 /\ balance' = balance + 1
    /\ UNCHANGED <<log, age, tx, run, restored, raced>>

(* PUT /subscriptions sets the count to what the client says, which it has *)
(* read at any time before.                                                *)
UpdateSubscription(count) ==
    /\ RowFree
    /\ used' = count /\ balance' = count
    /\ UNCHANGED <<log, age, tx, run, restored, raced>>

(* Time passes over the last proposal; a run takes less than an hour.      *)
GrowOld ==
    /\ Seen(Open) # {}
    /\ age # "overdue"
    /\ \A w \in Workers : run[w].stage = "off"
    /\ age' = IF age = "fresh" THEN "late" ELSE "overdue"
    /\ UNCHANGED <<log, used, tx, run, balance, restored, raced>>

-----------------------------------------------------------------------------
(* The job *)

(* Mutant: the answer of pg_try_advisory_lock is ignored. *)
LockGrantedAlways(w) == TRUE

LockGranted(w) == \A v \in Workers \ {w} : run[v].stage = "off"

(* _get_pending_threads: the last of these events is open.                 *)
PendingThread(n) ==
    /\ n \in Seen(Open)
    /\ \A m \in Seen(Open \cup Answers \cup {"expired"}) : m <= n

Due == CASE age = "overdue" -> "expired"
         [] age = "late" -> "reminder"
         [] OTHER -> "none"

StartRun(w) ==
    /\ run[w].stage = "off"
    /\ LockGranted(w)
    /\ \E n \in DOMAIN log :
         /\ PendingThread(n)
         /\ run' = [run EXCEPT ![w].stage = "read", ![w].thread = n, ![w].due = Due]
    /\ UNCHANGED <<log, age, used, tx, balance, restored, raced>>

(* _has_event asks for one anywhere in the session's log.  An expiry gives *)
(* back what the expired proposal says it used.                            *)
Flush(w) ==
    LET due == run[w].due
        mark == IF Seen({due}) = {} THEN due ELSE "none"
        restores == mark = "expired" /\ log[run[w].thread].credit = 1 /\ used > 0
    IN  /\ run[w].stage = "read"
        /\ restores => RowFree
        /\ mark # "none" => Len(log) < MaxEvents
        /\ run' = [run EXCEPT ![w].stage = "flushed", ![w].mark = mark,
                              ![w].restores = restores,
                              ![w].count = IF restores THEN used ELSE 0]
        /\ log' = IF mark = "none" THEN log
                                   ELSE Append(log, NewEvent(mark, System, 0, "job", TRUE))
        /\ UNCHANGED <<age, used, tx, balance, restored, raced>>

Settled(mark) ==
    [n \in DOMAIN log |-> IF log[n].type = mark THEN [log[n] EXCEPT !.flushed = FALSE] ELSE log[n]]

CommitRun(w) ==
    /\ run[w].stage = "flushed"
    /\ log' = Settled(run[w].mark)
    /\ used' = IF run[w].restores THEN run[w].count - 1 ELSE used
    /\ balance' = IF run[w].restores THEN balance - 1 ELSE balance
    /\ restored' = IF run[w].restores THEN restored + 1 ELSE restored
    /\ run' = [run EXCEPT ![w] = Off]
    /\ UNCHANGED <<age, tx, raced>>

Withdrawn(mark) ==
    LET own == {n \in DOMAIN log : log[n].flushed /\ log[n].type = mark}
        gone == CHOOSE n \in own : TRUE
    IN  IF own = {} THEN log
        ELSE [n \in 1..(Len(log) - 1) |-> log[IF n < gone THEN n ELSE n + 1]]

(* An error or a dead process; what was flushed is rolled back.            *)
AbortRun(w) ==
    /\ run[w].stage # "off"
    /\ log' = Withdrawn(run[w].mark)
    /\ run' = [run EXCEPT ![w] = Off]
    /\ UNCHANGED <<age, used, tx, balance, restored, raced>>

Next ==
    \/ \E by \in Parties : Propose(by) \/ AddRequestEvent(by)
    \/ \E t \in Tx :
         \/ \E by \in Parties : Answer(t, by)
         \/ CommitAnswer(t) \/ AbortAnswer(t)
    \/ \E w \in Workers : StartRun(w) \/ Flush(w) \/ CommitRun(w) \/ AbortRun(w)
    \/ UseReschedule \/ \E count \in 0..Allowance : UpdateSubscription(count)
    \/ GrowOld

Spec == Init /\ [][Next]_vars

-----------------------------------------------------------------------------
(* Properties *)

ChangeTypeOK ==
    /\ log \in Seq(Event) /\ Len(log) <= MaxEvents
    /\ age \in Age
    /\ used \in 0..Allowance
    /\ tx \in [Tx -> Request \cup {Idle}]
    /\ run \in [Workers -> Run]
    /\ balance \in Int /\ restored \in Nat
    /\ raced \in BOOLEAN

(* A session is reminded once and expired once, though every process runs  *)
(* the job and runs it every hour.                                         *)
MarkedOnce == \A m, n \in DOMAIN log : log[m].type \in Marks /\ log[m].type = log[n].type => m = n

(* The count of used allowances is what a PUT of the subscription last     *)
(* made it, with what was used and given back since: uses, the job and     *)
(* such PUTs lose nothing of each other.  Nothing is given back without an *)
(* expiry that says so, however often the count is set.                    *)
CreditsAddUp ==
    /\ used = balance
    /\ restored <= Cardinality(Seen({"expired"}))

(* Not looked at by the turn check.                                        *)
Ignored(e) == e.type \in Marks \/ e.via = "bare"

(* An answer that came by the subscription's endpoint follows a proposal   *)
(* that is said to be of another party, and no event of its subscription   *)
(* has come between, whatever the lesson request's endpoint wrote, and     *)
(* whatever the job flushed or took back: as long as no event comes while  *)
(* an answer is under way.                                                 *)
AnsweredInTurn ==
    raced \/ \A n \in DOMAIN log :
        log[n].type \in Answers /\ log[n].via = "subscription" =>
            \E m \in 1..(n - 1) :
                /\ log[m].type \in Sources /\ log[m].by # log[n].by /\ ~Ignored(log[m])
                /\ \A k \in (m + 1)..(n - 1) : Ignored(log[k])

(* A run of the job leaves no proposal that it found unanswered after 72   *)
(* hours without an expiry.                                                *)
OverdueExpires ==
    [][\A w \in Workers :
         run[w].stage = "read" /\ run[w].due = "expired" /\ run'[w].stage = "flushed"
            => run'[w].mark = "expired"]_vars

=============================================================================
