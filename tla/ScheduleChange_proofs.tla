------------------------- MODULE ScheduleChange_proofs -------------------------
(***************************************************************************)
(* The properties of ScheduleChange, for any number of parties, processes, *)
(* requests and events.                                                    *)
(*                                                                         *)
(* One run of the job at a time has the advisory lock, so an event that is *)
(* flushed and not committed is that run's own, and what the run has found *)
(* missing in the log is still missing when its event gets its place.      *)
(* Between two parties nothing is locked; an answer is only sure of its    *)
(* turn while no event comes between its judgement and its commit.         *)
(***************************************************************************)
EXTENDS ScheduleChange, FiniteSetTheorems, SequenceTheorems, TLAPS

(* One run at a time.                                                      *)
OneRun == \A v, w \in Workers : run[v].stage # "off" /\ run[w].stage # "off" => v = w

(* A run that has flushed nothing has nothing to give back; one that gives *)
(* an allowance back has the subscription's row and read the count there.  *)
RunInv ==
    \A w \in Workers :
        /\ run[w].stage # "flushed" => run[w].mark = "none" /\ ~run[w].restores
        /\ run[w].restores =>
             /\ run[w].mark = "expired"
             /\ run[w].count = used /\ used > 0

(* Flushed events and runs that have flushed one belong together.          *)
Own(n, w) == log[n].flushed /\ run[w].stage = "flushed" /\ log[n].type = run[w].mark

FlushedIsOwn ==
    /\ \A n \in DOMAIN log :
         log[n].flushed => log[n].type \in Marks /\ \E w \in Workers : Own(n, w)
    /\ \A w \in Workers :
         run[w].mark # "none" => \E n \in DOMAIN log : Own(n, w)

(* At most one allowance has been given back, and then the expiry is there *)
(* for all to see, however the count has been set.                         *)
Shown == \E n \in DOMAIN log : ~log[n].flushed /\ log[n].type = "expired"

RestoredOnce ==
    /\ used = balance
    /\ restored <= 1
    /\ restored = 1 => Shown

ChangeInv ==
    /\ ChangeTypeOK
    /\ OneRun
    /\ RunInv
    /\ FlushedIsOwn
    /\ MarkedOnce
    /\ RestoredOnce

-----------------------------------------------------------------------------
(* Types *)

LEMMA RunFields ==
    ASSUME NEW r \in Run
    PROVE  /\ r.stage \in {"off", "read", "flushed"} /\ r.thread \in 0..MaxEvents
           /\ r.due \in Marks \cup {"none"} /\ r.mark \in Marks \cup {"none"}
           /\ r.restores \in BOOLEAN /\ r.count \in Nat
  BY DEF Run

LEMMA OffIsRun ==
    /\ Off \in Run /\ Off.stage = "off" /\ Off.mark = "none" /\ ~Off.restores
  BY ChangeAssumption DEF Off, Run

LEMMA RunWritten ==
    ASSUME ChangeTypeOK, NEW w \in Workers, NEW r \in Run, run' = [run EXCEPT ![w] = r]
    PROVE  /\ run' \in [Workers -> Run]
           /\ run'[w] = r
           /\ \A v \in Workers : v # w => run'[v] = run[v]
  BY DEF ChangeTypeOK

LEMMA LogFields ==
    ASSUME ChangeTypeOK
    PROVE  /\ Len(log) \in Nat /\ DOMAIN log = 1..Len(log)
           /\ \A n \in DOMAIN log :
                /\ log[n] \in Event
                /\ log[n].type \in Type /\ log[n].by \in Parties \cup {System}
                /\ log[n].credit \in {0, 1} /\ log[n].via \in Via
                /\ log[n].flushed \in BOOLEAN
  <1>1. log \in Seq(Event)
    BY DEF ChangeTypeOK
  <1>2. Len(log) \in Nat /\ DOMAIN log = 1..Len(log) /\ log \in [1..Len(log) -> Event]
    BY <1>1, LenProperties
  <1>3. \A n \in DOMAIN log : log[n] \in Event
    BY <1>2
  <1>4. \A e \in Event : /\ e.type \in Type /\ e.by \in Parties \cup {System}
                         /\ e.credit \in {0, 1} /\ e.via \in Via /\ e.flushed \in BOOLEAN
    BY DEF Event
  <1> QED
    BY <1>2, <1>3, <1>4

LEMMA Appends ==
    ASSUME ChangeTypeOK, NEW e \in Event
    PROVE  /\ Append(log, e) \in Seq(Event)
           /\ Len(Append(log, e)) = Len(log) + 1
           /\ DOMAIN Append(log, e) = DOMAIN log \cup {Len(log) + 1}
           /\ Len(log) + 1 \notin DOMAIN log
           /\ Append(log, e)[Len(log) + 1] = e
           /\ \A n \in DOMAIN log : Append(log, e)[n] = log[n]
  BY DEF ChangeTypeOK

LEMMA KindsDiffer ==
    /\ Marks \cap (Sources \cup Answers) = {}
    /\ Type = Sources \cup Answers \cup Marks
    /\ "none" \notin Type
    /\ Marks = {"expired", "reminder"}
    /\ Sources \cap Answers = {}
    /\ {"subscription", "request", "bare", "job"} \subseteq Via
  BY DEF Marks, Sources, Answers, Type, Open, Via

(* The places the events have in a log that one has been taken out of.     *)
LEMMA Withdraws ==
    ASSUME ChangeTypeOK, NEW g \in DOMAIN log,
           log' = [n \in 1..(Len(log) - 1) |-> log[IF n < g THEN n ELSE n + 1]]
    PROVE  /\ log' \in Seq(Event) /\ Len(log') = Len(log) - 1
           /\ \E at \in [DOMAIN log' -> DOMAIN log \ {g}] :
                /\ \A n \in DOMAIN log' : log'[n] = log[at[n]]
                /\ \A m, n \in DOMAIN log' : m < n <=> at[m] < at[n]
                /\ \A i \in DOMAIN log \ {g} : \E n \in DOMAIN log' : at[n] = i
  <1> DEFINE at == [n \in 1..(Len(log) - 1) |-> IF n < g THEN n ELSE n + 1]
  <1>1. Len(log) \in Nat /\ DOMAIN log = 1..Len(log) /\ \A n \in DOMAIN log : log[n] \in Event
    BY LogFields
  <1>2. g \in 1..Len(log) /\ Len(log) - 1 \in Nat
    BY <1>1
  <1>3. DOMAIN log' = 1..(Len(log) - 1)
    OBVIOUS
  <1>4. \A n \in DOMAIN log' : at[n] = IF n < g THEN n ELSE n + 1
    BY <1>3
  <1>5. at \in [DOMAIN log' -> DOMAIN log \ {g}]
    <2>1. \A n \in DOMAIN log' : at[n] \in DOMAIN log \ {g}
      BY <1>1, <1>2, <1>3, <1>4
    <2> QED
      BY <1>3, <2>1
  <1>6. \A n \in DOMAIN log' : log'[n] = log[at[n]]
    BY <1>3, <1>4
  <1>7. log' \in Seq(Event) /\ Len(log') = Len(log) - 1
    <2>1. log' \in [1..(Len(log) - 1) -> Event]
      BY <1>1, <1>3, <1>5, <1>6
    <2>2. log' \in Seq(Event)
      BY <1>2, <2>1, SeqDef
    <2> QED
      BY <1>2, <1>3, <2>2, LenProperties
  <1>8. \A m, n \in DOMAIN log' : m < n <=> at[m] < at[n]
    BY <1>2, <1>3, <1>4
  <1>9. ASSUME NEW i \in DOMAIN log \ {g} PROVE \E n \in DOMAIN log' : at[n] = i
    <2>1. CASE i < g
      <3>1. i \in DOMAIN log' /\ at[i] = i
        BY <1>1, <1>2, <1>3, <1>4, <2>1
      <3> QED
        BY <3>1
    <2>2. CASE i > g
      <3>1. i - 1 \in DOMAIN log' /\ at[i - 1] = i
        BY <1>1, <1>2, <1>3, <1>4, <2>2
      <3> QED
        BY <3>1
    <2> QED
      BY <1>1, <1>2, <2>1, <2>2
  <1> HIDE DEF at
  <1> QED
    BY <1>5, <1>6, <1>7, <1>8, <1>9

-----------------------------------------------------------------------------
(* Steps that leave the log alone *)

LEMMA SameLogKeepsInv ==
    ASSUME ChangeInv, ChangeTypeOK', OneRun', RunInv', UNCHANGED <<log, restored>>,
           used' = balance',
           \A w \in Workers : run'[w].mark = run[w].mark
                              /\ (run'[w].stage = "flushed" <=> run[w].stage = "flushed")
    PROVE  ChangeInv'
  <1> USE DEF ChangeInv
  <1>1. \A n \in DOMAIN log, w \in Workers : Own(n, w)' <=> Own(n, w)
    BY DEF Own
  <1>2. FlushedIsOwn'
    BY <1>1 DEF FlushedIsOwn
  <1>3. MarkedOnce'
    BY DEF MarkedOnce
  <1>4. RestoredOnce'
    BY DEF RestoredOnce, Shown
  <1> QED
    BY <1>2, <1>3, <1>4

(* An answer, until it commits.                                            *)
LEMMA AnswersKeepInv ==
    ASSUME ChangeInv, NEW t \in Tx, (\E by \in Parties : Answer(t, by)) \/ AbortAnswer(t)
    PROVE  ChangeInv'
  <1> USE DEF ChangeInv
  <1>1. PICK q \in Request \cup {Idle} :
           /\ tx' = [tx EXCEPT ![t] = q]
           /\ UNCHANGED <<log, age, used, run, balance, restored, raced>>
    BY DEF Answer, AbortAnswer, Request
  <1>2. ChangeTypeOK'
    BY <1>1 DEF ChangeTypeOK
  <1>3. OneRun' /\ RunInv'
    BY <1>1 DEF OneRun, RunInv
  <1> QED
    BY <1>1, <1>2, <1>3, SameLogKeepsInv DEF RestoredOnce

(* The count is raised or set only while no run is giving one back.        *)
LEMMA UsesKeepInv ==
    ASSUME ChangeInv,
           \/ UseReschedule \/ GrowOld
           \/ \E count \in 0..Allowance : UpdateSubscription(count)
    PROVE  ChangeInv'
  <1> USE DEF ChangeInv
  <1>1. CASE UseReschedule \/ \E count \in 0..Allowance : UpdateSubscription(count)
    <2>1. /\ RowFree /\ used' \in 0..Allowance /\ used' = balance'
          /\ UNCHANGED <<log, age, tx, run, restored, raced>>
      BY <1>1, ChangeAssumption
         DEF UseReschedule, UpdateSubscription, AllowanceLeft, RestoredOnce, ChangeTypeOK
    <2>2. ChangeTypeOK'
      BY <2>1, ChangeAssumption DEF ChangeTypeOK
    <2>3. RunInv'
      BY <2>1 DEF RunInv, RowFree
    <2>4. OneRun'
      BY <2>1 DEF OneRun
    <2> QED
      BY <2>1, <2>2, <2>3, <2>4, SameLogKeepsInv
  <1>2. CASE GrowOld
    <2>1. /\ age' \in Age
          /\ UNCHANGED <<log, used, tx, run, balance, restored, raced>>
      BY <1>2 DEF GrowOld, Age
    <2>2. ChangeTypeOK'
      BY <2>1 DEF ChangeTypeOK
    <2>3. OneRun' /\ RunInv'
      BY <2>1 DEF OneRun, RunInv
    <2> QED
      BY <2>1, <2>2, <2>3, SameLogKeepsInv DEF RestoredOnce
  <1> QED
    BY <1>1, <1>2

LEMMA StartRunKeepsInv ==
    ASSUME ChangeInv, NEW w \in Workers, StartRun(w)
    PROVE  ChangeInv'
  <1> USE DEF ChangeInv
  <1>1. PICK n \in DOMAIN log :
           run' = [run EXCEPT ![w].stage = "read", ![w].thread = n, ![w].due = Due]
    BY DEF StartRun
  <1>2. /\ run[w].stage = "off" /\ LockGranted(w)
        /\ UNCHANGED <<log, age, used, tx, balance, restored, raced>>
    BY DEF StartRun
  <1>3. Due \in Marks \cup {"none"}
    BY DEF Due, Marks
  <1>4. n \in 0..MaxEvents
    BY LogFields, ChangeAssumption DEF ChangeTypeOK
  <1>5. run[w] \in Run
    BY DEF ChangeTypeOK
  <1> DEFINE r == [run[w] EXCEPT !.stage = "read", !.thread = n, !.due = Due]
  <1>6. /\ r \in Run /\ r.stage = "read" /\ r.mark = run[w].mark
        /\ r.restores = run[w].restores /\ r.count = run[w].count
    BY <1>3, <1>4, <1>5 DEF Run
  <1>7. run' = [run EXCEPT ![w] = r]
    BY <1>1, <1>5 DEF ChangeTypeOK
  <1> HIDE DEF r
  <1>8. /\ run' \in [Workers -> Run] /\ run'[w] = r
        /\ \A v \in Workers : v # w => run'[v] = run[v]
    BY <1>6, <1>7, RunWritten
  <1>9. ChangeTypeOK'
    BY <1>2, <1>8 DEF ChangeTypeOK
  <1>10. OneRun'
    BY <1>2, <1>8 DEF OneRun, LockGranted
  <1>11. RunInv'
    BY <1>2, <1>6, <1>8 DEF RunInv
  <1>12. \A v \in Workers : run'[v].mark = run[v].mark
                            /\ (run'[v].stage = "flushed" <=> run[v].stage = "flushed")
    BY <1>2, <1>6, <1>8
  <1> QED
    BY <1>2, <1>9, <1>10, <1>11, <1>12, SameLogKeepsInv DEF RestoredOnce

-----------------------------------------------------------------------------
(* Steps that write the log *)

(* Of a party: no mark, and there for all to see.                          *)
PartyEvent(e) == e \in Event /\ e.type \in Sources \cup Answers /\ ~e.flushed

(* What the parties' requests add to the log.                              *)
LEMMA PartiesAdd ==
    ASSUME ChangeInv,
           \/ \E by \in Parties : Propose(by) \/ AddRequestEvent(by)
           \/ \E t \in Tx : CommitAnswer(t)
    PROVE  \E e \in Event :
             /\ PartyEvent(e)
             /\ \/ /\ e.type \in Answers => e.via # "subscription"
                   /\ AddEvent(e, UnderWay) /\ UNCHANGED tx
                \/ \E t \in Tx :
                     /\ tx[t] # Idle /\ e.type = tx[t].type /\ e.by = tx[t].by
                     /\ AddEvent(e, UnderWay \ {t}) /\ tx' = [tx EXCEPT ![t] = Idle]
  <1>1. ASSUME NEW by \in Parties, Propose(by)
        PROVE  \E e \in Event : /\ PartyEvent(e) /\ e.type \notin Answers
                                /\ AddEvent(e, UnderWay) /\ UNCHANGED tx
    <2>1. PICK type \in Sources, credit \in {0, 1} :
             AddEvent(NewEvent(type, by, credit, "subscription", FALSE), UnderWay)
      BY <1>1 DEF Propose
    <2> DEFINE e == NewEvent(type, by, credit, "subscription", FALSE)
    <2>2. PartyEvent(e) /\ e.type = type
      BY KindsDiffer DEF PartyEvent, NewEvent, Event
    <2>3. AddEvent(e, UnderWay) /\ UNCHANGED tx
      BY <1>1, <2>1 DEF Propose
    <2> HIDE DEF e
    <2> QED
      BY <2>2, <2>3, KindsDiffer DEF PartyEvent
  <1>2. ASSUME NEW by \in Parties, AddRequestEvent(by)
        PROVE  \E e \in Event : /\ PartyEvent(e) /\ e.via # "subscription"
                                /\ AddEvent(e, UnderWay) /\ UNCHANGED tx
    <2>1. PICK type \in Sources \cup Answers, credit \in {0, 1}, via \in {"request", "bare"} :
             AddEvent(NewEvent(type, by, credit, via, FALSE), UnderWay)
      BY <1>2 DEF AddRequestEvent
    <2> DEFINE e == NewEvent(type, by, credit, via, FALSE)
    <2>2. PartyEvent(e) /\ e.via = via
      BY KindsDiffer DEF PartyEvent, NewEvent, Event
    <2>3. AddEvent(e, UnderWay) /\ UNCHANGED tx
      BY <1>2, <2>1 DEF AddRequestEvent
    <2> HIDE DEF e
    <2> QED
      BY <2>2, <2>3 DEF PartyEvent
  <1>3. ASSUME NEW t \in Tx, CommitAnswer(t)
        PROVE  \E e \in Event :
                 /\ PartyEvent(e) /\ tx[t] # Idle /\ e.type = tx[t].type /\ e.by = tx[t].by
                 /\ AddEvent(e, UnderWay \ {t}) /\ tx' = [tx EXCEPT ![t] = Idle]
    <2> DEFINE e == NewEvent(tx[t].type, tx[t].by, 0, "subscription", FALSE)
    <2>1. /\ tx[t] # Idle /\ AddEvent(e, UnderWay \ {t}) /\ tx' = [tx EXCEPT ![t] = Idle]
      BY <1>3 DEF CommitAnswer
    <2>2. tx[t].type \in Answers /\ tx[t].by \in Parties
      BY <2>1 DEF ChangeInv, ChangeTypeOK, Request
    <2>3. PartyEvent(e) /\ e.type = tx[t].type /\ e.by = tx[t].by
      BY <2>2, KindsDiffer DEF PartyEvent, NewEvent, Event
    <2> HIDE DEF e
    <2> QED
      BY <2>1, <2>3 DEF PartyEvent
  <1> QED
    BY <1>1, <1>2, <1>3

LEMMA AddEventKeepsInv ==
    ASSUME ChangeInv, NEW e, PartyEvent(e), NEW judging, AddEvent(e, judging),
           tx' \in [Tx -> Request \cup {Idle}]
    PROVE  ChangeInv'
  <1> USE DEF ChangeInv
  <1>1. /\ Len(log) < MaxEvents
        /\ log' = Append(log, e)
        /\ age' \in {"fresh", age}
        /\ raced' \in BOOLEAN
        /\ UNCHANGED <<used, run, balance, restored>>
    BY DEF AddEvent
  <1>2. e \in Event /\ e.type \in Sources \cup Answers /\ ~e.flushed
    BY DEF PartyEvent
  <1>3. /\ log' \in Seq(Event) /\ Len(log') = Len(log) + 1
        /\ DOMAIN log' = DOMAIN log \cup {Len(log) + 1}
        /\ Len(log) + 1 \notin DOMAIN log
        /\ log'[Len(log) + 1] = e
        /\ \A n \in DOMAIN log : log'[n] = log[n]
    BY <1>1, <1>2, Appends
  <1>4. ChangeTypeOK'
    <2>1. Len(log') <= MaxEvents
      BY <1>1, <1>3, LogFields, ChangeAssumption
    <2>2. age' \in Age
      BY <1>1 DEF ChangeTypeOK, Age
    <2> QED
      BY <1>1, <1>3, <2>1, <2>2 DEF ChangeTypeOK
  <1>5. OneRun' /\ RunInv'
    BY <1>1 DEF OneRun, RunInv
  <1>6. \A n \in DOMAIN log, w \in Workers : Own(n, w)' <=> Own(n, w)
    BY <1>1, <1>3 DEF Own
  <1>7. FlushedIsOwn'
    BY <1>1, <1>2, <1>3, <1>6 DEF FlushedIsOwn
  <1>8. MarkedOnce'
    BY <1>2, <1>3, KindsDiffer DEF MarkedOnce
  <1>9. RestoredOnce'
    BY <1>1, <1>3 DEF RestoredOnce, Shown
  <1> QED
    BY <1>4, <1>5, <1>7, <1>8, <1>9

LEMMA PartiesKeepInv ==
    ASSUME ChangeInv,
           \/ \E by \in Parties : Propose(by) \/ AddRequestEvent(by)
           \/ \E t \in Tx : CommitAnswer(t)
    PROVE  ChangeInv'
  <1>1. PICK e \in Event :
           /\ PartyEvent(e)
           /\ \/ AddEvent(e, UnderWay) /\ UNCHANGED tx
              \/ \E t \in Tx : AddEvent(e, UnderWay \ {t}) /\ tx' = [tx EXCEPT ![t] = Idle]
    BY PartiesAdd
  <1>2. tx' \in [Tx -> Request \cup {Idle}]
    BY <1>1 DEF ChangeInv, ChangeTypeOK
  <1> QED
    BY <1>1, <1>2, AddEventKeepsInv

(* The only run under way finds no such mark committed, and none flushed,  *)
(* for it has flushed none itself.                                         *)
LEMMA FlushKeepsInv ==
    ASSUME ChangeInv, NEW w \in Workers, Flush(w)
    PROVE  ChangeInv'
  <1> USE DEF ChangeInv
  <1> DEFINE due == run[w].due
             mark == IF Seen({due}) = {} THEN due ELSE "none"
             restores == mark = "expired" /\ log[run[w].thread].credit = 1 /\ used > 0
             count == IF restores THEN used ELSE 0
             r == [run[w] EXCEPT !.stage = "flushed", !.mark = mark, !.restores = restores,
                                 !.count = count]
  <1>1. /\ run[w].stage = "read"
        /\ mark # "none" => Len(log) < MaxEvents
        /\ run' = [run EXCEPT ![w].stage = "flushed", ![w].mark = mark,
                              ![w].restores = restores, ![w].count = count]
        /\ log' = IF mark = "none" THEN log ELSE Append(log, NewEvent(mark, System, 0, "job", TRUE))
        /\ UNCHANGED <<age, used, tx, balance, restored, raced>>
    BY DEF Flush
  <1>2. run[w] \in Run /\ due \in Marks \cup {"none"}
    BY RunFields DEF ChangeTypeOK
  <1>3. mark \in Marks \cup {"none"} /\ (mark # "none" => mark = due /\ Seen({due}) = {})
    BY <1>2
  <1>4. restores \in BOOLEAN /\ (restores => mark = "expired" /\ used > 0)
    OBVIOUS
  <1> HIDE DEF due, mark, restores
  <1>5. count \in Nat /\ (restores => count = used)
    <2>1. used \in Nat
      BY ChangeAssumption DEF ChangeTypeOK
    <2> QED
      BY <2>1
  <1> HIDE DEF count
  <1>6. /\ r \in Run /\ r.stage = "flushed" /\ r.mark = mark /\ r.restores = restores
        /\ r.count = count
    BY <1>2, <1>3, <1>4, <1>5 DEF Run
  <1>7. run' = [run EXCEPT ![w] = r]
    BY <1>1, <1>2 DEF ChangeTypeOK
  <1> HIDE DEF r
  <1>8. /\ run' \in [Workers -> Run] /\ run'[w] = r
        /\ \A v \in Workers : v # w => run'[v] = run[v]
    BY <1>6, <1>7, RunWritten
  <1>9. OneRun'
    BY <1>1, <1>8 DEF OneRun
  <1>10. RunInv'
    BY <1>1, <1>4, <1>5, <1>6, <1>8 DEF RunInv
  <1>11. \A v \in Workers : run[v].stage # "flushed" /\ run[v].mark = "none"
    BY <1>1 DEF OneRun, RunInv
  <1>12. \A n \in DOMAIN log : ~log[n].flushed
    BY <1>11 DEF FlushedIsOwn, Own
  <1>13. \A v \in Workers : v # w => run'[v].stage # "flushed" /\ run'[v].mark = "none"
    BY <1>8, <1>11
  <1>14. CASE mark = "none"
    <2>1. log' = log
      BY <1>1, <1>14
    <2>2. ChangeTypeOK'
      BY <1>1, <1>8, <2>1 DEF ChangeTypeOK
    <2>3. FlushedIsOwn'
      BY <1>6, <1>8, <1>12, <1>13, <1>14, <2>1 DEF FlushedIsOwn
    <2>4. MarkedOnce' /\ RestoredOnce'
      BY <1>1, <2>1 DEF MarkedOnce, RestoredOnce, Shown
    <2> QED
      BY <1>9, <1>10, <2>2, <2>3, <2>4
  <1>15. CASE mark # "none"
    <2> DEFINE e == NewEvent(mark, System, 0, "job", TRUE)
    <2>1. mark \in Marks /\ mark = due /\ Seen({due}) = {} /\ Len(log) < MaxEvents
      BY <1>1, <1>3, <1>15
    <2>2. e \in Event /\ e.type = mark /\ e.flushed
      BY <2>1, KindsDiffer DEF NewEvent, Event
    <2>3. log' = Append(log, e)
      BY <1>1, <1>15
    <2> HIDE DEF e
    <2>0. PICK last \in Nat : last = Len(log) + 1
      BY LogFields
    <2>4. /\ log' \in Seq(Event) /\ Len(log') = last
          /\ DOMAIN log' = DOMAIN log \cup {last}
          /\ last \notin DOMAIN log
          /\ log'[last] = e
          /\ \A n \in DOMAIN log : log'[n] = log[n]
      BY <2>0, <2>2, <2>3, Appends
    <2>5. ChangeTypeOK'
      <3>1. Len(log') <= MaxEvents
        BY <2>0, <2>1, <2>4, LogFields, ChangeAssumption
      <3> QED
        BY <1>1, <1>8, <2>4, <3>1 DEF ChangeTypeOK
    <2>6. \A n \in DOMAIN log : log[n].type # mark
      BY <1>12, <2>1 DEF Seen
    <2>7. MarkedOnce'
      BY <2>2, <2>4, <2>6 DEF MarkedOnce
    <2>8. Own(last, w)'
      BY <1>6, <1>8, <2>2, <2>4 DEF Own
    <2>9. FlushedIsOwn'
      BY <1>12, <1>13, <2>1, <2>2, <2>4, <2>8 DEF FlushedIsOwn
    <2>10. RestoredOnce'
      BY <1>1, <2>4 DEF RestoredOnce, Shown
    <2> QED
      BY <1>9, <1>10, <2>5, <2>7, <2>9, <2>10
  <1> QED
    BY <1>14, <1>15

(* The commit shows all that is flushed, for nothing is but the run's own; *)
(* an expiry among it is the first, so nothing was given back before.      *)
LEMMA CommitRunKeepsInv ==
    ASSUME ChangeInv, NEW w \in Workers, CommitRun(w)
    PROVE  ChangeInv'
  <1> USE DEF ChangeInv
  <1> DEFINE mark == run[w].mark
             restores == run[w].restores
  <1>1. /\ run[w].stage = "flushed"
        /\ log' = [n \in DOMAIN log |-> IF log[n].type = mark
                                         THEN [log[n] EXCEPT !.flushed = FALSE] ELSE log[n]]
        /\ used' = IF restores THEN run[w].count - 1 ELSE used
        /\ balance' = IF restores THEN balance - 1 ELSE balance
        /\ restored' = IF restores THEN restored + 1 ELSE restored
        /\ run' = [run EXCEPT ![w] = Off]
        /\ UNCHANGED <<age, tx, raced>>
    BY DEF CommitRun, Settled
  <1>2. /\ run[w] \in Run /\ mark \in Marks \cup {"none"} /\ restores \in BOOLEAN
        /\ used \in Nat /\ used <= Allowance /\ balance = used /\ restored \in Nat
    BY RunFields, ChangeAssumption DEF ChangeTypeOK, RestoredOnce
  <1>3. /\ restores => mark = "expired" /\ run[w].count = used /\ used > 0
        /\ mark # "none" => \E n \in DOMAIN log : Own(n, w)
    BY DEF RunInv, FlushedIsOwn
  <1>4. \A v \in Workers : v # w => run[v].stage = "off"
    BY <1>1 DEF OneRun
  <1>5. \A n \in DOMAIN log : log[n].flushed => log[n].type = mark
    BY <1>1, <1>4 DEF FlushedIsOwn, Own
  <1> HIDE DEF mark, restores
  <1>6. \A n \in DOMAIN log :
          /\ log'[n] \in Event /\ log'[n].type = log[n].type /\ ~log'[n].flushed
    <2> SUFFICES ASSUME NEW n \in DOMAIN log
                 PROVE  log'[n] \in Event /\ log'[n].type = log[n].type /\ ~log'[n].flushed
      OBVIOUS
    <2>1. log[n] \in Event /\ log[n].flushed \in BOOLEAN
      BY LogFields
    <2>2. CASE log[n].type = mark
      <3>1. log'[n] = [log[n] EXCEPT !.flushed = FALSE]
        BY <1>1, <2>2
      <3> QED
        BY <2>1, <3>1 DEF Event
    <2>3. CASE log[n].type # mark
      <3>1. log'[n] = log[n]
        BY <1>1, <2>3
      <3> QED
        BY <1>5, <2>1, <2>3, <3>1
    <2> QED
      BY <2>2, <2>3
  <1>7. DOMAIN log' = DOMAIN log /\ log' \in Seq(Event) /\ Len(log') = Len(log)
    <2>1. Len(log) \in Nat /\ DOMAIN log = 1..Len(log)
      BY LogFields
    <2>2. DOMAIN log' = DOMAIN log
      BY <1>1
    <2>3. log' \in [1..Len(log) -> Event]
      BY <1>1, <1>6, <2>1, <2>2
    <2>4. log' \in Seq(Event)
      BY <2>1, <2>3, SeqDef
    <2> QED
      BY <2>1, <2>2, <2>4, LenProperties
  <1>8. /\ run' \in [Workers -> Run] /\ run'[w] = Off
        /\ \A v \in Workers : v # w => run'[v] = run[v]
    BY <1>1, OffIsRun, RunWritten
  <1>9. \A v \in Workers : run'[v].stage = "off" /\ run'[v].mark = "none" /\ ~run'[v].restores
    BY <1>4, <1>8, OffIsRun DEF RunInv
  <1>10. used' \in 0..Allowance /\ restored' \in Nat /\ balance' = used'
    BY <1>1, <1>2, <1>3, ChangeAssumption
  <1>11. ChangeTypeOK'
    BY <1>1, <1>7, <1>8, <1>10 DEF ChangeTypeOK
  <1>12. OneRun' /\ RunInv'
    BY <1>9 DEF OneRun, RunInv
  <1>13. FlushedIsOwn'
    BY <1>6, <1>7, <1>9 DEF FlushedIsOwn
  <1>14. MarkedOnce'
    BY <1>6, <1>7 DEF MarkedOnce
  <1>15. RestoredOnce'
    <2>1. restored <= 1 /\ (restored = 1 => Shown)
      BY DEF RestoredOnce
    <2>2. Shown => Shown'
      BY <1>6, <1>7 DEF Shown
    <2>3. CASE ~restores
      BY <1>1, <1>10, <2>1, <2>2, <2>3 DEF RestoredOnce
    <2>4. CASE restores
      <3>1. PICK n \in DOMAIN log : log[n].flushed /\ log[n].type = "expired"
        BY <1>3, <2>4, KindsDiffer DEF Own, mark
      <3>2. ~Shown
        BY <3>1, KindsDiffer DEF MarkedOnce, Shown
      <3>3. restored = 0
        BY <1>2, <2>1, <3>2
      <3>4. Shown'
        BY <1>6, <1>7, <3>1 DEF Shown
      <3>5. restored' = 1
        BY <1>1, <2>4, <3>3
      <3> QED
        BY <1>10, <3>4, <3>5 DEF RestoredOnce
    <2> QED
      BY <2>3, <2>4
  <1> QED
    BY <1>11, <1>12, <1>13, <1>14, <1>15

(* What is taken out of the log is the run's own event, never committed.   *)
LEMMA AbortRunKeepsInv ==
    ASSUME ChangeInv, NEW w \in Workers, AbortRun(w)
    PROVE  ChangeInv'
  <1> USE DEF ChangeInv
  <1> DEFINE mark == run[w].mark
             own == {n \in DOMAIN log : log[n].flushed /\ log[n].type = mark}
             gone == CHOOSE n \in own : TRUE
  <1>1. /\ run[w].stage # "off"
        /\ log' = IF own = {} THEN log
                  ELSE [n \in 1..(Len(log) - 1) |-> log[IF n < gone THEN n ELSE n + 1]]
        /\ run' = [run EXCEPT ![w] = Off]
        /\ UNCHANGED <<age, used, tx, balance, restored, raced>>
    BY DEF AbortRun, Withdrawn
  <1>2. \A v \in Workers : v # w => run[v].stage = "off"
    BY <1>1 DEF OneRun
  <1>3. \A n \in DOMAIN log : log[n].flushed => n \in own
    BY <1>1, <1>2 DEF FlushedIsOwn, Own
  <1>4. /\ run' \in [Workers -> Run] /\ run'[w] = Off
        /\ \A v \in Workers : v # w => run'[v] = run[v]
    BY <1>1, OffIsRun, RunWritten
  <1>5. \A v \in Workers : run'[v].stage = "off" /\ run'[v].mark = "none" /\ ~run'[v].restores
    BY <1>2, <1>4, OffIsRun DEF RunInv
  <1>6. OneRun' /\ RunInv'
    BY <1>5 DEF OneRun, RunInv
  <1>7. used = balance /\ restored <= 1 /\ (restored = 1 => Shown)
    BY DEF RestoredOnce
  <1>8. CASE own = {}
    <2>1. log' = log
      BY <1>1, <1>8
    <2>2. ChangeTypeOK'
      BY <1>1, <1>4, <2>1 DEF ChangeTypeOK
    <2>3. FlushedIsOwn'
      BY <1>3, <1>5, <1>8, <2>1 DEF FlushedIsOwn
    <2>4. MarkedOnce'
      BY <2>1 DEF MarkedOnce
    <2>5. RestoredOnce'
      BY <1>1, <1>7, <2>1 DEF RestoredOnce, Shown
    <2> QED
      BY <1>6, <2>2, <2>3, <2>4, <2>5
  <1>9. CASE own # {}
    <2>1. gone \in DOMAIN log /\ log[gone].flushed /\ log[gone].type = mark
      BY <1>9
    <2>2. log[gone].type \in Marks
      BY <2>1 DEF FlushedIsOwn
    <2>3. log' = [n \in 1..(Len(log) - 1) |-> log[IF n < gone THEN n ELSE n + 1]]
      BY <1>1, <1>9
    <2>4. \A n \in DOMAIN log \ {gone} : ~log[n].flushed
      BY <1>3, <2>1, <2>2 DEF MarkedOnce
    <2> HIDE DEF gone, own, mark
    <2>w. log' \in Seq(Event) /\ Len(log') = Len(log) - 1
      BY <2>1, <2>3, Withdraws
    <2>5. PICK at \in [DOMAIN log' -> DOMAIN log \ {gone}] :
             /\ \A n \in DOMAIN log' : log'[n] = log[at[n]]
             /\ \A m, n \in DOMAIN log' : m < n <=> at[m] < at[n]
             /\ \A i \in DOMAIN log \ {gone} : \E n \in DOMAIN log' : at[n] = i
      BY <2>1, <2>3, Withdraws
    <2>6. ChangeTypeOK'
      <3>1. Len(log') <= MaxEvents
        BY <2>w, LogFields, ChangeAssumption DEF ChangeTypeOK
      <3> QED
        BY <1>1, <1>4, <2>w, <3>1 DEF ChangeTypeOK
    <2>7. \A n \in DOMAIN log' : ~log'[n].flushed
      BY <2>4, <2>5
    <2>8. FlushedIsOwn'
      BY <1>5, <2>7 DEF FlushedIsOwn
    <2>9. MarkedOnce'
      <3> SUFFICES ASSUME NEW m \in DOMAIN log', NEW n \in DOMAIN log',
                          log'[m].type \in Marks, log'[m].type = log'[n].type
                   PROVE  m = n
        BY DEF MarkedOnce
      <3>1. at[m] = at[n]
        BY <2>5 DEF MarkedOnce
      <3>2. m \in Nat /\ n \in Nat /\ at[m] \in Nat
        <4>1. DOMAIN log' = 1..Len(log') /\ Len(log') \in Nat /\ DOMAIN log \subseteq Nat
          BY <2>w, LogFields, LenProperties
        <4> QED
          BY <2>5, <4>1
      <3> QED
        BY <2>5, <3>1, <3>2
    <2>10. RestoredOnce'
      <3>1. Shown => Shown'
        BY <2>1, <2>5, <2>7 DEF Shown
      <3> QED
        BY <1>1, <1>7, <3>1 DEF RestoredOnce
    <2> QED
      BY <1>6, <2>6, <2>8, <2>9, <2>10
  <1> QED
    BY <1>8, <1>9

-----------------------------------------------------------------------------
(* The invariant and the theorems *)

LEMMA InitChangeInv == Init => ChangeInv
  <1> SUFFICES ASSUME Init PROVE ChangeInv
    OBVIOUS
  <1>1. /\ log = <<>> /\ age = "fresh" /\ used = 0 /\ tx = [t \in Tx |-> Idle]
        /\ run = [w \in Workers |-> Off]
        /\ balance = 0 /\ restored = 0 /\ raced = FALSE
    BY DEF Init
  <1>2. log \in Seq(Event) /\ Len(log) = 0 /\ DOMAIN log = {}
    BY <1>1
  <1>3. run \in [Workers -> Run]
    BY <1>1, OffIsRun
  <1>4. \A w \in Workers : run[w].stage = "off" /\ run[w].mark = "none" /\ ~run[w].restores
    BY <1>1, OffIsRun
  <1>5. ChangeTypeOK
    <2>1. Len(log) <= MaxEvents /\ used \in 0..Allowance
      BY <1>1, <1>2, ChangeAssumption
    <2>2. tx \in [Tx -> Request \cup {Idle}]
      BY <1>1
    <2>3. age \in Age /\ balance \in Int /\ restored \in Nat
      BY <1>1 DEF Age
    <2>4. raced \in BOOLEAN
      <3>1. raced = FALSE
        BY <1>1
      <3> QED
        BY <3>1
    <2> QED
      BY <1>2, <1>3, <2>1, <2>2, <2>3, <2>4 DEF ChangeTypeOK
  <1>6. OneRun /\ RunInv
    BY <1>4 DEF OneRun, RunInv
  <1>7. FlushedIsOwn /\ MarkedOnce
    BY <1>2, <1>4 DEF FlushedIsOwn, MarkedOnce
  <1>8. RestoredOnce
    BY <1>1 DEF RestoredOnce
  <1> QED
    BY <1>5, <1>6, <1>7, <1>8 DEF ChangeInv

LEMMA ChangeInvStep == ChangeInv /\ [Next]_vars => ChangeInv'
  <1> SUFFICES ASSUME ChangeInv, [Next]_vars PROVE ChangeInv'
    OBVIOUS
  <1>1. CASE \E t \in Tx : (\E by \in Parties : Answer(t, by)) \/ AbortAnswer(t)
    BY <1>1, AnswersKeepInv
  <1>2. CASE \/ \E by \in Parties : Propose(by) \/ AddRequestEvent(by)
             \/ \E t \in Tx : CommitAnswer(t)
    BY <1>2, PartiesKeepInv
  <1>3. ASSUME NEW w \in Workers, StartRun(w) PROVE ChangeInv'
    BY <1>3, StartRunKeepsInv
  <1>4. ASSUME NEW w \in Workers, Flush(w) PROVE ChangeInv'
    BY <1>4, FlushKeepsInv
  <1>5. ASSUME NEW w \in Workers, CommitRun(w) PROVE ChangeInv'
    BY <1>5, CommitRunKeepsInv
  <1>6. ASSUME NEW w \in Workers, AbortRun(w) PROVE ChangeInv'
    BY <1>6, AbortRunKeepsInv
  <1>7. CASE UseReschedule \/ GrowOld \/ \E count \in 0..Allowance : UpdateSubscription(count)
    BY <1>7, UsesKeepInv
  <1>8. CASE UNCHANGED vars
    <2>1. UNCHANGED <<log, age, used, tx, run, balance, restored, raced>>
      BY <1>8 DEF vars
    <2>2. ChangeTypeOK'
      BY <2>1 DEF ChangeInv, ChangeTypeOK
    <2>3. OneRun' /\ RunInv'
      BY <2>1 DEF ChangeInv, OneRun, RunInv
    <2> QED
      BY <2>1, <2>2, <2>3, SameLogKeepsInv DEF ChangeInv, RestoredOnce
  <1> QED
    BY <1>1, <1>2, <1>3, <1>4, <1>5, <1>6, <1>7, <1>8 DEF Next

(* What the job and the parties keep true together, in every reachable     *)
(* state.                                                                  *)
LEMMA ChangeInvCorrect == Spec => []ChangeInv
  BY InitChangeInv, ChangeInvStep, PTL DEF Spec

(* Every value of the state is of its type: the count of used allowances   *)
(* never leaves the range that the subscription allows, though the job     *)
(* lowers it and a request raises it.                                      *)
THEOREM ChangeTypeCorrect == Spec => []ChangeTypeOK
  <1>1. ChangeInv => ChangeTypeOK
    BY DEF ChangeInv
  <1> QED
    BY <1>1, ChangeInvCorrect, PTL

(* A session is reminded once and expired once, however many processes run *)
(* the job, however often, and wherever one of them dies.                  *)
THEOREM MarkedOnceCorrect == Spec => []MarkedOnce
  <1>1. ChangeInv => MarkedOnce
    BY DEF ChangeInv
  <1> QED
    BY <1>1, ChangeInvCorrect, PTL

LEMMA ShownIsSeen ==
    ASSUME ChangeTypeOK, Shown
    PROVE  Cardinality(Seen({"expired"})) \in Nat /\ Cardinality(Seen({"expired"})) >= 1
  <1> DEFINE seen == Seen({"expired"})
  <1>1. PICK n \in DOMAIN log : ~log[n].flushed /\ log[n].type = "expired"
    BY DEF Shown
  <1>2. seen \subseteq 1..Len(log) /\ n \in seen
    BY <1>1, LogFields DEF Seen
  <1> HIDE DEF seen
  <1>3. IsFiniteSet(1..Len(log))
    BY LogFields, FS_Interval
  <1>4. IsFiniteSet(seen)
    BY <1>2, <1>3, FS_Subset
  <1>5. Cardinality(seen) \in Nat /\ Cardinality(seen) # 0
    BY <1>2, <1>4, FS_CardinalityType, FS_EmptySet
  <1> QED
    BY <1>5 DEF seen

(* The count of used allowances is what the last PUT of the subscription   *)
(* made it, with what was used and given back since, however many requests *)
(* and runs write it; an allowance is given back only together with an     *)
(* expiry that says so.                                                    *)
THEOREM CreditsAddUpCorrect == Spec => []CreditsAddUp
  <1>1. ChangeInv => CreditsAddUp
    <2> SUFFICES ASSUME ChangeInv PROVE CreditsAddUp
      OBVIOUS
    <2>1. ChangeTypeOK /\ used = balance /\ restored <= 1 /\ (restored = 1 => Shown)
      BY DEF ChangeInv, RestoredOnce
    <2>2. restored \in Nat
      BY <2>1 DEF ChangeTypeOK
    <2>3. Cardinality(Seen({"expired"})) \in Nat
      <3>1. Len(log) \in Nat /\ Seen({"expired"}) \subseteq 1..Len(log)
        BY <2>1, LogFields DEF Seen
      <3>2. IsFiniteSet(1..Len(log))
        BY <3>1, FS_Interval
      <3> QED
        BY <3>1, <3>2, FS_Subset, FS_CardinalityType
    <2>4. restored = 1 => Cardinality(Seen({"expired"})) >= 1
      BY <2>1, ShownIsSeen
    <2> QED
      BY <2>1, <2>2, <2>3, <2>4 DEF CreditsAddUp
  <1> QED
    BY <1>1, ChangeInvCorrect, PTL

-----------------------------------------------------------------------------
(* Turns.  While no event has come in the middle of an answer, what it has *)
(* judged is still so when it commits; the job adds and withdraws marks    *)
(* only, and what is bare nobody looks at.                                 *)

(* by answers the last proposal of the subscription, which is another's.   *)
Answerable(by) ==
    \E m \in DOMAIN log :
        /\ log[m].type \in Sources /\ log[m].by # by /\ ~Ignored(log[m])
        /\ \A k \in DOMAIN log : k > m => Ignored(log[k])

TakesTurn(n) ==
    \E m \in 1..(n - 1) :
        /\ log[m].type \in Sources /\ log[m].by # log[n].by /\ ~Ignored(log[m])
        /\ \A k \in (m + 1)..(n - 1) : Ignored(log[k])

AnswerIsDue == \A t \in Tx : tx[t] # Idle => Answerable(tx[t].by)

Judged(e) == e.type \in Answers /\ e.via = "subscription"

TurnsTaken == \A n \in DOMAIN log : Judged(log[n]) => TakesTurn(n)

TurnInv == raced \/ (AnswerIsDue /\ TurnsTaken)

LEMMA TurnInvSuffices == TurnInv => AnsweredInTurn
  BY DEF TurnInv, TurnsTaken, TakesTurn, Judged, AnsweredInTurn

LEMMA InitTurnInv == Init => TurnInv
  <1> SUFFICES ASSUME Init PROVE TurnInv
    OBVIOUS
  <1>1. DOMAIN log = {} /\ \A t \in Tx : tx[t] = Idle
    BY DEF Init
  <1> QED
    BY <1>1 DEF TurnInv, AnswerIsDue, TurnsTaken

LEMMA SameLogKeepsTurns ==
    ASSUME TurnInv, UNCHANGED <<log, raced>>,
           \A t \in Tx : tx'[t] = tx[t] \/ tx'[t] = Idle
    PROVE  TurnInv'
  <1>1. CASE raced
    BY <1>1 DEF TurnInv
  <1>2. CASE AnswerIsDue /\ TurnsTaken
    <2>1. AnswerIsDue'
      BY <1>2 DEF AnswerIsDue, Answerable
    <2>2. TurnsTaken'
      BY <1>2 DEF TurnsTaken, TakesTurn
    <2> QED
      BY <2>1, <2>2 DEF TurnInv
  <1> QED
    BY <1>1, <1>2 DEF TurnInv

(* What an answer judges: no event of a party is still to be committed.    *)
LEMMA MayAnswerIsAnswerable ==
    ASSUME ChangeInv, NEW by \in Parties, MayAnswer(by)
    PROVE  Answerable(by)
  <1>1. PICK n \in Linked(Sources) :
           /\ \A m \in Linked(Sources \cup Answers) : m <= n
           /\ log[n].by # by
    BY DEF MayAnswer
  <1>2. n \in DOMAIN log /\ log[n].type \in Sources /\ ~Ignored(log[n])
    BY <1>1, KindsDiffer DEF Linked, Seen, Ignored
  <1>3. \A k \in DOMAIN log : k > n => Ignored(log[k])
    <2> SUFFICES ASSUME NEW k \in DOMAIN log, k > n, log[k].via # "bare"
                 PROVE  log[k].type \in Marks
      BY DEF Ignored
    <2>1. log[k].type \in Type /\ k \in Int /\ n \in Int
      BY <1>2, LogFields DEF ChangeInv
    <2>2. CASE log[k].flushed
      BY <2>2 DEF ChangeInv, FlushedIsOwn
    <2>3. CASE ~log[k].flushed
      <3>1. k \notin Linked(Sources \cup Answers)
        <4>1. k \in Linked(Sources \cup Answers) => k <= n
          BY <1>1, Zenon
        <4> QED
          BY <2>1, <4>1
      <3>2. log[k].type \notin Sources \cup Answers
        BY <2>3, <3>1 DEF Linked, Seen
      <3> QED
        BY <2>1, <3>2, KindsDiffer
    <2> QED
      BY <2>2, <2>3
  <1> QED
    BY <1>1, <1>2, <1>3 DEF Answerable

LEMMA AnswerKeepsTurns ==
    ASSUME TurnInv, ChangeInv, NEW t \in Tx, NEW by \in Parties, Answer(t, by)
    PROVE  TurnInv'
  <1>1. PICK q \in Request :
           q.by = by /\ tx' = [tx EXCEPT ![t] = q] /\ UNCHANGED <<log, raced>>
    BY DEF Answer, Request
  <1>2. tx'[t] = q /\ \A u \in Tx : u # t => tx'[u] = tx[u]
    BY <1>1 DEF ChangeInv, ChangeTypeOK
  <1>3. Answerable(by)
    BY MayAnswerIsAnswerable DEF Answer
  <1>4. CASE raced
    BY <1>1, <1>4 DEF TurnInv
  <1>5. CASE AnswerIsDue /\ TurnsTaken
    <2>1. \A any : Answerable(any)' <=> Answerable(any)
      BY <1>1 DEF Answerable
    <2>2. AnswerIsDue'
      BY <1>1, <1>2, <1>3, <1>5, <2>1 DEF AnswerIsDue
    <2>3. TurnsTaken'
      BY <1>1, <1>5 DEF TurnsTaken, TakesTurn
    <2> QED
      BY <2>2, <2>3 DEF TurnInv
  <1> QED
    BY <1>4, <1>5 DEF TurnInv

(* What is appended leaves the turns before it as they were.               *)
LEMMA AppendKeepsTurns ==
    ASSUME ChangeInv, TurnsTaken, NEW e \in Event, log' = Append(log, e)
    PROVE  \A n \in DOMAIN log : Judged(log'[n]) => TakesTurn(n)'
  <1> SUFFICES ASSUME NEW n \in DOMAIN log, Judged(log'[n]) PROVE TakesTurn(n)'
    OBVIOUS
  <1>1. /\ DOMAIN log = 1..Len(log) /\ Len(log) \in Nat
        /\ \A k \in DOMAIN log : log'[k] = log[k]
    BY Appends, LogFields DEF ChangeInv
  <1>2. PICK m \in 1..(n - 1) :
           /\ log[m].type \in Sources /\ log[m].by # log[n].by /\ ~Ignored(log[m])
           /\ \A k \in (m + 1)..(n - 1) : Ignored(log[k])
    BY <1>1 DEF TurnsTaken, TakesTurn
  <1>3. m \in DOMAIN log /\ \A k \in (m + 1)..(n - 1) : k \in DOMAIN log
    BY <1>1, <1>2
  <1> QED
    BY <1>1, <1>2, <1>3 DEF TakesTurn

(* An event that comes while nothing else is under way: no answer that     *)
(* judged, or one that may be given.                                       *)
LEMMA AddEventKeepsTurns ==
    ASSUME ChangeInv, AnswerIsDue, TurnsTaken, NEW e \in Event, log' = Append(log, e),
           Judged(e) => Answerable(e.by),
           \A u \in Tx : tx'[u] = Idle
    PROVE  TurnInv'
  <1>1. PICK last \in Nat : last = Len(log) + 1
    BY LogFields DEF ChangeInv
  <1>2. /\ DOMAIN log = 1..Len(log) /\ Len(log) \in Nat
        /\ DOMAIN log' = DOMAIN log \cup {last}
        /\ log'[last] = e
        /\ \A n \in DOMAIN log : log'[n] = log[n]
    BY <1>1, Appends, LogFields DEF ChangeInv
  <1>3. ASSUME Judged(e) PROVE TakesTurn(last)'
    <2>1. PICK m \in DOMAIN log :
             /\ log[m].type \in Sources /\ log[m].by # e.by /\ ~Ignored(log[m])
             /\ \A k \in DOMAIN log : k > m => Ignored(log[k])
      BY <1>3 DEF Answerable
    <2>2. m \in 1..(last - 1) /\ \A k \in (m + 1)..(last - 1) : k \in DOMAIN log /\ k > m
      BY <1>1, <1>2
    <2>3. /\ log'[m].type \in Sources /\ log'[m].by # log'[last].by /\ ~Ignored(log'[m])
          /\ \A k \in (m + 1)..(last - 1) : Ignored(log'[k])
      BY <1>2, <2>1, <2>2
    <2> QED
      BY <2>2, <2>3 DEF TakesTurn
  <1>4. \A n \in DOMAIN log : Judged(log'[n]) => TakesTurn(n)'
    BY AppendKeepsTurns
  <1>5. TurnsTaken'
    BY <1>2, <1>3, <1>4 DEF TurnsTaken
  <1>6. AnswerIsDue'
    BY DEF AnswerIsDue
  <1> QED
    BY <1>5, <1>6 DEF TurnInv

LEMMA PartiesKeepTurns ==
    ASSUME TurnInv, ChangeInv,
           \/ \E by \in Parties : Propose(by) \/ AddRequestEvent(by)
           \/ \E t \in Tx : CommitAnswer(t)
    PROVE  TurnInv'
  <1>1. PICK e \in Event :
           \/ /\ e.type \in Answers => e.via # "subscription"
              /\ AddEvent(e, UnderWay) /\ UNCHANGED tx
           \/ \E t \in Tx :
                /\ tx[t] # Idle /\ e.type = tx[t].type /\ e.by = tx[t].by
                /\ AddEvent(e, UnderWay \ {t}) /\ tx' = [tx EXCEPT ![t] = Idle]
    BY PartiesAdd
  <1>2. log' = Append(log, e) /\ (raced => raced')
    BY <1>1 DEF AddEvent
  <1>3. CASE raced'
    BY <1>3 DEF TurnInv
  <1>4. CASE ~raced'
    <2>1. AnswerIsDue /\ TurnsTaken
      BY <1>2, <1>4 DEF TurnInv
    <2>2. CASE /\ e.type \in Answers => e.via # "subscription"
               /\ AddEvent(e, UnderWay) /\ UNCHANGED tx
      <3>1. UnderWay = {} /\ ~Judged(e)
        BY <1>4, <2>2 DEF AddEvent, Judged
      <3>2. \A u \in Tx : tx'[u] = Idle
        BY <2>2, <3>1 DEF UnderWay
      <3> QED
        BY <1>2, <2>1, <3>1, <3>2, AddEventKeepsTurns
    <2>3. ASSUME NEW t \in Tx, tx[t] # Idle, e.by = tx[t].by,
                 AddEvent(e, UnderWay \ {t}), tx' = [tx EXCEPT ![t] = Idle]
          PROVE  TurnInv'
      <3>1. UnderWay \subseteq {t}
        BY <1>4, <2>3 DEF AddEvent
      <3>2. \A u \in Tx : tx'[u] = Idle
        BY <2>3, <3>1 DEF UnderWay, ChangeInv, ChangeTypeOK
      <3>3. Answerable(e.by)
        BY <2>1, <2>3 DEF AnswerIsDue
      <3> QED
        BY <1>2, <2>1, <3>2, <3>3, AddEventKeepsTurns
    <2> QED
      BY <1>1, <2>2, <2>3
  <1> QED
    BY <1>3, <1>4

(* A mark comes after a proposal without hiding it.                        *)
LEMMA FlushKeepsTurns ==
    ASSUME TurnInv, ChangeInv, NEW w \in Workers, Flush(w)
    PROVE  TurnInv'
  <1>1. PICK mark \in Marks \cup {"none"} :
           /\ log' = IF mark = "none" THEN log ELSE Append(log, NewEvent(mark, System, 0, "job", TRUE))
           /\ UNCHANGED <<tx, raced>>
    <2>1. run[w].due \in Marks \cup {"none"}
      BY RunFields DEF ChangeInv, ChangeTypeOK
    <2> QED
      BY <2>1 DEF Flush
  <1>2. CASE mark = "none"
    BY <1>1, <1>2, SameLogKeepsTurns
  <1>3. CASE mark # "none"
    <2> DEFINE e == NewEvent(mark, System, 0, "job", TRUE)
    <2>0. mark \in Marks
      BY <1>3
    <2>1. e \in Event /\ e.type = mark
      BY <2>0, KindsDiffer DEF NewEvent, Event
    <2>2. log' = Append(log, e)
      BY <1>1, <1>3
    <2> HIDE DEF e
    <2>3. PICK last \in Nat : last = Len(log) + 1
      BY LogFields DEF ChangeInv
    <2>4. /\ DOMAIN log = 1..Len(log)
          /\ DOMAIN log' = DOMAIN log \cup {last}
          /\ log'[last] = e
          /\ \A n \in DOMAIN log : log'[n] = log[n]
      BY <2>1, <2>2, <2>3, Appends, LogFields DEF ChangeInv
    <2>5. CASE raced
      BY <1>1, <2>5 DEF TurnInv
    <2>6. CASE AnswerIsDue /\ TurnsTaken
      <3>1. ASSUME NEW by, Answerable(by) PROVE Answerable(by)'
        BY <2>0, <2>1, <2>4, <3>1 DEF Answerable, Ignored
      <3>2. AnswerIsDue'
        BY <1>1, <2>6, <3>1 DEF AnswerIsDue
      <3>3. TurnsTaken'
        BY <2>0, <2>1, <2>2, <2>4, <2>6, AppendKeepsTurns, KindsDiffer DEF TurnsTaken, Judged
      <3> QED
        BY <3>2, <3>3 DEF TurnInv
    <2> QED
      BY <2>5, <2>6 DEF TurnInv
  <1> QED
    BY <1>2, <1>3

LEMMA CommitRunKeepsTurns ==
    ASSUME TurnInv, ChangeInv, NEW w \in Workers, CommitRun(w)
    PROVE  TurnInv'
  <1>1. /\ log' = [n \in DOMAIN log |-> IF log[n].type = run[w].mark
                                         THEN [log[n] EXCEPT !.flushed = FALSE] ELSE log[n]]
        /\ UNCHANGED <<tx, raced>>
    BY DEF CommitRun, Settled
  <1>2. DOMAIN log' = DOMAIN log /\ DOMAIN log = 1..Len(log) /\ Len(log) \in Nat
    BY <1>1, LogFields DEF ChangeInv
  <1>3. \A n \in DOMAIN log :
          /\ log'[n].type = log[n].type /\ log'[n].by = log[n].by
          /\ Ignored(log'[n]) <=> Ignored(log[n])
          /\ Judged(log'[n]) <=> Judged(log[n])
    <2> SUFFICES ASSUME NEW n \in DOMAIN log
                 PROVE  /\ log'[n].type = log[n].type /\ log'[n].by = log[n].by
                        /\ log'[n].via = log[n].via
      BY DEF Ignored, Judged
    <2>1. log[n] \in Event
      BY LogFields DEF ChangeInv
    <2>2. log'[n] = log[n] \/ log'[n] = [log[n] EXCEPT !.flushed = FALSE]
      BY <1>1
    <2> QED
      BY <2>1, <2>2 DEF Event
  <1>4. CASE raced
    BY <1>1, <1>4 DEF TurnInv
  <1>5. CASE AnswerIsDue /\ TurnsTaken
    <2>1. ASSUME NEW by, Answerable(by) PROVE Answerable(by)'
      BY <1>2, <1>3, <2>1 DEF Answerable
    <2>2. AnswerIsDue'
      BY <1>1, <1>5, <2>1 DEF AnswerIsDue
    <2>3. ASSUME NEW n \in DOMAIN log, TakesTurn(n) PROVE TakesTurn(n)'
      <3>1. PICK m \in 1..(n - 1) :
               /\ log[m].type \in Sources /\ log[m].by # log[n].by /\ ~Ignored(log[m])
               /\ \A k \in (m + 1)..(n - 1) : Ignored(log[k])
        BY <2>3 DEF TakesTurn
      <3>2. m \in DOMAIN log /\ \A k \in (m + 1)..(n - 1) : k \in DOMAIN log
        BY <1>2, <3>1
      <3> QED
        BY <1>3, <3>1, <3>2 DEF TakesTurn
    <2>4. TurnsTaken'
      BY <1>2, <1>3, <1>5, <2>3 DEF TurnsTaken
    <2> QED
      BY <2>2, <2>4 DEF TurnInv
  <1> QED
    BY <1>4, <1>5 DEF TurnInv

(* What a run withdraws is a mark: the parties' events close up, in order. *)
LEMMA AbortRunKeepsTurns ==
    ASSUME TurnInv, ChangeInv, NEW w \in Workers, AbortRun(w)
    PROVE  TurnInv'
  <1> DEFINE own == {n \in DOMAIN log : log[n].flushed /\ log[n].type = run[w].mark}
             gone == CHOOSE n \in own : TRUE
  <1>1. /\ log' = IF own = {} THEN log
                  ELSE [n \in 1..(Len(log) - 1) |-> log[IF n < gone THEN n ELSE n + 1]]
        /\ UNCHANGED <<tx, raced>>
    BY DEF AbortRun, Withdrawn
  <1>2. CASE own = {}
    BY <1>1, <1>2, SameLogKeepsTurns
  <1>3. CASE raced
    BY <1>1, <1>3 DEF TurnInv
  <1>4. CASE own # {} /\ AnswerIsDue /\ TurnsTaken
    <2>1. gone \in DOMAIN log /\ log[gone].flushed
      BY <1>4
    <2>2. log[gone].type \in Marks
      BY <2>1 DEF ChangeInv, FlushedIsOwn
    <2>3. log' = [n \in 1..(Len(log) - 1) |-> log[IF n < gone THEN n ELSE n + 1]]
      BY <1>1, <1>4
    <2> HIDE DEF gone, own
    <2>w. log' \in Seq(Event) /\ Len(log') = Len(log) - 1
      BY <2>1, <2>3, Withdraws DEF ChangeInv
    <2>4. PICK at \in [DOMAIN log' -> DOMAIN log \ {gone}] :
             /\ \A n \in DOMAIN log' : log'[n] = log[at[n]]
             /\ \A m, n \in DOMAIN log' : m < n <=> at[m] < at[n]
             /\ \A i \in DOMAIN log \ {gone} : \E n \in DOMAIN log' : at[n] = i
      BY <2>1, <2>3, Withdraws DEF ChangeInv
    <2>5. /\ DOMAIN log = 1..Len(log) /\ Len(log) \in Nat
          /\ DOMAIN log' = 1..Len(log') /\ Len(log') \in Nat
      BY <2>w, LogFields, LenProperties DEF ChangeInv
    <2>6. \A n \in DOMAIN log' : at[n] \in DOMAIN log
      BY <2>4
    <2>7. ASSUME NEW i \in DOMAIN log, log[i].type \in Sources
          PROVE  \E m \in DOMAIN log' : at[m] = i /\ log'[m] = log[i]
      <3>1. i # gone
        BY <2>2, <2>7, KindsDiffer
      <3> QED
        BY <2>4, <3>1
    <2>8. ASSUME NEW by, Answerable(by) PROVE Answerable(by)'
      <3>1. PICK i \in DOMAIN log :
               /\ log[i].type \in Sources /\ log[i].by # by /\ ~Ignored(log[i])
               /\ \A k \in DOMAIN log : k > i => Ignored(log[k])
        BY <2>8 DEF Answerable
      <3>2. PICK m \in DOMAIN log' : at[m] = i /\ log'[m] = log[i]
        BY <2>7, <3>1
      <3>3. \A k \in DOMAIN log' : k > m => Ignored(log'[k])
        BY <2>4, <2>5, <2>6, <3>1, <3>2
      <3> QED
        BY <3>1, <3>2, <3>3 DEF Answerable
    <2>9. AnswerIsDue'
      BY <1>1, <1>4, <2>8 DEF AnswerIsDue
    <2>10. ASSUME NEW n \in DOMAIN log', Judged(log'[n]) PROVE TakesTurn(n)'
      <3>1. TakesTurn(at[n]) /\ log'[n] = log[at[n]] /\ at[n] \in DOMAIN log
        BY <1>4, <2>4, <2>6, <2>10 DEF TurnsTaken
      <3>2. PICK i \in 1..(at[n] - 1) :
               /\ log[i].type \in Sources /\ log[i].by # log[at[n]].by /\ ~Ignored(log[i])
               /\ \A k \in (i + 1)..(at[n] - 1) : Ignored(log[k])
        BY <3>1 DEF TakesTurn
      <3>3. i \in DOMAIN log /\ i < at[n]
        BY <2>5, <3>1, <3>2
      <3>4. PICK m \in DOMAIN log' : at[m] = i /\ log'[m] = log[i]
        BY <2>7, <3>2, <3>3
      <3>5. m < n /\ m \in 1..(n - 1)
        BY <2>4, <2>5, <3>3, <3>4
      <3>6. ASSUME NEW k \in (m + 1)..(n - 1) PROVE Ignored(log'[k])
        <4>1. k \in DOMAIN log' /\ m < k /\ k < n
          BY <2>5, <3>5
        <4>2. at[k] \in (i + 1)..(at[n] - 1)
          BY <2>4, <2>5, <2>6, <3>1, <3>3, <3>4, <4>1
        <4> QED
          BY <2>4, <3>2, <4>1, <4>2
      <3> QED
        BY <3>1, <3>2, <3>4, <3>5, <3>6 DEF TakesTurn
    <2>11. TurnsTaken'
      BY <2>10 DEF TurnsTaken
    <2> QED
      BY <2>9, <2>11 DEF TurnInv
  <1> QED
    BY <1>2, <1>3, <1>4 DEF TurnInv

LEMMA TurnInvStep == ChangeInv /\ TurnInv /\ [Next]_vars => TurnInv'
  <1> SUFFICES ASSUME ChangeInv, TurnInv, [Next]_vars PROVE TurnInv'
    OBVIOUS
  <1>1. CASE \/ \E by \in Parties : Propose(by) \/ AddRequestEvent(by)
             \/ \E t \in Tx : CommitAnswer(t)
    BY <1>1, PartiesKeepTurns
  <1>2. CASE \E t \in Tx, by \in Parties : Answer(t, by)
    BY <1>2, AnswerKeepsTurns
  <1>3. CASE \E t \in Tx : AbortAnswer(t)
    <2>1. PICK t \in Tx : tx' = [tx EXCEPT ![t] = Idle] /\ UNCHANGED <<log, raced>>
      BY <1>3 DEF AbortAnswer
    <2> QED
      BY <2>1, SameLogKeepsTurns DEF ChangeInv, ChangeTypeOK
  <1>4. CASE \/ (\E w \in Workers : StartRun(w)) \/ UseReschedule \/ GrowOld \/ UNCHANGED vars
             \/ \E count \in 0..Allowance : UpdateSubscription(count)
    <2>1. UNCHANGED <<log, tx, raced>>
      BY <1>4 DEF StartRun, UseReschedule, UpdateSubscription, GrowOld, vars
    <2> QED
      BY <2>1, SameLogKeepsTurns
  <1>5. CASE \E w \in Workers : Flush(w) \/ CommitRun(w) \/ AbortRun(w)
    BY <1>5, FlushKeepsTurns, CommitRunKeepsTurns, AbortRunKeepsTurns
  <1> QED
    BY <1>1, <1>2, <1>3, <1>4, <1>5 DEF Next

(* As long as no event comes while an answer is under way, an answer by    *)
(* the subscription's endpoint follows a proposal said to be of another    *)
(* party, each proposal has one, and neither what the other endpoint adds  *)
(* nor what the job puts between the two or takes back changes that.       *)
THEOREM AnsweredInTurnCorrect == Spec => []AnsweredInTurn
  BY InitTurnInv, TurnInvStep, TurnInvSuffices, ChangeInvCorrect, PTL DEF Spec

==============================================================================
