------------------------------- MODULE Proposals -------------------------------
(***************************************************************************)
(* The subscription proposals of one teacher to one student: sent, paid,   *)
(* confirmed into a subscription, or rejected, cancelled, revoked, expired.*)
(*                                                                         *)
(* Every handler is one READ COMMITTED transaction in three steps: what it *)
(* reads without a lock and judges (Begin), its first write or its SELECT  *)
(* ... FOR UPDATE of the proposal, which waits for the row's lock and then *)
(* reads the preview lessons (Lock), and its commit.                       *)
(***************************************************************************)
EXTENDS Integers, FiniteSets

CONSTANTS
    Proposals,    \* bound: proposals ever made
    Renewals,     \* those that renew a subscription
    Linked,       \* those that answer the student's lesson request
    NoProposal,   \* stands for no proposal
    Lessons,      \* bound: preview lessons ever made
    Hinted,       \* a subscription the teacher issued by hand
    Tx            \* bound: transactions under way at once

ASSUME ProposalsAssumption ==
    /\ Renewals \subseteq Proposals
    /\ Linked \subseteq Proposals
    /\ NoProposal \notin Proposals
    /\ Hinted \notin Proposals \cup {NoProposal}

VARIABLES
    proposal,   \* per proposal: its status, deadline and subscription
    minted,     \* per proposal: subscriptions issued for it, each with its card
    relation,   \* the subscription the relationship was last activated with
    request,    \* status of the lesson request
    lesson,     \* per preview lesson: status, is_preview, subscription
    tx          \* the transactions under way

vars == <<proposal, minted, relation, request, lesson, tx>>

Status == {"none", "pending", "paymentNotified", "confirmed", "rejected", "expired", "cancelled"}
Active == {"pending", "paymentNotified"}

(* A subscription is named after the proposal it was minted for.           *)
Subscription == Proposals \cup {Hinted, NoProposal}
NoSub == NoProposal

Proposal == [status : Status, overdue : BOOLEAN, sub : Subscription]

Lesson == [status : {"none", "scheduled", "cancelled", "done"}, preview : BOOLEAN,
           sub : Subscription]

RequestStatus == {"pending", "proposalSent", "paymentNotified", "subscriptionIssued"}

Op == {"create", "renew", "accept", "reject", "cancel", "revoke", "expire", "confirm"}

(* seen: the proposal's status when last read; previews: the student's     *)
(* scheduled preview lessons when the transaction had the row.             *)
Transaction ==
    [stage : {"begun", "locked"}, op : Op, p : Proposals, seen : Status,
     sub : Subscription, previews : SUBSET Lessons]

Idle == [stage |-> "idle"]

Init ==
    /\ proposal = [p \in Proposals |-> [status |-> "none", overdue |-> FALSE, sub |-> NoSub]]
    /\ minted = [p \in Proposals |-> 0]
    /\ relation = NoSub
    /\ request = "pending"
    /\ lesson = [l \in Lessons |-> [status |-> "none", preview |-> FALSE, sub |-> NoSub]]
    /\ tx = [t \in Tx |-> Idle]

-----------------------------------------------------------------------------
(* Begin *)

Becomes(t, q) == tx' = [tx EXCEPT ![t] = q]

Begin(t, op, p) ==
    /\ tx[t] = Idle
    /\ Becomes(t, [stage |-> "begun", op |-> op, p |-> p, seen |-> proposal[p].status,
                   sub |-> NoSub, previews |-> {}])
    /\ UNCHANGED <<proposal, minted, relation, request, lesson>>

(* A proposal nobody has made and nobody is about to make.                 *)
New(p) == proposal[p].status = "none" /\ \A u \in Tx : tx[u] # Idle => tx[u].p # p

(* _assert_no_active_proposal, a SELECT.                                   *)
CreateProposal(t, p) ==
    /\ New(p)
    /\ \A o \in Proposals : proposal[o].status \notin Active
    /\ Begin(t, "create", p)

(* The renewal endpoint does not ask.                                      *)
CreateRenewalProposal(t, p) ==
    /\ New(p) /\ p \in Renewals
    /\ Begin(t, "renew", p)

(* respond_to_proposal and revoke; accepting minds the deadline.           *)
Respond(t, p, op) ==
    /\ op \in {"accept", "reject", "cancel", "revoke"}
    /\ proposal[p].status \in Active
    /\ op = "accept" => ~proposal[p].overdue
    /\ Begin(t, op, p)

(* The nightly sweep, or a teacher's.                                      *)
ExpireProposal(t, p) ==
    /\ proposal[p].status \in Active
    /\ proposal[p].overdue
    /\ Begin(t, "expire", p)

ConfirmProposal(t, p) ==
    /\ proposal[p].status # "none"
    /\ Begin(t, "confirm", p)

-----------------------------------------------------------------------------
(* Lock *)

RowFree(t, p) == \A u \in Tx \ {t} : tx[u].stage = "locked" => tx[u].p # p

Previews == {l \in Lessons : lesson[l].preview /\ lesson[l].status = "scheduled"}

(* confirm reads the proposal again, the others have judged it already.    *)
Rereads(q) ==
    [q EXCEPT !.stage = "locked", !.previews = Previews,
              !.seen = IF q.op = "confirm" THEN proposal[q.p].status ELSE @,
              !.sub = IF q.op = "confirm" THEN proposal[q.p].sub ELSE @]

(* Mutant: a plain SELECT, and writes that wait for nobody. *)
LockUnlocked(t) ==
    /\ tx[t].stage = "begun"
    /\ Becomes(t, Rereads(tx[t]))
    /\ UNCHANGED <<proposal, minted, relation, request, lesson>>

Lock(t) ==
    /\ tx[t].stage = "begun"
    /\ RowFree(t, tx[t].p)
    /\ Becomes(t, Rereads(tx[t]))
    /\ UNCHANGED <<proposal, minted, relation, request, lesson>>

-----------------------------------------------------------------------------
(* Commit *)

Commits(t, ops) ==
    /\ tx[t].stage = "locked"
    /\ tx[t].op \in ops
    /\ Becomes(t, Idle)

(* Mutant: every column is written back as it was read. *)
SetRow(q, status) ==
    proposal' = [proposal EXCEPT ![q.p].status = status, ![q.p].sub = q.sub]

(* A status is written over whatever is there, unless it is the one read.  *)
SetStatus(q, status) ==
    proposal' = [proposal EXCEPT ![q.p].status = IF status = q.seen THEN @ ELSE status]

Tells(q, status) == request' = IF q.p \in Linked THEN status ELSE request

CommitCreate(t) ==
    LET q == tx[t]
    IN  /\ Commits(t, {"create", "renew"})
        /\ SetStatus(q, "pending")
        /\ IF q.op = "create" THEN Tells(q, "proposalSent") ELSE UNCHANGED request
        /\ UNCHANGED <<minted, relation, lesson>>

CommitAccept(t) ==
    LET q == tx[t]
    IN  /\ Commits(t, {"accept"})
        /\ SetStatus(q, "paymentNotified")
        /\ Tells(q, "paymentNotified")
        /\ UNCHANGED <<minted, relation, lesson>>

(* _cancel_preview_lessons: is_preview stays.                              *)
CancelPreviews(q) ==
    lesson' = [l \in Lessons |-> IF l \in q.previews
                                 THEN [lesson[l] EXCEPT !.status = "cancelled"] ELSE lesson[l]]

(* Mutant: a status the enum does not have. *)
EndStatusRevoked(op) ==
    CASE op = "reject" -> "rejected"
      [] op = "expire" -> "expired"
      [] op = "revoke" -> "revoked"
      [] OTHER -> "cancelled"

EndStatus(op) ==
    CASE op = "reject" -> "rejected"
      [] op = "expire" -> "expired"
      [] OTHER -> "cancelled"

(* All but a revocation cancel the previews of a renewal.                  *)
CommitEnd(t) ==
    LET q == tx[t]
    IN  /\ Commits(t, {"reject", "cancel", "revoke", "expire"})
        /\ SetStatus(q, EndStatus(q.op))
        /\ IF q.p \in Renewals /\ q.op # "revoke" THEN CancelPreviews(q) ELSE UNCHANGED lesson
        /\ UNCHANGED <<minted, relation, request>>

(* A new subscription, unless the proposal has one or the teacher names one.*)
Mints(q, hint) == q.sub = NoSub /\ hint = NoSub

PromotePreviews(q, s) ==
    lesson' = [l \in Lessons |-> IF l \in q.previews
                                 THEN [lesson[l] EXCEPT !.sub = s, !.preview = FALSE]
                                 ELSE lesson[l]]

CommitConfirm(t) ==
    LET q == tx[t]
    IN  /\ Commits(t, {"confirm"})
        /\ q.seen = "paymentNotified"
        /\ \E hint \in {NoSub, Hinted} :
             LET new == Mints(q, hint)
                 s == IF new THEN q.p ELSE IF q.sub = NoSub THEN hint ELSE q.sub
             IN  /\ proposal' = [proposal EXCEPT ![q.p].sub = s, ![q.p].status = "confirmed"]
                 /\ minted' = [minted EXCEPT ![q.p] = IF new THEN @ + 1 ELSE @]
                 /\ relation' = IF new THEN s ELSE relation
                 /\ PromotePreviews(q, s)
        /\ Tells(q, "subscriptionIssued")

(* A failed check, an error, a deadlock's victim or a crash.               *)
Abort(t) ==
    /\ tx[t] # Idle
    /\ Becomes(t, Idle)
    /\ UNCHANGED <<proposal, minted, relation, request, lesson>>

-----------------------------------------------------------------------------
(* Around the proposals *)

Deadline(p) ==
    /\ proposal[p].status # "none" /\ ~proposal[p].overdue
    /\ proposal' = [proposal EXCEPT ![p].overdue = TRUE]
    /\ UNCHANGED <<minted, relation, request, lesson, tx>>

(* A lesson beyond the last session, booked until the renewal is paid.     *)
CreatePreview(l) ==
    /\ lesson[l].status = "none"
    /\ lesson' = [lesson EXCEPT ![l] = [status |-> "scheduled", preview |-> TRUE, sub |-> Hinted]]
    /\ UNCHANGED <<proposal, minted, relation, request, tx>>

(* The teacher cancels the lesson, or it takes place.                      *)
EndLesson(l) ==
    /\ lesson[l].status = "scheduled"
    /\ \E status \in {"cancelled", "done"} : lesson' = [lesson EXCEPT ![l].status = status]
    /\ UNCHANGED <<proposal, minted, relation, request, tx>>

Next ==
    \/ \E t \in Tx :
         \/ \E p \in Proposals :
              \/ CreateProposal(t, p) \/ CreateRenewalProposal(t, p)
              \/ \E op \in Op : Respond(t, p, op)
              \/ ExpireProposal(t, p) \/ ConfirmProposal(t, p)
         \/ Lock(t)
         \/ CommitCreate(t) \/ CommitAccept(t) \/ CommitEnd(t) \/ CommitConfirm(t)
         \/ Abort(t)
    \/ \E p \in Proposals : Deadline(p)
    \/ \E l \in Lessons : CreatePreview(l) \/ EndLesson(l)

Spec == Init /\ [][Next]_vars

-----------------------------------------------------------------------------
(* Properties *)

ProposalsTypeOK ==
    /\ proposal \in [Proposals -> Proposal]
    /\ minted \in [Proposals -> Nat]
    /\ relation \in Subscription
    /\ request \in RequestStatus
    /\ lesson \in [Lessons -> Lesson]
    /\ tx \in [Tx -> Transaction \cup {Idle}]

(* No proposal is issued twice (#468 1b), however often it is confirmed,   *)
(* also when a late answer brings a confirmed one back to paymentNotified. *)
MintedOnce == \A p \in Proposals : minted[p] <= 1

(* A subscription is only issued while the student's notice of payment     *)
(* stands: no rejection, cancellation or expiry slips in between.          *)
IssuedOnNotice ==
    [][\A p \in Proposals : minted'[p] # minted[p] => proposal[p].status = "paymentNotified"]_vars

(* What has been issued stays the proposal's own: a confirmed proposal has *)
(* its subscription, every subscription is some proposal's, and the        *)
(* relationship, the request and promoted lessons name one that exists.    *)
IssuesBacked ==
    /\ \A p \in Proposals :
         /\ proposal[p].status = "confirmed" => proposal[p].sub # NoSub
         /\ proposal[p].sub = p <=> minted[p] > 0
    /\ relation # NoSub => minted[relation] > 0
    /\ request = "subscriptionIssued" => \E p \in Linked : proposal[p].sub # NoSub
    /\ \A l \in Lessons : lesson[l].sub \in Proposals => minted[lesson[l].sub] > 0

=============================================================================
