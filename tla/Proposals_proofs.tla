--------------------------- MODULE Proposals_proofs ---------------------------
(***************************************************************************)
(* The properties of Proposals, for any number of proposals, preview       *)
(* lessons and requests.                                                   *)
(*                                                                         *)
(* Whoever writes a proposal has its row: at most one transaction has the  *)
(* row of a proposal, and a confirmation, which reads the proposal again   *)
(* once it has the row, knows its status and its subscription as they are. *)
(***************************************************************************)
EXTENDS Proposals, TLAPS

Locked(t) == tx[t].stage = "locked"

Exclusive ==
    \A t, u \in Tx : Locked(t) /\ Locked(u) /\ tx[t].p = tx[u].p => t = u

Fresh ==
    \A t \in Tx : Locked(t) /\ tx[t].op = "confirm" =>
        /\ tx[t].seen = proposal[tx[t].p].status
        /\ tx[t].sub = proposal[tx[t].p].sub

RowInv ==
    /\ ProposalsTypeOK
    /\ Exclusive
    /\ Fresh

(* A proposal has no subscription but its own or one issued by hand, and   *)
(* the relationship only ever follows one that was issued for a proposal.  *)
OwnSub ==
    /\ \A p \in Proposals : proposal[p].sub \in {NoSub, Hinted, p}
    /\ relation \in Proposals \cup {NoSub}

IssueInv ==
    /\ RowInv
    /\ OwnSub
    /\ MintedOnce
    /\ IssuesBacked

-----------------------------------------------------------------------------
(* Types *)

LEMMA IdleIsIdle == Idle.stage = "idle"
  BY DEF Idle

LEMMA TransactionFields ==
    ASSUME ProposalsTypeOK, NEW t \in Tx, tx[t] # Idle
    PROVE  /\ tx[t] \in Transaction
           /\ tx[t].stage \in {"begun", "locked"}
           /\ tx[t].op \in Op
           /\ tx[t].p \in Proposals
           /\ tx[t].seen \in Status
           /\ tx[t].sub \in Subscription
           /\ tx[t].previews \in SUBSET Lessons
  <1>1. tx[t] \in Transaction
    BY DEF ProposalsTypeOK
  <1> QED
    BY <1>1 DEF Transaction

LEMMA ProposalFields ==
    ASSUME ProposalsTypeOK, NEW p \in Proposals
    PROVE  /\ proposal[p] \in Proposal
           /\ proposal[p].status \in Status
           /\ proposal[p].overdue \in BOOLEAN
           /\ proposal[p].sub \in Subscription
  <1>1. proposal[p] \in Proposal
    BY DEF ProposalsTypeOK
  <1> QED
    BY <1>1 DEF Proposal

LEMMA SentinelsDiffer ==
    /\ NoSub \notin Proposals
    /\ Hinted \notin Proposals
    /\ Hinted # NoSub
  BY ProposalsAssumption DEF NoSub

-----------------------------------------------------------------------------
(* Begin, Lock *)

Begins(t) ==
    \E p \in Proposals :
        \/ CreateProposal(t, p) \/ CreateRenewalProposal(t, p)
        \/ \E op \in Op : Respond(t, p, op)
        \/ ExpireProposal(t, p) \/ ConfirmProposal(t, p)

Commit(t) == CommitCreate(t) \/ CommitAccept(t) \/ CommitEnd(t) \/ CommitConfirm(t)

LEMMA BeginsBegin ==
    ASSUME NEW t \in Tx, Begins(t)
    PROVE  \E op \in Op, p \in Proposals : Begin(t, op, p)
  BY DEF Begins, CreateProposal, CreateRenewalProposal, Respond, ExpireProposal,
     ConfirmProposal, Op

LEMMA BeginKeepsRowInv ==
    ASSUME RowInv, NEW t \in Tx, Begins(t)
    PROVE  RowInv'
  <1> PICK op \in Op, p \in Proposals : Begin(t, op, p)
    BY BeginsBegin
  <1> DEFINE q == [stage |-> "begun", op |-> op, p |-> p, seen |-> proposal[p].status,
                   sub |-> NoSub, previews |-> {}]
  <1>1. /\ tx' = [tx EXCEPT ![t] = q]
        /\ UNCHANGED <<proposal, minted, relation, request, lesson>>
    BY DEF Begin, Becomes
  <1>2. q \in Transaction
    BY ProposalFields DEF Transaction, RowInv, Subscription, NoSub
  <1>3. ProposalsTypeOK'
    BY <1>1, <1>2 DEF RowInv, ProposalsTypeOK
  <1>4. \A u \in Tx : Locked(u)' => u # t /\ tx'[u] = tx[u] /\ Locked(u)
    BY <1>1 DEF RowInv, ProposalsTypeOK, Locked
  <1> HIDE DEF q
  <1>5. Exclusive'
    BY <1>4 DEF RowInv, Exclusive
  <1>6. Fresh'
    BY <1>1, <1>4 DEF RowInv, Fresh
  <1> QED
    BY <1>3, <1>5, <1>6 DEF RowInv

LEMMA LockKeepsRowInv ==
    ASSUME RowInv, NEW t \in Tx, Lock(t)
    PROVE  RowInv'
  <1>1. /\ tx[t].stage = "begun" /\ tx[t] # Idle
        /\ RowFree(t, tx[t].p)
        /\ tx' = [tx EXCEPT ![t] = Rereads(tx[t])]
        /\ UNCHANGED <<proposal, minted, relation, request, lesson>>
    BY IdleIsIdle DEF Lock, Becomes
  <1>2. /\ tx[t] \in Transaction
        /\ tx[t].p \in Proposals
        /\ proposal[tx[t].p].status \in Status
        /\ proposal[tx[t].p].sub \in Subscription
    BY <1>1, TransactionFields, ProposalFields DEF RowInv
  <1>3. Previews \in SUBSET Lessons
    BY DEF Previews
  <1>4. /\ Rereads(tx[t]) \in Transaction
        /\ Rereads(tx[t]).p = tx[t].p
        /\ Rereads(tx[t]).op = tx[t].op
        /\ tx[t].op = "confirm" => /\ Rereads(tx[t]).seen = proposal[tx[t].p].status
                                   /\ Rereads(tx[t]).sub = proposal[tx[t].p].sub
    BY <1>2, <1>3 DEF Rereads, Transaction
  <1>5. ProposalsTypeOK'
    BY <1>1, <1>4 DEF RowInv, ProposalsTypeOK
  <1>6. \A u \in Tx : u # t => tx'[u] = tx[u] /\ (Locked(u)' => Locked(u) /\ tx[u].p # tx[t].p)
    BY <1>1 DEF RowInv, ProposalsTypeOK, Locked, RowFree
  <1>7. tx'[t] = Rereads(tx[t])
    BY <1>1 DEF RowInv, ProposalsTypeOK
  <1>8. Exclusive'
    BY <1>4, <1>6, <1>7 DEF RowInv, Exclusive
  <1>9. Fresh'
    BY <1>1, <1>4, <1>6, <1>7 DEF RowInv, Fresh
  <1> QED
    BY <1>5, <1>8, <1>9 DEF RowInv

-----------------------------------------------------------------------------
(* Commit *)

(* The others keep their rows, none of which is this one's.                *)
LEMMA CommitLeavesOthers ==
    ASSUME RowInv, NEW t \in Tx, NEW ops, Commits(t, ops)
    PROVE  /\ tx[t] # Idle /\ Locked(t) /\ tx[t].op \in ops
           /\ tx' \in [Tx -> Transaction \cup {Idle}]
           /\ \A u \in Tx : Locked(u)' =>
                u # t /\ tx'[u] = tx[u] /\ Locked(u) /\ tx[u].p # tx[t].p
  <1>1. tx[t] # Idle /\ Locked(t) /\ tx[t].op \in ops /\ tx' = [tx EXCEPT ![t] = Idle]
    BY IdleIsIdle DEF Commits, Becomes, Locked
  <1>2. tx' \in [Tx -> Transaction \cup {Idle}]
    BY <1>1 DEF RowInv, ProposalsTypeOK
  <1>3. \A u \in Tx : Locked(u)' => u # t /\ tx'[u] = tx[u] /\ Locked(u)
    BY <1>1, IdleIsIdle DEF RowInv, ProposalsTypeOK, Locked
  <1> QED
    BY <1>1, <1>2, <1>3 DEF RowInv, Exclusive

(* Writing one's own row disturbs nobody else.                             *)
LEMMA OwnRowKeepsLocks ==
    ASSUME RowInv, NEW t \in Tx, NEW ops, Commits(t, ops), ProposalsTypeOK',
           \A p \in Proposals : p # tx[t].p => proposal'[p] = proposal[p]
    PROVE  RowInv'
  <1>1. \A u \in Tx : Locked(u)' =>
           u # t /\ tx'[u] = tx[u] /\ Locked(u) /\ tx[u].p # tx[t].p
    BY CommitLeavesOthers
  <1>2. Exclusive'
    BY <1>1 DEF RowInv, Exclusive
  <1>3. \A u \in Tx : Locked(u)' => tx[u].p \in Proposals
    BY <1>1, IdleIsIdle, TransactionFields DEF Locked, RowInv
  <1>4. Fresh'
    BY <1>1, <1>3 DEF RowInv, Fresh
  <1> QED
    BY <1>2, <1>4 DEF RowInv

(* What SetStatus leaves alone.                                            *)
LEMMA SetStatusRows ==
    ASSUME ProposalsTypeOK, NEW q \in Transaction, NEW status \in Status, SetStatus(q, status)
    PROVE  /\ proposal' \in [Proposals -> Proposal]
           /\ \A p \in Proposals : p # q.p => proposal'[p] = proposal[p]
           /\ \A p \in Proposals : proposal'[p].sub = proposal[p].sub
           /\ proposal'[q.p].status \in {status, proposal[q.p].status}
  <1>1. q.p \in Proposals
    BY DEF Transaction
  <1>2. proposal' = [proposal EXCEPT ![q.p].status =
                       IF status = q.seen THEN proposal[q.p].status ELSE status]
    BY <1>1 DEF SetStatus, ProposalsTypeOK
  <1> DEFINE new == IF status = q.seen THEN proposal[q.p].status ELSE status
  <1>3. new \in Status
    BY <1>1, ProposalFields
  <1>4. proposal[q.p] \in Proposal
    BY <1>1, ProposalFields
  <1>5. /\ [proposal[q.p] EXCEPT !.status = new] \in Proposal
        /\ [proposal[q.p] EXCEPT !.status = new].sub = proposal[q.p].sub
        /\ [proposal[q.p] EXCEPT !.status = new].status = new
    BY <1>3, <1>4 DEF Proposal
  <1>6. proposal' = [proposal EXCEPT ![q.p] = [proposal[q.p] EXCEPT !.status = new]]
    BY <1>2, <1>1 DEF ProposalsTypeOK
  <1> QED
    BY <1>1, <1>5, <1>6 DEF ProposalsTypeOK

LEMMA CancelPreviewsType ==
    ASSUME ProposalsTypeOK, NEW q \in Transaction, CancelPreviews(q)
    PROVE  /\ lesson' \in [Lessons -> Lesson]
           /\ \A l \in Lessons : lesson'[l].sub = lesson[l].sub
  <1>1. \A l \in Lessons : /\ [lesson[l] EXCEPT !.status = "cancelled"] \in Lesson
                           /\ [lesson[l] EXCEPT !.status = "cancelled"].sub = lesson[l].sub
    BY DEF ProposalsTypeOK, Lesson
  <1> QED
    BY <1>1 DEF CancelPreviews, ProposalsTypeOK

LEMMA TellsType ==
    ASSUME ProposalsTypeOK, NEW q, NEW status \in RequestStatus, Tells(q, status)
    PROVE  /\ request' \in RequestStatus
           /\ request' \in {status, request}
  BY DEF ProposalsTypeOK, Tells

StatusOps == {"create", "renew", "accept", "reject", "cancel", "revoke", "expire"}

(* Everything but a confirmation writes a status, and none "confirmed".    *)
LEMMA StatusCommit ==
    ASSUME RowInv, NEW t \in Tx, CommitCreate(t) \/ CommitAccept(t) \/ CommitEnd(t)
    PROVE  /\ RowInv'
           /\ UNCHANGED <<minted, relation>>
           /\ \A p \in Proposals : /\ proposal'[p].sub = proposal[p].sub
                                   /\ proposal'[p].status = "confirmed" =>
                                        proposal[p].status = "confirmed"
           /\ request' = "subscriptionIssued" => request = "subscriptionIssued"
           /\ \A l \in Lessons : lesson'[l].sub = lesson[l].sub
  <1> DEFINE q == tx[t]
  <1>0. PICK status \in Status \ {"none", "confirmed"} :
           /\ Commits(t, StatusOps)
           /\ SetStatus(q, status)
           /\ UNCHANGED request \/ Tells(q, "proposalSent") \/ Tells(q, "paymentNotified")
           /\ CancelPreviews(q) \/ UNCHANGED lesson
           /\ UNCHANGED <<minted, relation>>
    <2>1. CASE CommitCreate(t)
      <3>1. Commits(t, StatusOps) /\ SetStatus(q, "pending")
        BY <2>1 DEF CommitCreate, Commits, StatusOps
      <3>2. "pending" \in Status \ {"none", "confirmed"}
        BY DEF Status
      <3> QED
        BY <2>1, <3>1, <3>2 DEF CommitCreate
    <2>2. CASE CommitAccept(t)
      <3>1. Commits(t, StatusOps) /\ SetStatus(q, "paymentNotified")
        BY <2>2 DEF CommitAccept, Commits, StatusOps
      <3>2. "paymentNotified" \in Status \ {"none", "confirmed"}
        BY DEF Status
      <3> QED
        BY <2>2, <3>1, <3>2 DEF CommitAccept
    <2>3. CASE CommitEnd(t)
      <3>1. Commits(t, StatusOps) /\ SetStatus(q, EndStatus(q.op))
        BY <2>3 DEF CommitEnd, Commits, StatusOps
      <3>2. EndStatus(q.op) \in Status \ {"none", "confirmed"}
        BY DEF Status, EndStatus
      <3> QED
        BY <2>3, <3>1, <3>2 DEF CommitEnd
    <2> QED
      BY <2>1, <2>2, <2>3
  <1>1. /\ q \in Transaction /\ q.p \in Proposals
        /\ tx' \in [Tx -> Transaction \cup {Idle}]
    BY <1>0, CommitLeavesOthers, TransactionFields DEF RowInv
  <1>2. /\ proposal' \in [Proposals -> Proposal]
        /\ \A p \in Proposals : p # q.p => proposal'[p] = proposal[p]
        /\ \A p \in Proposals : proposal'[p].sub = proposal[p].sub
        /\ proposal'[q.p].status \in {status, proposal[q.p].status}
    BY <1>0, <1>1, SetStatusRows DEF RowInv
  <1>3. /\ request' \in RequestStatus
        /\ request' = "subscriptionIssued" => request = "subscriptionIssued"
    BY <1>0, TellsType DEF RowInv, ProposalsTypeOK, RequestStatus
  <1>4. /\ lesson' \in [Lessons -> Lesson]
        /\ \A l \in Lessons : lesson'[l].sub = lesson[l].sub
    BY <1>0, <1>1, CancelPreviewsType DEF RowInv, ProposalsTypeOK
  <1>5. ProposalsTypeOK'
    BY <1>0, <1>1, <1>2, <1>3, <1>4 DEF RowInv, ProposalsTypeOK
  <1>6. RowInv'
    BY <1>0, <1>2, <1>5, OwnRowKeepsLocks
  <1> QED
    BY <1>0, <1>2, <1>3, <1>4, <1>6

(* A confirmation knows what it confirms.                                  *)
LEMMA ConfirmCommit ==
    ASSUME RowInv, OwnSub, NEW t \in Tx, CommitConfirm(t)
    PROVE  \E p \in Proposals, s \in Subscription :
              LET new == minted'[p] # minted[p]
              IN  /\ RowInv'
                  /\ proposal[p].status = "paymentNotified"
                  /\ s \in {p, Hinted}
                  /\ proposal' = [proposal EXCEPT ![p].sub = s, ![p].status = "confirmed"]
                  /\ \/ /\ proposal[p].sub = NoSub /\ s = p
                        /\ minted' = [minted EXCEPT ![p] = @ + 1]
                        /\ relation' = p
                     \/ /\ proposal[p].sub = NoSub /\ s = Hinted
                        /\ UNCHANGED <<minted, relation>>
                     \/ /\ proposal[p].sub = s
                        /\ UNCHANGED <<minted, relation>>
                  /\ request' = "subscriptionIssued" =>
                        p \in Linked \/ request = "subscriptionIssued"
                  /\ \A l \in Lessons : lesson'[l].sub \in {s, lesson[l].sub}
  <1> DEFINE q == tx[t]
             p == q.p
  <1>1. /\ Commits(t, {"confirm"})
        /\ q.seen = "paymentNotified"
        /\ Tells(q, "subscriptionIssued")
    BY DEF CommitConfirm
  <1>2. PICK hint \in {NoSub, Hinted} :
           LET new == Mints(q, hint)
               s == IF new THEN p ELSE IF q.sub = NoSub THEN hint ELSE q.sub
           IN  /\ proposal' = [proposal EXCEPT ![p].sub = s, ![p].status = "confirmed"]
               /\ minted' = [minted EXCEPT ![p] = IF new THEN @ + 1 ELSE @]
               /\ relation' = IF new THEN s ELSE relation
               /\ PromotePreviews(q, s)
    BY DEF CommitConfirm
  <1> DEFINE new == Mints(q, hint)
             s == IF new THEN p ELSE IF q.sub = NoSub THEN hint ELSE q.sub
  <1>3. /\ q \in Transaction /\ p \in Proposals
        /\ Locked(t) /\ q.op = "confirm"
        /\ tx' \in [Tx -> Transaction \cup {Idle}]
    BY <1>1, CommitLeavesOthers, TransactionFields DEF RowInv
  <1>4. /\ q.seen = proposal[p].status
        /\ q.sub = proposal[p].sub
    BY <1>3 DEF RowInv, Fresh
  <1>5. proposal[p].sub \in {NoSub, Hinted, p}
    BY <1>3 DEF OwnSub
  <1>6. /\ s \in {p, Hinted}
        /\ \/ new /\ proposal[p].sub = NoSub /\ s = p
           \/ ~new /\ proposal[p].sub = NoSub /\ s = Hinted
           \/ ~new /\ proposal[p].sub = s
    BY <1>4, <1>5, SentinelsDiffer DEF Mints
  <1>7. s \in Subscription
    BY <1>3, <1>6 DEF Subscription
  <1>8. /\ proposal' = [proposal EXCEPT ![p].sub = s, ![p].status = "confirmed"]
        /\ minted' = [minted EXCEPT ![p] = IF new THEN @ + 1 ELSE @]
        /\ relation' = IF new THEN s ELSE relation
        /\ PromotePreviews(q, s)
    BY <1>2
  <1>9. new \in BOOLEAN
    BY DEF Mints
  <1> HIDE DEF s, new
  <1>10. /\ request' \in RequestStatus
         /\ request' = "subscriptionIssued" => p \in Linked \/ request = "subscriptionIssued"
    BY <1>1 DEF Tells, RowInv, ProposalsTypeOK, RequestStatus
  <1>11. /\ lesson' \in [Lessons -> Lesson]
         /\ \A l \in Lessons : lesson'[l].sub \in {s, lesson[l].sub}
    <2>1. \A l \in Lessons : /\ [lesson[l] EXCEPT !.sub = s, !.preview = FALSE] \in Lesson
                             /\ [lesson[l] EXCEPT !.sub = s, !.preview = FALSE].sub = s
      BY <1>7 DEF RowInv, ProposalsTypeOK, Lesson
    <2> QED
      BY <1>8, <2>1 DEF PromotePreviews, RowInv, ProposalsTypeOK
  <1>12. /\ proposal' \in [Proposals -> Proposal]
         /\ \A o \in Proposals : o # p => proposal'[o] = proposal[o]
    <2>1. [proposal[p] EXCEPT !.sub = s, !.status = "confirmed"] \in Proposal
      BY <1>3, <1>7, ProposalFields DEF RowInv, Proposal, Status
    <2>2. proposal' = [proposal EXCEPT ![p] = [proposal[p] EXCEPT !.sub = s,
                                                                 !.status = "confirmed"]]
      BY <1>3, <1>8 DEF RowInv, ProposalsTypeOK
    <2> QED
      BY <2>1, <2>2 DEF RowInv, ProposalsTypeOK
  <1>13. minted' \in [Proposals -> Nat] /\ relation' \in Subscription
    BY <1>3, <1>7, <1>8 DEF RowInv, ProposalsTypeOK
  <1>14. ProposalsTypeOK'
    BY <1>3, <1>10, <1>11, <1>12, <1>13 DEF ProposalsTypeOK
  <1>15. RowInv'
    BY <1>1, <1>12, <1>14, OwnRowKeepsLocks
  <1>16. \/ /\ proposal[p].sub = NoSub /\ s = p
            /\ minted' = [minted EXCEPT ![p] = @ + 1]
            /\ relation' = p
         \/ /\ proposal[p].sub = NoSub /\ s = Hinted
            /\ UNCHANGED <<minted, relation>>
         \/ /\ proposal[p].sub = s
            /\ UNCHANGED <<minted, relation>>
    BY <1>3, <1>6, <1>8 DEF RowInv, ProposalsTypeOK
  <1> QED
    BY <1>1, <1>3, <1>4, <1>6, <1>7, <1>8, <1>10, <1>11, <1>15, <1>16

-----------------------------------------------------------------------------
(* The invariant *)

LEMMA InitIssueInv == Init => IssueInv
  <1> SUFFICES ASSUME Init PROVE IssueInv
    OBVIOUS
  <1> USE DEF Init
  <1>1. ProposalsTypeOK
    BY DEF ProposalsTypeOK, Proposal, Status, Subscription, NoSub, RequestStatus, Lesson
  <1>2. \A t \in Tx : ~Locked(t)
    BY IdleIsIdle DEF Locked
  <1>3. OwnSub /\ MintedOnce
    BY DEF OwnSub, MintedOnce
  <1>4. IssuesBacked
    BY SentinelsDiffer DEF IssuesBacked
  <1> QED
    BY <1>1, <1>2, <1>3, <1>4 DEF IssueInv, RowInv, Exclusive, Fresh

(* What does not touch a subscription.                                     *)
LEMMA QuietStep ==
    ASSUME IssueInv, RowInv',
           UNCHANGED <<minted, relation>>,
           \A p \in Proposals : /\ proposal'[p].sub = proposal[p].sub
                                /\ proposal'[p].status = "confirmed" =>
                                     proposal[p].status = "confirmed",
           request' = "subscriptionIssued" => request = "subscriptionIssued",
           \A l \in Lessons : lesson'[l].sub \in {lesson[l].sub, Hinted}
    PROVE  IssueInv'
  <1>1. OwnSub' /\ MintedOnce'
    BY DEF IssueInv, OwnSub, MintedOnce
  <1>2. IssuesBacked'
    BY SentinelsDiffer, ProposalsAssumption DEF IssueInv, IssuesBacked
  <1> QED
    BY <1>1, <1>2 DEF IssueInv

LEMMA ConfirmKeepsIssueInv ==
    ASSUME IssueInv, NEW t \in Tx, CommitConfirm(t)
    PROVE  /\ IssueInv'
           /\ \A p \in Proposals :
                 minted'[p] # minted[p] => proposal[p].status = "paymentNotified"
  <1>1. PICK p \in Proposals, s \in Subscription :
           /\ RowInv'
           /\ proposal[p].status = "paymentNotified"
           /\ s \in {p, Hinted}
           /\ proposal' = [proposal EXCEPT ![p].sub = s, ![p].status = "confirmed"]
           /\ \/ /\ proposal[p].sub = NoSub /\ s = p
                 /\ minted' = [minted EXCEPT ![p] = @ + 1]
                 /\ relation' = p
              \/ /\ proposal[p].sub = NoSub /\ s = Hinted
                 /\ UNCHANGED <<minted, relation>>
              \/ /\ proposal[p].sub = s
                 /\ UNCHANGED <<minted, relation>>
           /\ request' = "subscriptionIssued" =>
                 p \in Linked \/ request = "subscriptionIssued"
           /\ \A l \in Lessons : lesson'[l].sub \in {s, lesson[l].sub}
    BY ConfirmCommit DEF IssueInv
  <1>2. /\ proposal'[p].sub = s
        /\ \A o \in Proposals : o # p => proposal'[o] = proposal[o]
    BY <1>1 DEF IssueInv, RowInv, ProposalsTypeOK, Proposal
  <1>3. \A o \in Proposals : minted[o] \in Nat /\ (proposal[o].sub = o <=> minted[o] > 0)
    BY DEF IssueInv, RowInv, ProposalsTypeOK, IssuesBacked
  <1>4. /\ \A o \in Proposals : o # p => minted'[o] = minted[o]
        /\ minted'[p] = IF s = p THEN 1 ELSE 0
        /\ \A o \in Proposals : minted[o] > 0 => minted'[o] > 0
    <2>1. minted[p] = IF proposal[p].sub = p THEN 1 ELSE 0
      BY <1>3 DEF IssueInv, MintedOnce
    <2>2. minted \in [Proposals -> Nat]
      BY DEF IssueInv, RowInv, ProposalsTypeOK
    <2> QED
      BY <1>1, <1>3, <2>1, <2>2, SentinelsDiffer
  <1>5. MintedOnce'
    BY <1>4 DEF IssueInv, MintedOnce
  <1>6. OwnSub'
    BY <1>1, <1>2 DEF IssueInv, OwnSub
  <1>7. IssuesBacked'
    <2>1. \A o \in Proposals : /\ proposal'[o].status = "confirmed" => proposal'[o].sub # NoSub
                               /\ proposal'[o].sub = o <=> minted'[o] > 0
      <3>1. CASE s = p
        BY <3>1, <1>2, <1>3, <1>4, SentinelsDiffer DEF IssueInv, IssuesBacked
      <3>2. CASE s # p
        <4>1. s = Hinted
          BY <3>2, <1>1
        <4> QED
          BY <4>1, <1>2, <1>3, <1>4, SentinelsDiffer DEF IssueInv, IssuesBacked
      <3> QED
        BY <3>1, <3>2
    <2>2. relation' # NoSub => minted'[relation'] > 0
      <3>1. CASE relation' = relation
        BY <3>1, <1>4 DEF IssueInv, OwnSub, IssuesBacked
      <3>2. CASE relation' = p /\ s = p
        BY <3>2, <1>4
      <3> QED
        BY <1>1, <3>1, <3>2
    <2>3. request' = "subscriptionIssued" => \E o \in Linked : proposal'[o].sub # NoSub
      <3>1. CASE p \in Linked
        BY <3>1, <1>1, <1>2, SentinelsDiffer
      <3>2. CASE p \notin Linked /\ request = "subscriptionIssued"
        BY <3>2, <1>2, ProposalsAssumption DEF IssueInv, IssuesBacked
      <3> QED
        BY <1>1, <3>1, <3>2
    <2>4. \A l \in Lessons : lesson'[l].sub \in Proposals => minted'[lesson'[l].sub] > 0
      BY <1>1, <1>4, SentinelsDiffer DEF IssueInv, IssuesBacked
    <2> QED
      BY <2>1, <2>2, <2>3, <2>4 DEF IssuesBacked
  <1> QED
    BY <1>1, <1>3, <1>4, <1>5, <1>6, <1>7 DEF IssueInv

LEMMA SurroundingsKeepRowInv ==
    ASSUME RowInv,
           \/ \E t \in Tx : Abort(t)
           \/ \E p \in Proposals : Deadline(p)
           \/ \E l \in Lessons : CreatePreview(l) \/ EndLesson(l)
    PROVE  /\ RowInv'
           /\ UNCHANGED <<minted, relation, request>>
           /\ \A p \in Proposals : /\ proposal'[p].sub = proposal[p].sub
                                   /\ proposal'[p].status = proposal[p].status
           /\ \A l \in Lessons : lesson'[l].sub \in {lesson[l].sub, Hinted}
  <1>1. CASE \E t \in Tx : Abort(t)
    <2> PICK t \in Tx : Abort(t)
      BY <1>1
    <2>1. /\ tx' = [tx EXCEPT ![t] = Idle]
          /\ UNCHANGED <<proposal, minted, relation, request, lesson>>
      BY DEF Abort, Becomes
    <2>2. ProposalsTypeOK'
      BY <2>1 DEF RowInv, ProposalsTypeOK
    <2>3. \A u \in Tx : Locked(u)' => u # t /\ tx'[u] = tx[u] /\ Locked(u)
      BY <2>1, IdleIsIdle DEF RowInv, ProposalsTypeOK, Locked
    <2> QED
      BY <2>1, <2>2, <2>3 DEF RowInv, Exclusive, Fresh
  <1>2. CASE \E p \in Proposals : Deadline(p)
    <2> PICK p \in Proposals : Deadline(p)
      BY <1>2
    <2>1. /\ proposal' = [proposal EXCEPT ![p].overdue = TRUE]
          /\ UNCHANGED <<minted, relation, request, lesson, tx>>
      BY DEF Deadline
    <2>2. proposal[p] \in Proposal
      BY ProposalFields DEF RowInv
    <2>3. /\ [proposal[p] EXCEPT !.overdue = TRUE] \in Proposal
          /\ [proposal[p] EXCEPT !.overdue = TRUE].sub = proposal[p].sub
          /\ [proposal[p] EXCEPT !.overdue = TRUE].status = proposal[p].status
      BY <2>2 DEF Proposal
    <2>4. /\ proposal' \in [Proposals -> Proposal]
          /\ \A o \in Proposals : /\ proposal'[o].sub = proposal[o].sub
                                  /\ proposal'[o].status = proposal[o].status
      BY <2>1, <2>3 DEF RowInv, ProposalsTypeOK
    <2>5. ProposalsTypeOK'
      BY <2>1, <2>4 DEF RowInv, ProposalsTypeOK
    <2>6. \A u \in Tx : Locked(u) => tx[u].p \in Proposals
      BY IdleIsIdle, TransactionFields DEF Locked, RowInv
    <2> QED
      BY <2>1, <2>4, <2>5, <2>6 DEF RowInv, Exclusive, Fresh, Locked
  <1>3. CASE \E l \in Lessons : CreatePreview(l) \/ EndLesson(l)
    <2>1. UNCHANGED <<proposal, minted, relation, request, tx>>
      BY <1>3 DEF CreatePreview, EndLesson
    <2>2. PICK l \in Lessons, new \in Lesson :
             /\ lesson' = [lesson EXCEPT ![l] = new]
             /\ new.sub \in {lesson[l].sub, Hinted}
      <3>1. ASSUME NEW l \in Lessons, CreatePreview(l)
            PROVE  \E new \in Lesson : /\ lesson' = [lesson EXCEPT ![l] = new]
                                       /\ new.sub \in {lesson[l].sub, Hinted}
        <4> DEFINE new == [status |-> "scheduled", preview |-> TRUE, sub |-> Hinted]
        <4>1. new \in Lesson /\ new.sub = Hinted
          BY DEF Lesson, Subscription
        <4>2. lesson' = [lesson EXCEPT ![l] = new]
          BY <3>1 DEF CreatePreview
        <4> QED
          BY <4>1, <4>2
      <3>2. ASSUME NEW l \in Lessons, EndLesson(l)
            PROVE  \E new \in Lesson : /\ lesson' = [lesson EXCEPT ![l] = new]
                                       /\ new.sub \in {lesson[l].sub, Hinted}
        <4>1. PICK status \in {"cancelled", "done"} :
                 lesson' = [lesson EXCEPT ![l].status = status]
          BY <3>2 DEF EndLesson
        <4>2. /\ [lesson[l] EXCEPT !.status = status] \in Lesson
              /\ [lesson[l] EXCEPT !.status = status].sub = lesson[l].sub
          BY DEF RowInv, ProposalsTypeOK, Lesson
        <4>3. lesson' = [lesson EXCEPT ![l] = [lesson[l] EXCEPT !.status = status]]
          BY <4>1 DEF RowInv, ProposalsTypeOK
        <4> QED
          BY <4>2, <4>3
      <3> QED
        BY <1>3, <3>1, <3>2
    <2>3. lesson' \in [Lessons -> Lesson] /\ \A m \in Lessons : lesson'[m].sub \in {lesson[m].sub, Hinted}
      BY <2>2 DEF RowInv, ProposalsTypeOK
    <2>4. ProposalsTypeOK'
      BY <2>1, <2>3 DEF RowInv, ProposalsTypeOK
    <2> QED
      BY <2>1, <2>3, <2>4 DEF RowInv, Exclusive, Fresh, Locked
  <1> QED
    BY <1>1, <1>2, <1>3

(* Every step keeps the invariant, and issues only on notice.              *)
LEMMA IssueInvStep ==
    IssueInv /\ [Next]_vars =>
        /\ IssueInv'
        /\ \A p \in Proposals : minted'[p] # minted[p] => proposal[p].status = "paymentNotified"
  <1> DEFINE OnNotice == \A p \in Proposals :
                            minted'[p] # minted[p] => proposal[p].status = "paymentNotified"
  <1> SUFFICES ASSUME IssueInv, [Next]_vars PROVE IssueInv' /\ OnNotice
    OBVIOUS
  <1>1. CASE UNCHANGED vars
    BY <1>1 DEF vars, IssueInv, RowInv, ProposalsTypeOK, Exclusive, Fresh, Locked, OwnSub,
       MintedOnce, IssuesBacked
  <1>2. ASSUME NEW t \in Tx, Begins(t) PROVE IssueInv' /\ OnNotice
    <2>1. UNCHANGED <<proposal, minted, relation, request, lesson>>
      BY <1>2, BeginsBegin DEF Begin
    <2>2. RowInv'
      BY <1>2, BeginKeepsRowInv DEF IssueInv
    <2> QED
      BY <2>1, <2>2, QuietStep
  <1>3. ASSUME NEW t \in Tx, Lock(t) PROVE IssueInv' /\ OnNotice
    <2>1. UNCHANGED <<proposal, minted, relation, request, lesson>>
      BY <1>3 DEF Lock
    <2>2. RowInv'
      BY <1>3, LockKeepsRowInv DEF IssueInv
    <2> QED
      BY <2>1, <2>2, QuietStep
  <1>4. ASSUME NEW t \in Tx, CommitCreate(t) \/ CommitAccept(t) \/ CommitEnd(t)
        PROVE  IssueInv' /\ OnNotice
    <2>1. /\ RowInv'
          /\ UNCHANGED <<minted, relation>>
          /\ \A p \in Proposals : /\ proposal'[p].sub = proposal[p].sub
                                  /\ proposal'[p].status = "confirmed" =>
                                       proposal[p].status = "confirmed"
          /\ request' = "subscriptionIssued" => request = "subscriptionIssued"
          /\ \A l \in Lessons : lesson'[l].sub = lesson[l].sub
      BY <1>4, StatusCommit DEF IssueInv
    <2> QED
      BY <2>1, QuietStep
  <1>5. ASSUME NEW t \in Tx, CommitConfirm(t) PROVE IssueInv' /\ OnNotice
    BY <1>5, ConfirmKeepsIssueInv
  <1>6. CASE \/ \E t \in Tx : Abort(t)
             \/ \E p \in Proposals : Deadline(p)
             \/ \E l \in Lessons : CreatePreview(l) \/ EndLesson(l)
    <2>1. /\ RowInv'
          /\ UNCHANGED <<minted, relation, request>>
          /\ \A p \in Proposals : /\ proposal'[p].sub = proposal[p].sub
                                  /\ proposal'[p].status = proposal[p].status
          /\ \A l \in Lessons : lesson'[l].sub \in {lesson[l].sub, Hinted}
      BY <1>6, SurroundingsKeepRowInv DEF IssueInv
    <2> QED
      BY <2>1, QuietStep
  <1> QED
    BY <1>1, <1>2, <1>3, <1>4, <1>5, <1>6 DEF Next, Begins

-----------------------------------------------------------------------------

(* Every reachable state has the types of the database's columns.          *)
THEOREM ProposalsTypeCorrect == Spec => []ProposalsTypeOK
  <1>1. IssueInv => ProposalsTypeOK
    BY DEF IssueInv, RowInv
  <1>2. IssueInv /\ [Next]_vars => IssueInv'
    BY IssueInvStep
  <1> QED
    BY <1>1, <1>2, InitIssueInv, PTL DEF Spec

(* No proposal is issued twice, however many confirmations, answers and    *)
(* sweeps work on it at once: confirm_proposal reads it FOR UPDATE.        *)
THEOREM MintedOnceCorrect == Spec => []MintedOnce
  <1>1. IssueInv => MintedOnce
    BY DEF IssueInv
  <1>2. IssueInv /\ [Next]_vars => IssueInv'
    BY IssueInvStep
  <1> QED
    BY <1>1, <1>2, InitIssueInv, PTL DEF Spec

(* A subscription is issued only while the student's notice stands.        *)
THEOREM IssuedOnNoticeCorrect == Spec => IssuedOnNotice
  <1>1. IssueInv /\ [Next]_vars =>
           [\A p \in Proposals : minted'[p] # minted[p] => proposal[p].status = "paymentNotified"]_vars
    BY IssueInvStep
  <1>2. IssueInv /\ [Next]_vars => IssueInv'
    BY IssueInvStep
  <1> QED
    BY <1>1, <1>2, InitIssueInv, PTL DEF Spec, IssuedOnNotice

(* What the relationship, the request and promoted lessons point to has    *)
(* been issued.                                                            *)
THEOREM IssuesBackedCorrect == Spec => []IssuesBacked
  <1>1. IssueInv => IssuesBacked
    BY DEF IssueInv
  <1>2. IssueInv /\ [Next]_vars => IssueInv'
    BY IssueInvStep
  <1> QED
    BY <1>1, <1>2, InitIssueInv, PTL DEF Spec
=============================================================================
