---------------------------- MODULE AcademyPayments ----------------------------
(***************************************************************************)
(* Money that came in on an academy's bank account, matched to the         *)
(* invoices of its students.  The owner asks for suggestions, confirms one *)
(* invoice or splits the sum over several, ignores a transaction, takes a  *)
(* match back, and records payments made outside the bank.                 *)
(*                                                                         *)
(* Every request is one READ COMMITTED transaction.  The bank transaction  *)
(* is read FOR UPDATE; the invoices and the sums of what has been received *)
(* are read without a lock, and the statuses computed from them written at *)
(* the end.                                                                *)
(***************************************************************************)
EXTENDS Integers, FiniteSets, Functions

CONSTANTS
    BankTxs,
    Invoices,
    Amount,     \* of a bank transaction
    Total,      \* total_amount of an invoice
    Likely,     \* per bank transaction: the invoices that score high enough
    MaxCash,    \* bound: what one invoice receives outside the bank
    Tx          \* bound: requests under way at once

(* The rows a sum runs over are those of a table.                          *)
ASSUME PaymentsAssumption ==
    /\ IsFiniteSet(BankTxs) /\ IsFiniteSet(Invoices)
    /\ Amount \in [BankTxs -> Nat \ {0}]
    /\ Total \in [Invoices -> Nat]
    /\ Likely \in [BankTxs -> SUBSET Invoices]
    /\ MaxCash \in Nat

VARIABLES
    state,      \* per bank transaction
    payment,    \* per bank transaction and invoice: rows with this bank_tx_ref
    cash,       \* per invoice: rows without one
    suggestion, \* per bank transaction and invoice: user_decision
    status,     \* per invoice
    sent,       \* per invoice: sent_at is set
    tx,         \* the requests under way
    raced       \* ghost: two requests have overlapped

vars == <<state, payment, cash, suggestion, status, sent, tx, raced>>

TransactionState == {"unmatched", "suggested", "matched", "ignored"}

(* Nothing in the services writes overdue or cancelled.                    *)
InvoiceStatus == {"draft", "sent", "paid"}

Decision == {"none", "pending", "accepted", "rejected"}

Nothing == [i \in Invoices |-> 0]

Same == [i \in Invoices |-> "same"]

(* What a request is about to write: payments, candidates, statuses.       *)
Request ==
    [op : {"match", "ignore", "revert", "suggest"}, b : BankTxs,
     pay : [Invoices -> Nat], among : SUBSET Invoices,
     to : [Invoices -> InvoiceStatus \cup {"same"}]]
        \cup
    [op : {"record", "send"},
     pay : [Invoices -> Nat], among : SUBSET Invoices,
     to : [Invoices -> InvoiceStatus \cup {"same"}]]

Idle == [op |-> "idle"]

Init ==
    /\ state = [b \in BankTxs |-> "unmatched"]
    /\ payment = [b \in BankTxs |-> Nothing]
    /\ cash = Nothing
    /\ suggestion = [b \in BankTxs |-> [i \in Invoices |-> "none"]]
    /\ status = [i \in Invoices |-> "draft"]
    /\ sent = [i \in Invoices |-> FALSE]
    /\ tx = [t \in Tx |-> Idle]
    /\ raced = FALSE

-----------------------------------------------------------------------------
(* The reads of a request *)

Sum(f) == FoldFunction(+, 0, f)

Received(i) == cash[i] + Sum([b \in BankTxs |-> payment[b][i]])

Begin(t, r) ==
    /\ tx[t] = Idle
    /\ tx' = [tx EXCEPT ![t] = r]
    /\ raced' = (raced \/ \E u \in Tx : tx[u] # Idle)
    /\ UNCHANGED <<state, payment, cash, suggestion, status, sent>>

Holds(u, b) == tx[u].op \in {"match", "ignore", "revert", "suggest"} /\ tx[u].b = b

(* Mutant: get_transaction without for_update. *)
GetTransactionUnlocked(t, b) == TRUE

GetTransaction(t, b) == \A u \in Tx \ {t} : ~Holds(u, b)

(* One invoice or several, together no more than came in.                  *)
Splits(b) == {pay \in [Invoices -> 0..Amount[b]] : pay # Nothing /\ Sum(pay) <= Amount[b]}

(* Mutant: a part payment is enough. *)
CoversInPart(i, n) == Received(i) + n > 0

Covers(i, n) == Received(i) + n >= Total[i]

Match(t, b) ==
    /\ GetTransaction(t, b)
    /\ state[b] \notin {"matched", "ignored"}
    /\ \E pay \in Splits(b) :
         Begin(t, [op |-> "match", b |-> b, pay |-> pay, among |-> {},
                   to |-> [i \in Invoices |->
                             IF pay[i] > 0 /\ status[i] # "paid" /\ Covers(i, pay[i])
                             THEN "paid" ELSE "same"]])

IgnoreTransaction(t, b) ==
    /\ GetTransaction(t, b)
    /\ state[b] # "matched"
    /\ Begin(t, [op |-> "ignore", b |-> b, pay |-> Nothing, among |-> {}, to |-> Same])

(* Mutant: a status named after the column issued_at. *)
BeforePaidIssued(i) == IF sent[i] THEN "issued" ELSE "draft"

BeforePaid(i) == IF sent[i] THEN "sent" ELSE "draft"

(* An invoice that is no longer covered goes back to what it was.          *)
RevertMatch(t, b) ==
    /\ GetTransaction(t, b)
    /\ state[b] = "matched"
    /\ Begin(t, [op |-> "revert", b |-> b, pay |-> Nothing, among |-> {},
                 to |-> [i \in Invoices |->
                           IF payment[b][i] > 0 /\ status[i] = "paid" /\ ~Covers(i, -payment[b][i])
                           THEN BeforePaid(i) ELSE "same"]])

SuggestMatches(t, b) ==
    /\ GetTransaction(t, b)
    /\ state[b] \notin {"matched", "ignored"}
    /\ Begin(t, [op |-> "suggest", b |-> b, pay |-> Nothing,
                 among |-> {i \in Likely[b] : status[i] # "paid"}, to |-> Same])

RecordPayment(t, i) ==
    \E n \in 1..(MaxCash - cash[i]) :
        Begin(t, [op |-> "record", pay |-> [Nothing EXCEPT ![i] = n], among |-> {},
                  to |-> [Same EXCEPT ![i] = IF status[i] # "paid" /\ Covers(i, n)
                                             THEN "paid" ELSE "same"]])

BulkSendInvoices(t) ==
    \E chosen \in SUBSET {i \in Invoices : status[i] = "draft"} :
        /\ chosen # {}
        /\ Begin(t, [op |-> "send", pay |-> Nothing, among |-> {},
                     to |-> [i \in Invoices |-> IF i \in chosen THEN "sent" ELSE "same"]])

-----------------------------------------------------------------------------
(* Its writes *)

Plus(f, g) == [i \in Invoices |-> f[i] + g[i]]

Commits(t, op) ==
    /\ tx[t].op = op
    /\ tx' = [tx EXCEPT ![t] = Idle]
    /\ status' = [i \in Invoices |-> IF tx[t].to[i] = "same" THEN status[i] ELSE tx[t].to[i]]
    /\ UNCHANGED raced

(* What was still open is decided.                                         *)
Decided(chosen, d) ==
    [i \in Invoices |-> IF d[i] # "pending" THEN d[i]
                        ELSE IF i \in chosen THEN "accepted" ELSE "rejected"]

CommitMatch(t) ==
    LET r == tx[t]
        chosen == {i \in Invoices : r.pay[i] > 0}
    IN  /\ Commits(t, "match")
        /\ state' = [state EXCEPT ![r.b] = "matched"]
        /\ payment' = [payment EXCEPT ![r.b] = Plus(@, r.pay)]
        /\ suggestion' = [suggestion EXCEPT ![r.b] = Decided(chosen, @)]
        /\ UNCHANGED <<cash, sent>>

CommitIgnore(t) ==
    /\ Commits(t, "ignore")
    /\ state' = [state EXCEPT ![tx[t].b] = "ignored"]
    /\ UNCHANGED <<payment, cash, suggestion, sent>>

(* Mutant: decisions survive. *)
ReopenedNever(d) == d

Reopened(d) == [i \in Invoices |-> IF d[i] = "none" THEN "none" ELSE "pending"]

CommitRevert(t) ==
    LET b == tx[t].b
    IN  /\ Commits(t, "revert")
        /\ state' = [state EXCEPT ![b] = "unmatched"]
        /\ payment' = [payment EXCEPT ![b] = Nothing]
        /\ suggestion' = [suggestion EXCEPT ![b] = Reopened(@)]
        /\ UNCHANGED <<cash, sent>>

(* The open ones are replaced; the unique index on a pair keeps a decided  *)
(* one from being suggested again.  Without candidates the state stays.    *)
CommitSuggest(t) ==
    LET r == tx[t]
    IN  /\ Commits(t, "suggest")
        /\ \A i \in r.among : suggestion[r.b][i] \in {"none", "pending"}
        /\ state' = [state EXCEPT ![r.b] = IF r.among = {} THEN @ ELSE "suggested"]
        /\ suggestion' = [suggestion EXCEPT ![r.b] =
                            [i \in Invoices |-> IF i \in r.among THEN "pending"
                                                ELSE IF @[i] = "pending" THEN "none" ELSE @[i]]]
        /\ UNCHANGED <<payment, cash, sent>>

CommitRecord(t) ==
    /\ Commits(t, "record")
    /\ cash' = Plus(cash, tx[t].pay)
    /\ UNCHANGED <<state, payment, suggestion, sent>>

CommitSend(t) ==
    /\ Commits(t, "send")
    /\ sent' = [i \in Invoices |-> sent[i] \/ tx[t].to[i] = "sent"]
    /\ UNCHANGED <<state, payment, cash, suggestion>>

Abort(t) ==
    /\ tx[t] # Idle
    /\ tx' = [tx EXCEPT ![t] = Idle]
    /\ UNCHANGED <<state, payment, cash, suggestion, status, sent, raced>>

Next ==
    \E t \in Tx :
        \/ \E b \in BankTxs :
             Match(t, b) \/ IgnoreTransaction(t, b) \/ RevertMatch(t, b) \/ SuggestMatches(t, b)
        \/ \E i \in Invoices : RecordPayment(t, i)
        \/ BulkSendInvoices(t)
        \/ CommitMatch(t) \/ CommitIgnore(t) \/ CommitRevert(t) \/ CommitSuggest(t)
        \/ CommitRecord(t) \/ CommitSend(t) \/ Abort(t)

Spec == Init /\ [][Next]_vars

-----------------------------------------------------------------------------
(* Properties *)

PaymentsTypeOK ==
    /\ state \in [BankTxs -> TransactionState]
    /\ payment \in [BankTxs -> [Invoices -> Nat]]
    /\ cash \in [Invoices -> Nat]
    /\ suggestion \in [BankTxs -> [Invoices -> Decision]]
    /\ status \in [Invoices -> InvoiceStatus]
    /\ sent \in [Invoices -> BOOLEAN]
    /\ tx \in [Tx -> Request \cup {Idle}]
    /\ raced \in BOOLEAN

(* A bank transaction is matched exactly while payments stand on it, and   *)
(* never for more than came in, however often its buttons are tapped.      *)
MatchedIsBacked ==
    \A b \in BankTxs :
        /\ state[b] = "matched" <=> payment[b] # Nothing
        /\ Sum(payment[b]) <= Amount[b]

(* Its suggestions are decided while it is matched and open before and     *)
(* after that, so asking again never meets the unique index of a pair.     *)
DecidedWhileMatched ==
    \A b \in BankTxs, i \in Invoices :
        suggestion[b][i] \in (IF state[b] = "matched" THEN {"none", "accepted", "rejected"}
                                                      ELSE {"none", "pending"})

(* Requests that come one after the other leave no invoice paid, and so    *)
(* none in a teacher's settlement, that has not been received in full.     *)
PaidInTurn ==
    raced \/ \A i \in Invoices : status[i] = "paid" => Received(i) >= Total[i]

=============================================================================
