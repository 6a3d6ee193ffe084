------------------------ MODULE AcademyPayments_proofs ------------------------
(***************************************************************************)
(* The properties of AcademyPayments, for any number of bank transactions, *)
(* invoices and requests under way.                                        *)
(*                                                                         *)
(* The bank transaction's row lock keeps what a request has read of it     *)
(* true until the request commits; nothing does that for the sums of the   *)
(* invoices, so an invoice is known to be covered only while one request   *)
(* is under way at a time.                                                 *)
(***************************************************************************)
EXTENDS AcademyPayments, FiniteSetTheorems, WellFoundedInduction, TLAPS

(* Requests that take the row lock of a bank transaction.                  *)
Locking == {"match", "ignore", "revert", "suggest"}

OneHolder == \A b \in BankTxs : \A t, u \in Tx : Holds(t, b) /\ Holds(u, b) => t = u

(* What a request has read of its bank transaction and relies on.          *)
Relies(r) ==
    /\ r.op \in {"match", "suggest"} => state[r.b] \notin {"matched", "ignored"}
    /\ r.op = "match" => r.pay \in Splits(r.b)
    /\ r.op = "ignore" => state[r.b] # "matched"
    /\ r.op = "revert" => state[r.b] = "matched"

(* The statuses a request has computed are right as long as the sums stay  *)
(* what they were.                                                         *)
Computed(r) ==
    \A i \in Invoices :
        /\ r.op \in {"match", "record"} /\ r.to[i] = "paid" => Received(i) + r.pay[i] >= Total[i]
        /\ r.op \in {"ignore", "revert", "suggest", "send"} => r.to[i] # "paid"
        /\ r.op = "revert" /\ status[i] = "paid" /\ r.to[i] = "same" =>
              Received(i) - payment[r.b][i] >= Total[i]

Alone == \A t, u \in Tx : tx[t] # Idle /\ tx[u] # Idle => t = u

PaidIsCovered == \A i \in Invoices : status[i] = "paid" => Received(i) >= Total[i]

InTurn == raced \/ (Alone /\ PaidIsCovered /\ \A t \in Tx : Computed(tx[t]))

PaymentsInv ==
    /\ PaymentsTypeOK
    /\ OneHolder
    /\ \A t \in Tx : Relies(tx[t])
    /\ MatchedIsBacked
    /\ DecidedWhileMatched
    /\ InTurn

-----------------------------------------------------------------------------
(* Sums *)

(* What the fold over a set does with one subset of it, given the sums g   *)
(* of the smaller ones.                                                    *)
Pick(s) == CHOOSE x \in s : TRUE

Step(f, g, s) == IF s = {} THEN 0 ELSE f[Pick(s)] + g[s \ {Pick(s)}]

(* The recursive function of the fold: its sums over all subsets.          *)
PartSums(f) == CHOOSE g : g = [s \in SUBSET DOMAIN f |-> Step(f, g, s)]

LEMMA SumIsPartSum == \A f : Sum(f) = PartSums(f)[DOMAIN f]
  BY DEF Sum, FoldFunction, FoldFunctionOnSet, MapThenFoldSet, PartSums, Step, Pick

LEMMA LeastOf ==
  ASSUME NEW T \in SUBSET Nat, T # {}
  PROVE  \E n \in T : \A m \in T : n <= m
  <1>1. PICK n \in T : \A m \in T : ~ (<<m, n>> \in OpToRel(<, Nat))
    BY WFMin, NatLessThanWellFounded, Zenon
  <1>2. \A m \in T : ~ (m < n)
    <2> SUFFICES ASSUME NEW m \in T, m < n PROVE FALSE OBVIOUS
    <2>1. OpToRel(<, Nat) = {e \in Nat \X Nat : e[1] < e[2]}
      BY ZenonT(30) DEF OpToRel
    <2>2. <<m, n>> \in OpToRel(<, Nat)
      BY <2>1, Zenon
    <2> QED BY <2>2, <1>1, Zenon
  <1>3. \A m \in T : n <= m
    BY <1>2
  <1> QED BY <1>3

LEMMA PickIsElement == \A s : s # {} => Pick(s) \in s
  BY DEF Pick

(* The fold is well defined on a finite set: by induction on the size up   *)
(* to which partial sums exist.                                            *)
LEMMA PartSumsEquation ==
  ASSUME NEW f, IsFiniteSet(DOMAIN f)
  PROVE  PartSums(f) = [s \in SUBSET DOMAIN f |-> Step(f, PartSums(f), s)]
  <1> DEFINE S == DOMAIN f
             Upto(n) == {s \in SUBSET S : Cardinality(s) <= n}
             Sums(n, g) == g = [s \in Upto(n) |-> Step(f, g, s)]
             Fails == {n \in Nat : ~ \E g : Sums(n, g)}
  <1>0. \A s \in SUBSET S : IsFiniteSet(s) /\ Cardinality(s) \in Nat /\ Cardinality(s) <= Cardinality(S)
    BY FS_Subset, FS_CardinalityType
  <1>0a. \A s \in SUBSET S : s # {} => Cardinality(s \ {Pick(s)}) = Cardinality(s) - 1
    BY <1>0, FS_RemoveElement, PickIsElement
  <1>1. Fails = {}
    <2> SUFFICES ASSUME Fails # {} PROVE FALSE OBVIOUS
    <2>1. PICK n \in Fails : \A m \in Fails : n <= m
      BY LeastOf
    <2>2. n # 0
      <3> DEFINE g0 == [s \in Upto(0) |-> 0]
      <3>1. \A s \in Upto(0) : s = {}
        BY <1>0, FS_EmptySet
      <3>2. Sums(0, g0)
        BY <3>1 DEF Step
      <3> QED BY <3>2
    <2>3. PICK g : Sums(n - 1, g)
      <3> HIDE DEF Sums
      <3>1. n - 1 \in Nat /\ n - 1 \notin Fails
        BY <2>1, <2>2
      <3> QED BY <3>1
    <2> DEFINE h == [s \in Upto(n) |-> Step(f, g, s)]
    <2>4. \A s \in Upto(n - 1) : s \in Upto(n) /\ g[s] = Step(f, g, s)
      <3> HIDE DEF h
      <3> QED BY <2>3, <1>0, <2>1
    <2>5. \A s \in Upto(n) : Step(f, h, s) = Step(f, g, s)
      <3> TAKE s \in Upto(n)
      <3>1. CASE s = {} BY <3>1 DEF Step
      <3>2. CASE s # {}
        <4>1. s \ {Pick(s)} \in Upto(n - 1)
          BY <1>0, <1>0a, <3>2, <2>1
        <4>2. h[s \ {Pick(s)}] = g[s \ {Pick(s)}]
          BY <4>1, <2>4
        <4> QED BY <4>2, <3>2 DEF Step
      <3> QED BY <3>1, <3>2
    <2>6. Sums(n, h)
      BY <2>5
    <2> QED BY <2>6, <2>1
  <1>2. Cardinality(S) \in Nat /\ Upto(Cardinality(S)) = SUBSET S
    BY <1>0, FS_CardinalityType
  <1>3. PICK g : Sums(Cardinality(S), g)
    BY <1>1, <1>2
  <1>4. g = [s \in SUBSET DOMAIN f |-> Step(f, g, s)]
    BY <1>3, <1>2
  <1> QED BY <1>4 DEF PartSums

(* The sum over a set of numbers is a number, and of natural numbers a     *)
(* natural one.                                                            *)
LEMMA PartSumsType ==
  ASSUME NEW S, IsFiniteSet(S), NEW f \in [S -> Int], NEW T \in SUBSET S
  PROVE  /\ PartSums(f)[T] \in Int
         /\ f \in [S -> Nat] => PartSums(f)[T] \in Nat
         /\ (\A x \in S : f[x] = 0) => PartSums(f)[T] = 0
  <1> DEFINE Fine(s) == /\ PartSums(f)[s] \in Int
                        /\ f \in [S -> Nat] => PartSums(f)[s] \in Nat
                        /\ (\A x \in S : f[x] = 0) => PartSums(f)[s] = 0
             Fails == {n \in Nat : \E s \in SUBSET S : Cardinality(s) = n /\ ~Fine(s)}
  <1>0. \A s \in SUBSET S : IsFiniteSet(s) /\ Cardinality(s) \in Nat
    BY FS_Subset, FS_CardinalityType
  <1>1. \A s \in SUBSET S : PartSums(f)[s] = Step(f, PartSums(f), s)
    BY PartSumsEquation
  <1>2. Fails = {}
    <2> SUFFICES ASSUME Fails # {} PROVE FALSE OBVIOUS
    <2>1. PICK n \in Fails : \A m \in Fails : n <= m
      BY LeastOf
    <2>2. PICK s \in SUBSET S : Cardinality(s) = n /\ ~Fine(s)
      BY <2>1
    <2>3. CASE s = {}
      BY <2>3, <1>1, <2>2 DEF Step
    <2>4. CASE s # {}
      <3> DEFINE r == s \ {Pick(s)}
      <3>1. Pick(s) \in S /\ r \in SUBSET S /\ Cardinality(r) = n - 1 /\ Cardinality(r) \in Nat
        BY <2>4, <2>2, <1>0, FS_RemoveElement, PickIsElement
      <3>2. Fine(r)
        <4> SUFFICES ASSUME ~Fine(r) PROVE FALSE OBVIOUS
        <4>1. n - 1 \in Fails BY <3>1
        <4> QED BY <4>1, <2>1
      <3>3. PartSums(f)[s] = f[Pick(s)] + PartSums(f)[r]
        BY <1>1, <2>4 DEF Step
      <3> HIDE DEF r
      <3> QED BY <3>1, <3>2, <3>3, <2>2
    <2> QED BY <2>3, <2>4
  <1> HIDE DEF Fine
  <1>3. Fine(T) BY <1>2, <1>0
  <1> QED BY <1>3 DEF Fine

(* Any element can be taken out of a sum, not only the one the fold picks. *)
LEMMA PartSumsRemove ==
  ASSUME NEW S, IsFiniteSet(S), NEW f \in [S -> Int],
         NEW T \in SUBSET S, NEW x \in T
  PROVE  PartSums(f)[T] = f[x] + PartSums(f)[T \ {x}]
  <1> DEFINE Fine(s, y) == PartSums(f)[s] = f[y] + PartSums(f)[s \ {y}]
             Fails == {n \in Nat : \E s \in SUBSET S, y \in S : y \in s /\ Cardinality(s) = n /\ ~Fine(s, y)}
  <1>0. \A s \in SUBSET S : IsFiniteSet(s) /\ Cardinality(s) \in Nat
    BY FS_Subset, FS_CardinalityType
  <1>1. \A s \in SUBSET S : s # {} => PartSums(f)[s] = f[Pick(s)] + PartSums(f)[s \ {Pick(s)}]
    BY PartSumsEquation DEF Step
  <1>2. \A s \in SUBSET S : PartSums(f)[s] \in Int
    BY PartSumsType
  <1>3. Fails = {}
    <2> SUFFICES ASSUME Fails # {} PROVE FALSE OBVIOUS
    <2>1. PICK n \in Fails : \A m \in Fails : n <= m
      BY LeastOf
    <2>2. PICK s \in SUBSET S, y \in S : y \in s /\ Cardinality(s) = n /\ ~Fine(s, y)
      BY <2>1
    <2> DEFINE z == Pick(s)
               r == s \ {z}
               q == s \ {y}
               w == s \ {y, z}
    <2>3. z \in s /\ z \in S
      BY <2>2, PickIsElement
    <2>4. PartSums(f)[s] = f[z] + PartSums(f)[r]
      BY <1>1, <2>2
    <2>5. z # y
      BY <2>4, <2>2
    <2>6. /\ r \in SUBSET S /\ q \in SUBSET S /\ w \in SUBSET S
          /\ r \ {y} = w /\ q \ {z} = w /\ y \in r /\ z \in q
      BY <2>2, <2>3, <2>5
    <2>7. n - 1 \in Nat /\ Cardinality(r) = n - 1 /\ Cardinality(q) = n - 1
      <3>1. IsFiniteSet(s) /\ Cardinality(s) = n
        BY <1>0, <2>2
      <3>2. Cardinality(s \ {z}) = Cardinality(s) - 1 /\ Cardinality(s \ {y}) = Cardinality(s) - 1
        BY <3>1, <2>2, <2>3, FS_RemoveElement
      <3>3. Cardinality(r) \in Nat
        BY <1>0, <2>6
      <3> QED BY <3>1, <3>2, <3>3
    <2>8. n - 1 \notin Fails
      <3>1. n \in Nat OBVIOUS
      <3> HIDE DEF Fails
      <3> QED BY <3>1, <2>1
    <2>9. Fine(r, y) /\ Fine(q, z)
      BY <2>8, <2>7, <2>6, <2>3
    <2>10. /\ PartSums(f)[r] = f[y] + PartSums(f)[w]
           /\ PartSums(f)[q] = f[z] + PartSums(f)[w]
      BY <2>9, <2>6
    <2>11. f[y] \in Int /\ f[z] \in Int /\ PartSums(f)[w] \in Int
      BY <2>3, <2>6, <1>2
    <2> HIDE DEF z, r, q, w
    <2>12. PartSums(f)[s] = f[y] + PartSums(f)[q]
      BY <2>4, <2>10, <2>11
    <2> QED BY <2>12, <2>2 DEF q
  <1>4. x \in S /\ Cardinality(T) \in Nat
    BY <1>0
  <1>5. Fine(T, x)
    <2> HIDE DEF Fine
    <2> QED BY <1>3, <1>4
  <1> QED BY <1>5

(* What a function is outside a set does not count in the set's sum.       *)
LEMMA PartSumsAgree ==
  ASSUME NEW S, IsFiniteSet(S), NEW f \in [S -> Int], NEW h \in [S -> Int],
         NEW T \in SUBSET S, \A x \in T : f[x] = h[x]
  PROVE  PartSums(f)[T] = PartSums(h)[T]
  <1> DEFINE Same2(s) == PartSums(f)[s] = PartSums(h)[s]
             Fails == {n \in Nat : \E s \in SUBSET T : Cardinality(s) = n /\ ~Same2(s)}
  <1>0. \A s \in SUBSET T : s \in SUBSET S /\ IsFiniteSet(s) /\ Cardinality(s) \in Nat
    BY FS_Subset, FS_CardinalityType
  <1>1. \A s \in SUBSET T : /\ PartSums(f)[s] = Step(f, PartSums(f), s)
                            /\ PartSums(h)[s] = Step(h, PartSums(h), s)
    BY PartSumsEquation
  <1>2. Fails = {}
    <2> SUFFICES ASSUME Fails # {} PROVE FALSE OBVIOUS
    <2>1. PICK n \in Fails : \A m \in Fails : n <= m
      BY LeastOf
    <2>2. PICK s \in SUBSET T : Cardinality(s) = n /\ ~Same2(s)
      BY <2>1
    <2>3. s # {}
      BY <1>1, <2>2 DEF Step
    <2> DEFINE r == s \ {Pick(s)}
    <2>4. r \in SUBSET T /\ Pick(s) \in T /\ Cardinality(r) = n - 1 /\ n - 1 \in Nat
      <3>1. Pick(s) \in s
        BY <2>3, PickIsElement
      <3>2. Cardinality(r) = Cardinality(s) - 1
        BY <3>1, <1>0, FS_RemoveElement
      <3>3. r \in SUBSET T /\ Cardinality(r) \in Nat
        BY <1>0
      <3> QED BY <3>1, <3>2, <3>3, <2>2
    <2>5. n - 1 \notin Fails
      <3>1. n \in Nat OBVIOUS
      <3> HIDE DEF Fails
      <3> QED BY <3>1, <2>1
    <2>6. Same2(r)
      <3> SUFFICES ASSUME ~Same2(r) PROVE FALSE OBVIOUS
      <3>1. n - 1 \in Fails
        <4> HIDE DEF Same2, r
        <4> QED BY <2>4
      <3> QED BY <3>1, <2>5
    <2>7. /\ PartSums(f)[s] = f[Pick(s)] + PartSums(f)[r]
          /\ PartSums(h)[s] = h[Pick(s)] + PartSums(h)[r]
      BY <2>3, <1>1 DEF Step
    <2>8. f[Pick(s)] = h[Pick(s)]
      BY <2>4
    <2> HIDE DEF r
    <2> QED BY <2>6, <2>7, <2>8, <2>2
  <1>3. Same2(T)
    <2> HIDE DEF Same2
    <2> QED BY <1>2, <1>0
  <1> QED BY <1>3

(* What the proofs below use of a sum.                                     *)
LEMMA SumType ==
  ASSUME NEW S, IsFiniteSet(S), NEW f \in [S -> Int]
  PROVE  /\ Sum(f) \in Int
         /\ f \in [S -> Nat] => Sum(f) \in Nat
         /\ (\A x \in S : f[x] = 0) => Sum(f) = 0
  <1>1. S \in SUBSET S /\ DOMAIN f = S
    OBVIOUS
  <1> QED BY <1>1, SumIsPartSum, PartSumsType

LEMMA SumUpdate ==
  ASSUME NEW S, IsFiniteSet(S), NEW f \in [S -> Int], NEW x \in S, NEW v \in Int
  PROVE  Sum([f EXCEPT ![x] = v]) = Sum(f) - f[x] + v
  <1> DEFINE h == [f EXCEPT ![x] = v]
             R == S \ {x}
  <1>1. h \in [S -> Int] /\ h[x] = v /\ \A y \in R : h[y] = f[y]
    OBVIOUS
  <1>2. S \in SUBSET S /\ R \in SUBSET S /\ DOMAIN f = S /\ DOMAIN h = S
    OBVIOUS
  <1> HIDE DEF h
  <1>3. PartSums(f)[S] = f[x] + PartSums(f)[R] /\ PartSums(h)[S] = v + PartSums(h)[R]
    <2>1. PartSums(f)[S] = f[x] + PartSums(f)[R]
      BY <1>2, PartSumsRemove
    <2>2. PartSums(h)[S] = h[x] + PartSums(h)[R]
      BY <1>1, <1>2, PartSumsRemove
    <2> QED BY <2>1, <2>2, <1>1
  <1>4. PartSums(h)[R] = PartSums(f)[R] /\ PartSums(f)[R] \in Int /\ PartSums(f)[S] \in Int
    BY <1>1, <1>2, PartSumsAgree, PartSumsType
  <1>5. Sum(f) = PartSums(f)[S] /\ Sum(h) = PartSums(h)[S]
    BY <1>2, SumIsPartSum
  <1>6. f[x] \in Int
    OBVIOUS
  <1> HIDE DEF R
  <1>7. Sum(h) = Sum(f) - f[x] + v
    BY <1>3, <1>4, <1>5, <1>6
  <1> QED BY <1>7 DEF h

-----------------------------------------------------------------------------
(* Types *)

LEMMA RequestFields ==
  ASSUME NEW r \in Request
  PROVE  /\ r.op \in Locking \cup {"record", "send"}
         /\ r.op \in Locking => r.b \in BankTxs
         /\ r.pay \in [Invoices -> Nat] /\ r.among \in SUBSET Invoices
         /\ r.to \in [Invoices -> InvoiceStatus \cup {"same"}]
         /\ r # Idle
  BY DEF Request, Locking, Idle

LEMMA ReceivedType ==
  ASSUME PaymentsTypeOK, NEW i \in Invoices
  PROVE  Received(i) \in Nat
  <1> DEFINE f == [b \in BankTxs |-> payment[b][i]]
  <1>1. f \in [BankTxs -> Nat] /\ f \in [BankTxs -> Int]
    BY DEF PaymentsTypeOK
  <1>2. Sum(f) \in Nat
    BY <1>1, SumType, PaymentsAssumption
  <1>3. cash[i] \in Nat
    BY DEF PaymentsTypeOK
  <1> HIDE DEF f
  <1>4. cash[i] + Sum(f) \in Nat
    BY <1>2, <1>3
  <1> QED BY <1>4 DEF Received, f

LEMMA NothingType ==
  /\ Nothing \in [Invoices -> Nat] /\ Sum(Nothing) = 0
  /\ Same \in [Invoices -> InvoiceStatus \cup {"same"}]
  <1>1. Nothing \in [Invoices -> Nat] /\ Nothing \in [Invoices -> Int] /\ \A i \in Invoices : Nothing[i] = 0
    BY DEF Nothing
  <1>2. Sum(Nothing) = 0
    BY <1>1, SumType, PaymentsAssumption
  <1> QED BY <1>1, <1>2 DEF Same

LEMMA SplitsType ==
  ASSUME NEW b \in BankTxs, NEW pay \in Splits(b)
  PROVE  /\ pay \in [Invoices -> Nat] /\ pay # Nothing /\ Sum(pay) <= Amount[b]
         /\ \E i \in Invoices : pay[i] > 0
  <1>1. Amount[b] \in Nat
    BY PaymentsAssumption
  <1>2. pay \in [Invoices -> Nat] /\ pay # Nothing /\ Sum(pay) <= Amount[b]
    BY <1>1 DEF Splits
  <1>3. \E i \in Invoices : pay[i] # 0
    BY <1>2 DEF Nothing
  <1> QED BY <1>2, <1>3

-----------------------------------------------------------------------------
(* A request begins *)

(* A request that has read what it relies on, under the lock if it takes   *)
(* one.                                                                    *)
Reads(t, r) ==
    /\ r \in Request
    /\ Begin(t, r)
    /\ Relies(r)
    /\ PaidIsCovered => Computed(r)
    /\ r.op \in Locking => GetTransaction(t, r.b)

LEMMA MatchReads ==
  ASSUME PaymentsTypeOK, NEW t \in Tx, NEW b \in BankTxs, Match(t, b)
  PROVE  \E r : Reads(t, r)
  <1>1. PICK pay \in Splits(b) :
          Begin(t, [op |-> "match", b |-> b, pay |-> pay, among |-> {},
                    to |-> [i \in Invoices |->
                              IF pay[i] > 0 /\ status[i] # "paid" /\ Covers(i, pay[i])
                              THEN "paid" ELSE "same"]])
    BY DEF Match
  <1> DEFINE to == [i \in Invoices |-> IF pay[i] > 0 /\ status[i] # "paid" /\ Covers(i, pay[i])
                                       THEN "paid" ELSE "same"]
             r == [op |-> "match", b |-> b, pay |-> pay, among |-> {}, to |-> to]
  <1>2. to \in [Invoices -> InvoiceStatus \cup {"same"}] /\ pay \in [Invoices -> Nat]
    BY SplitsType DEF InvoiceStatus
  <1>3. \A i \in Invoices : to[i] = "paid" => Received(i) + pay[i] >= Total[i]
    BY DEF Covers
  <1> HIDE DEF to
  <1>4. r \in Request
    BY <1>2 DEF Request
  <1>5. r.op = "match" /\ r.b = b /\ r.pay = pay /\ r.to = to
    OBVIOUS
  <1>6. Begin(t, r)
    BY <1>1 DEF to
  <1> HIDE DEF r
  <1>7. Relies(r) /\ GetTransaction(t, r.b)
    BY <1>5 DEF Relies, Match
  <1>8. Computed(r)
    BY <1>5, <1>3 DEF Computed
  <1> QED BY <1>4, <1>6, <1>7, <1>8 DEF Reads

LEMMA IgnoreReads ==
  ASSUME PaymentsTypeOK, NEW t \in Tx, NEW b \in BankTxs, IgnoreTransaction(t, b)
  PROVE  \E r : Reads(t, r)
  <1> DEFINE r == [op |-> "ignore", b |-> b, pay |-> Nothing, among |-> {}, to |-> Same]
  <1>1. r \in Request
    BY NothingType DEF Request
  <1>2. Begin(t, r) /\ GetTransaction(t, b) /\ state[b] # "matched"
    BY DEF IgnoreTransaction
  <1>3. r.op = "ignore" /\ r.b = b /\ r.to = Same
    OBVIOUS
  <1> HIDE DEF r
  <1>4. Relies(r)
    BY <1>3, <1>2 DEF Relies
  <1>5. Computed(r)
    BY <1>3 DEF Computed, Same
  <1> QED BY <1>1, <1>2, <1>3, <1>4, <1>5 DEF Reads

LEMMA RevertReads ==
  ASSUME PaymentsTypeOK, NEW t \in Tx, NEW b \in BankTxs, RevertMatch(t, b)
  PROVE  \E r : Reads(t, r)
  <1> DEFINE to == [i \in Invoices |->
                      IF payment[b][i] > 0 /\ status[i] = "paid" /\ ~Covers(i, -payment[b][i])
                      THEN BeforePaid(i) ELSE "same"]
             r == [op |-> "revert", b |-> b, pay |-> Nothing, among |-> {}, to |-> to]
  <1>1. to \in [Invoices -> InvoiceStatus \cup {"same"}] /\ \A i \in Invoices : to[i] # "paid"
    BY DEF BeforePaid, InvoiceStatus
  <1>2. r \in Request
    BY NothingType, <1>1 DEF Request
  <1>3. Begin(t, r) /\ GetTransaction(t, b) /\ state[b] = "matched"
    BY DEF RevertMatch
  <1>4. ASSUME PaidIsCovered, NEW i \in Invoices, status[i] = "paid", to[i] = "same"
        PROVE  Received(i) - payment[b][i] >= Total[i]
    <2> DEFINE n == payment[b][i]
    <2>1. Received(i) \in Nat /\ n \in Nat /\ Total[i] \in Nat /\ Received(i) >= Total[i]
      BY <1>4, ReceivedType, PaymentsAssumption DEF PaymentsTypeOK, PaidIsCovered
    <2>2. BeforePaid(i) # "same"
      BY DEF BeforePaid
    <2>3. n = 0 \/ Received(i) + (-n) >= Total[i]
      BY <1>4, <2>1, <2>2 DEF Covers
    <2> HIDE DEF n
    <2>4. Received(i) - n >= Total[i]
      BY <2>1, <2>3
    <2> QED BY <2>4 DEF n
  <1>5. r.op = "revert" /\ r.b = b /\ r.to = to
    OBVIOUS
  <1> HIDE DEF r, to
  <1>6. Relies(r)
    BY <1>3, <1>5 DEF Relies
  <1>7. PaidIsCovered => Computed(r)
    BY <1>1, <1>4, <1>5 DEF Computed
  <1> QED BY <1>2, <1>3, <1>5, <1>6, <1>7 DEF Reads

LEMMA SuggestReads ==
  ASSUME PaymentsTypeOK, NEW t \in Tx, NEW b \in BankTxs, SuggestMatches(t, b)
  PROVE  \E r : Reads(t, r)
  <1> DEFINE r == [op |-> "suggest", b |-> b, pay |-> Nothing,
                   among |-> {i \in Likely[b] : status[i] # "paid"}, to |-> Same]
  <1>1. r \in Request
    BY NothingType, PaymentsAssumption DEF Request
  <1>2. Begin(t, r) /\ GetTransaction(t, b) /\ state[b] \notin {"matched", "ignored"}
    BY DEF SuggestMatches
  <1>3. r.op = "suggest" /\ r.b = b /\ r.to = Same
    OBVIOUS
  <1> HIDE DEF r
  <1>4. Relies(r)
    BY <1>3, <1>2 DEF Relies
  <1>5. Computed(r)
    BY <1>3 DEF Computed, Same
  <1> QED BY <1>1, <1>2, <1>3, <1>4, <1>5 DEF Reads

LEMMA RecordReads ==
  ASSUME PaymentsTypeOK, NEW t \in Tx, NEW i \in Invoices, RecordPayment(t, i)
  PROVE  \E r : Reads(t, r)
  <1>1. PICK n \in 1..(MaxCash - cash[i]) :
          Begin(t, [op |-> "record", pay |-> [Nothing EXCEPT ![i] = n], among |-> {},
                    to |-> [Same EXCEPT ![i] = IF status[i] # "paid" /\ Covers(i, n)
                                               THEN "paid" ELSE "same"]])
    BY DEF RecordPayment
  <1> DEFINE pay == [Nothing EXCEPT ![i] = n]
             to == [Same EXCEPT ![i] = IF status[i] # "paid" /\ Covers(i, n) THEN "paid" ELSE "same"]
             r == [op |-> "record", pay |-> pay, among |-> {}, to |-> to]
  <1>2. n \in Nat
    BY PaymentsAssumption DEF PaymentsTypeOK
  <1>3. pay \in [Invoices -> Nat] /\ pay[i] = n
    BY <1>2, NothingType
  <1>4. to \in [Invoices -> InvoiceStatus \cup {"same"}]
    BY NothingType DEF InvoiceStatus
  <1>5. \A j \in Invoices : to[j] = "paid" => j = i /\ Covers(i, n)
    BY DEF Same
  <1> HIDE DEF pay, to
  <1>6. r \in Request
    BY <1>3, <1>4 DEF Request
  <1>7. Begin(t, r)
    BY <1>1 DEF pay, to
  <1>8. r.op = "record" /\ r.pay = pay /\ r.to = to
    OBVIOUS
  <1> HIDE DEF r
  <1>9. Relies(r) /\ r.op \notin Locking
    BY <1>8 DEF Relies, Locking
  <1>10. Computed(r)
    BY <1>3, <1>5, <1>8 DEF Computed, Covers
  <1> QED BY <1>6, <1>7, <1>9, <1>10 DEF Reads

LEMMA SendReads ==
  ASSUME PaymentsTypeOK, NEW t \in Tx, BulkSendInvoices(t)
  PROVE  \E r : Reads(t, r)
  <1>1. PICK chosen \in SUBSET Invoices :
          Begin(t, [op |-> "send", pay |-> Nothing, among |-> {},
                    to |-> [i \in Invoices |-> IF i \in chosen THEN "sent" ELSE "same"]])
    BY DEF BulkSendInvoices
  <1> DEFINE to == [i \in Invoices |-> IF i \in chosen THEN "sent" ELSE "same"]
             r == [op |-> "send", pay |-> Nothing, among |-> {}, to |-> to]
  <1>2. to \in [Invoices -> InvoiceStatus \cup {"same"}] /\ \A i \in Invoices : to[i] # "paid"
    BY DEF InvoiceStatus
  <1>3. Begin(t, r)
    BY <1>1
  <1> HIDE DEF to
  <1>4. r \in Request
    BY <1>2, NothingType DEF Request
  <1>5. r.op = "send" /\ r.to = to
    OBVIOUS
  <1> HIDE DEF r
  <1>6. Relies(r) /\ r.op \notin Locking
    BY <1>5 DEF Relies, Locking
  <1>7. Computed(r)
    BY <1>5, <1>2 DEF Computed
  <1> QED BY <1>3, <1>4, <1>6, <1>7 DEF Reads

LEMMA ReadsInv ==
  ASSUME PaymentsInv, NEW t \in Tx, NEW r, Reads(t, r)
  PROVE  PaymentsInv'
  <1>0. PaymentsTypeOK
    BY DEF PaymentsInv
  <1>1. /\ tx[t] = Idle /\ tx' = [tx EXCEPT ![t] = r]
        /\ raced' = (raced \/ \E u \in Tx : tx[u] # Idle)
        /\ UNCHANGED <<state, payment, cash, suggestion, status, sent>>
        /\ r \in Request
    BY DEF Reads, Begin
  <1>2. tx'[t] = r /\ \A u \in Tx : u # t => tx'[u] = tx[u]
    BY <1>0, <1>1 DEF PaymentsTypeOK
  <1>3. PaymentsTypeOK'
    <2>1. tx' \in [Tx -> Request \cup {Idle}]
      BY <1>0, <1>1 DEF PaymentsTypeOK
    <2>2. raced' \in BOOLEAN
      BY <1>0, <1>1 DEF PaymentsTypeOK
    <2> QED BY <2>1, <2>2, <1>0, <1>1 DEF PaymentsTypeOK
  <1>4. OneHolder'
    <2> SUFFICES ASSUME NEW b \in BankTxs, NEW u \in Tx, NEW v \in Tx, Holds(u, b)', Holds(v, b)', u # v
                 PROVE  FALSE
      BY DEF OneHolder
    <2>1. CASE u = t
      <3>1. r.op \in Locking /\ r.b = b /\ Holds(v, b)
        BY <2>1, <1>2 DEF Holds, Locking
      <3> QED BY <3>1, <2>1 DEF Reads, GetTransaction
    <2>2. CASE v = t
      <3>1. r.op \in Locking /\ r.b = b /\ Holds(u, b)
        BY <2>2, <1>2 DEF Holds, Locking
      <3> QED BY <3>1, <2>2 DEF Reads, GetTransaction
    <2>3. CASE u # t /\ v # t
      BY <2>3, <1>2 DEF Holds, PaymentsInv, OneHolder
    <2> QED BY <2>1, <2>2, <2>3
  <1>5. \A u \in Tx : Relies(tx[u])'
    <2> TAKE u \in Tx
    <2>1. CASE u = t
      BY <2>1, <1>1, <1>2 DEF Reads, Relies, Splits
    <2>2. CASE u # t
      BY <2>2, <1>1, <1>2 DEF PaymentsInv, Relies, Splits
    <2> QED BY <2>1, <2>2
  <1>6. MatchedIsBacked' /\ DecidedWhileMatched'
    BY <1>1 DEF PaymentsInv, MatchedIsBacked, DecidedWhileMatched
  <1>7. InTurn'
    <2> SUFFICES ASSUME ~raced' PROVE InTurn'
      BY DEF InTurn
    <2>1. ~raced /\ \A u \in Tx : tx[u] = Idle
      BY <1>1
    <2>2. PaidIsCovered
      BY <2>1 DEF PaymentsInv, InTurn
    <2>3. \A i \in Invoices : Received(i)' = Received(i)
      BY <1>1 DEF Received
    <2>4. PaidIsCovered'
      BY <2>2, <2>3, <1>1 DEF PaidIsCovered
    <2>5. Alone'
      BY <2>1, <1>2 DEF Alone
    <2>6. \A u \in Tx : Computed(tx[u])'
      <3> TAKE u \in Tx
      <3>1. CASE u = t
        <4>1. Computed(r)
          BY <2>2 DEF Reads
        <4> QED BY <4>1, <3>1, <1>1, <1>2, <2>3 DEF Computed
      <3>2. CASE u # t
        BY <3>2, <2>1, <1>2 DEF Computed, Idle
      <3> QED BY <3>1, <3>2
    <2> QED BY <2>4, <2>5, <2>6 DEF InTurn
  <1> QED BY <1>3, <1>4, <1>5, <1>6, <1>7 DEF PaymentsInv

-----------------------------------------------------------------------------
(* A request ends *)

(* A request that is closed leaves the others what they rely on: those     *)
(* that lock rows lock other ones.                                         *)
LEMMA Closed ==
  ASSUME PaymentsInv, NEW t \in Tx, tx[t] # Idle, tx' = [tx EXCEPT ![t] = Idle], UNCHANGED raced,
         \A b \in BankTxs : Holds(t, b) \/ state'[b] = state[b],
         PaymentsTypeOK',
         Alone /\ PaidIsCovered /\ Computed(tx[t]) => PaidIsCovered',
         MatchedIsBacked', DecidedWhileMatched'
  PROVE  PaymentsInv'
  <1>0. PaymentsTypeOK
    BY DEF PaymentsInv
  <1>1. tx'[t] = Idle /\ \A u \in Tx : u # t => tx'[u] = tx[u]
    BY <1>0 DEF PaymentsTypeOK
  <1>2. OneHolder'
    BY <1>1 DEF OneHolder, Holds, Idle, PaymentsInv
  <1>3. \A u \in Tx : Relies(tx[u])'
    <2> TAKE u \in Tx
    <2>1. CASE u = t
      BY <2>1, <1>1 DEF Relies, Idle
    <2>2. CASE u # t
      <3>1. Relies(tx[u]) /\ tx'[u] = tx[u] /\ tx[u] \in Request \cup {Idle}
        BY <2>2, <1>0, <1>1 DEF PaymentsInv, PaymentsTypeOK
      <3>2. CASE tx[u].op \in Locking
        <4>1. tx[u].b \in BankTxs /\ Holds(u, tx[u].b)
          BY <3>1, <3>2, RequestFields DEF Holds, Locking, Idle
        <4>2. state'[tx[u].b] = state[tx[u].b]
          BY <4>1, <2>2 DEF PaymentsInv, OneHolder
        <4> QED BY <3>1, <4>2 DEF Relies, Splits
      <3>3. CASE tx[u].op \notin Locking
        BY <3>1, <3>3 DEF Relies, Locking
      <3> QED BY <3>2, <3>3
    <2> QED BY <2>1, <2>2
  <1>4. InTurn'
    <2> SUFFICES ASSUME ~raced PROVE InTurn'
      BY DEF InTurn
    <2>1. Alone /\ PaidIsCovered /\ Computed(tx[t])
      BY DEF PaymentsInv, InTurn
    <2>2. \A u \in Tx : tx'[u] = Idle
      BY <2>1, <1>1 DEF Alone
    <2>3. Alone' /\ \A u \in Tx : Computed(tx[u])'
      BY <2>2 DEF Alone, Computed, Idle
    <2> QED BY <2>1, <2>3 DEF InTurn
  <1> QED BY <1>2, <1>3, <1>4 DEF PaymentsInv

(* What every commit writes.                                               *)
LEMMA CommitsFacts ==
  ASSUME PaymentsInv, NEW t \in Tx, NEW op, op # "idle", Commits(t, op)
  PROVE  /\ tx[t] \in Request /\ tx[t].op = op /\ tx[t] # Idle
         /\ tx' = [tx EXCEPT ![t] = Idle] /\ tx' \in [Tx -> Request \cup {Idle}]
         /\ UNCHANGED raced
         /\ status' \in [Invoices -> InvoiceStatus]
         /\ \A i \in Invoices : status'[i] = "paid" =>
              tx[t].to[i] = "paid" \/ (tx[t].to[i] = "same" /\ status[i] = "paid")
  <1>1. tx[t] \in Request /\ tx[t].op = op
    BY DEF PaymentsInv, PaymentsTypeOK, Commits, Idle
  <1>2. tx[t].to \in [Invoices -> InvoiceStatus \cup {"same"}] /\ tx[t] # Idle
    BY <1>1, RequestFields
  <1>3. tx' = [tx EXCEPT ![t] = Idle] /\ tx' \in [Tx -> Request \cup {Idle}]
    BY DEF PaymentsInv, PaymentsTypeOK, Commits
  <1> DEFINE to == tx[t].to
  <1>4. status' = [i \in Invoices |-> IF to[i] = "same" THEN status[i] ELSE to[i]]
    BY DEF Commits
  <1>5. status \in [Invoices -> InvoiceStatus] /\ to \in [Invoices -> InvoiceStatus \cup {"same"}]
    BY <1>2 DEF PaymentsInv, PaymentsTypeOK
  <1> HIDE DEF to
  <1>6. status' \in [Invoices -> InvoiceStatus]
    BY <1>4, <1>5
  <1>7. \A i \in Invoices : status'[i] = "paid" => to[i] = "paid" \/ (to[i] = "same" /\ status[i] = "paid")
    BY <1>4
  <1> QED BY <1>1, <1>2, <1>3, <1>6, <1>7 DEF Commits, to

(* Rows that are written for one transaction count once in what its        *)
(* invoices have received.                                                 *)
LEMMA ReceivedWritten ==
  ASSUME PaymentsTypeOK, NEW b \in BankTxs, NEW p \in [Invoices -> Nat],
         payment' = [payment EXCEPT ![b] = p], UNCHANGED cash, NEW i \in Invoices
  PROVE  Received(i)' = Received(i) - payment[b][i] + p[i]
  <1> DEFINE f == [c \in BankTxs |-> payment[c][i]]
             h == [f EXCEPT ![b] = p[i]]
  <1>1. payment \in [BankTxs -> [Invoices -> Nat]] /\ cash[i] \in Nat /\ p[i] \in Int
    BY DEF PaymentsTypeOK
  <1>2. f \in [BankTxs -> Int] /\ f[b] = payment[b][i] /\ f[b] \in Int
    BY <1>1
  <1>3. [c \in BankTxs |-> payment'[c][i]] = h
    BY <1>1
  <1>4. Received(i) = cash[i] + Sum(f) /\ Received(i)' = cash[i] + Sum(h)
    BY <1>3 DEF Received
  <1> HIDE DEF f
  <1>5. IsFiniteSet(BankTxs)
    BY PaymentsAssumption
  <1>6. Sum(f) \in Int
    BY <1>2, <1>5, SumType
  <1>7. Sum(h) = Sum(f) - f[b] + p[i]
    BY <1>1, <1>2, <1>5, SumUpdate
  <1> HIDE DEF h
  <1> QED BY <1>1, <1>2, <1>4, <1>6, <1>7

LEMMA CommitMatchInv ==
  ASSUME PaymentsInv, NEW t \in Tx, CommitMatch(t)
  PROVE  PaymentsInv'
  <1> DEFINE r == tx[t]
             b == tx[t].b
             pay == tx[t].pay
             chosen == {i \in Invoices : r.pay[i] > 0}
  <1>0. PaymentsTypeOK /\ MatchedIsBacked /\ DecidedWhileMatched
    BY DEF PaymentsInv
  <1>1. /\ Commits(t, "match")
        /\ state' = [state EXCEPT ![b] = "matched"]
        /\ payment' = [payment EXCEPT ![b] = Plus(@, pay)]
        /\ suggestion' = [suggestion EXCEPT ![b] = Decided(chosen, @)]
        /\ UNCHANGED <<cash, sent>>
    BY DEF CommitMatch
  <1>2. tx[t] \in Request /\ tx[t].op = "match" /\ tx[t] # Idle
    BY <1>1, CommitsFacts
  <1>3. b \in BankTxs /\ pay \in Splits(b) /\ state[b] \notin {"matched", "ignored"}
    BY <1>2, RequestFields DEF Locking, PaymentsInv, Relies
  <1>4. pay \in [Invoices -> Nat] /\ pay # Nothing /\ Sum(pay) <= Amount[b]
    BY <1>3, SplitsType
  <1> HIDE DEF chosen, pay, b, r
  <1>5. payment[b] = Nothing
    BY <1>0, <1>3 DEF MatchedIsBacked
  <1>6. Plus(payment[b], pay) = pay
    BY <1>4, <1>5 DEF Plus, Nothing
  <1>7. payment' = [payment EXCEPT ![b] = pay]
    BY <1>1, <1>6
  <1>8. /\ payment' \in [BankTxs -> [Invoices -> Nat]] /\ state' \in [BankTxs -> TransactionState]
        /\ payment'[b] = pay /\ state'[b] = "matched"
        /\ \A c \in BankTxs : c # b => payment'[c] = payment[c] /\ state'[c] = state[c]
    BY <1>0, <1>1, <1>3, <1>4, <1>7 DEF PaymentsTypeOK, TransactionState
  <1>9. /\ suggestion' \in [BankTxs -> [Invoices -> Decision]]
        /\ suggestion'[b] = Decided(chosen, suggestion[b])
        /\ \A c \in BankTxs : c # b => suggestion'[c] = suggestion[c]
    <2> DEFINE d == Decided(chosen, suggestion[b])
    <2>1. d \in [Invoices -> Decision]
      BY <1>0, <1>3 DEF PaymentsTypeOK, Decided, Decision
    <2>2. suggestion' = [suggestion EXCEPT ![b] = d]
      BY <1>1
    <2> HIDE DEF d
    <2>3. suggestion' \in [BankTxs -> [Invoices -> Decision]] /\ suggestion'[b] = d
      BY <2>1, <2>2, <1>0, <1>3 DEF PaymentsTypeOK
    <2> QED BY <2>2, <2>3, <1>0 DEF d, PaymentsTypeOK
  <1>10. PaymentsTypeOK'
    BY <1>0, <1>1, <1>8, <1>9, CommitsFacts DEF PaymentsTypeOK
  <1>11. MatchedIsBacked'
    BY <1>0, <1>4, <1>8 DEF MatchedIsBacked, Nothing
  <1>12. DecidedWhileMatched'
    <2> SUFFICES ASSUME NEW c \in BankTxs, NEW i \in Invoices
                 PROVE  suggestion'[c][i] \in (IF state'[c] = "matched" THEN {"none", "accepted", "rejected"}
                                                                        ELSE {"none", "pending"})
      BY DEF DecidedWhileMatched
    <2>1. CASE c = b
      <3>1. suggestion[b][i] \in {"none", "pending"}
        BY <1>0, <1>3 DEF DecidedWhileMatched
      <3> QED BY <2>1, <3>1, <1>8, <1>9 DEF Decided
    <2>2. CASE c # b
      BY <2>2, <1>0, <1>8, <1>9 DEF DecidedWhileMatched
    <2> QED BY <2>1, <2>2
  <1>13. Alone /\ PaidIsCovered /\ Computed(tx[t]) => PaidIsCovered'
    <2> SUFFICES ASSUME PaidIsCovered, Computed(tx[t]), NEW i \in Invoices, status'[i] = "paid"
                 PROVE  Received(i)' >= Total[i]
      BY DEF PaidIsCovered
    <2>1. Received(i)' = Received(i) - payment[b][i] + pay[i]
      BY ReceivedWritten, <1>0, <1>1, <1>3, <1>4, <1>7
    <2>2. Received(i) \in Nat /\ payment[b][i] = 0 /\ pay[i] \in Nat /\ Total[i] \in Nat
      BY ReceivedType, <1>0, <1>4, <1>5, PaymentsAssumption DEF Nothing
    <2>3. CASE tx[t].to[i] = "paid"
      <3>1. Received(i) + pay[i] >= Total[i]
        BY <2>3, <1>2 DEF Computed, pay
      <3> QED BY <2>1, <2>2, <3>1
    <2>4. CASE status[i] = "paid"
      <3>1. Received(i) >= Total[i]
        BY <2>4 DEF PaidIsCovered
      <3> QED BY <2>1, <2>2, <3>1
    <2> QED BY <2>3, <2>4, <1>1, CommitsFacts
  <1>14. \A c \in BankTxs : Holds(t, c) \/ state'[c] = state[c]
    BY <1>2, <1>8 DEF Holds, b
  <1> QED BY <1>1, <1>10, <1>11, <1>12, <1>13, <1>14, CommitsFacts, Closed

LEMMA CommitIgnoreInv ==
  ASSUME PaymentsInv, NEW t \in Tx, CommitIgnore(t)
  PROVE  PaymentsInv'
  <1> DEFINE b == tx[t].b
  <1>0. PaymentsTypeOK /\ MatchedIsBacked /\ DecidedWhileMatched
    BY DEF PaymentsInv
  <1>1. /\ Commits(t, "ignore")
        /\ state' = [state EXCEPT ![b] = "ignored"]
        /\ UNCHANGED <<payment, cash, suggestion, sent>>
    BY DEF CommitIgnore
  <1>2. tx[t] \in Request /\ tx[t].op = "ignore" /\ tx[t] # Idle
    BY <1>1, CommitsFacts
  <1>3. b \in BankTxs /\ state[b] # "matched"
    BY <1>2, RequestFields DEF Locking, PaymentsInv, Relies
  <1> HIDE DEF b
  <1>4. /\ state' \in [BankTxs -> TransactionState] /\ state'[b] = "ignored"
        /\ \A c \in BankTxs : c # b => state'[c] = state[c]
    BY <1>0, <1>1, <1>3 DEF PaymentsTypeOK, TransactionState
  <1>5. PaymentsTypeOK'
    BY <1>0, <1>1, <1>4, CommitsFacts DEF PaymentsTypeOK
  <1>6. \A c \in BankTxs : state'[c] = "matched" <=> state[c] = "matched"
    BY <1>3, <1>4
  <1>7. MatchedIsBacked'
    BY <1>0, <1>1, <1>6 DEF MatchedIsBacked, Nothing
  <1>8. DecidedWhileMatched'
    BY <1>0, <1>1, <1>6 DEF DecidedWhileMatched
  <1>9. Alone /\ PaidIsCovered /\ Computed(tx[t]) => PaidIsCovered'
    <2> SUFFICES ASSUME PaidIsCovered, Computed(tx[t]), NEW i \in Invoices, status'[i] = "paid"
                 PROVE  Received(i)' >= Total[i]
      BY DEF PaidIsCovered
    <2>1. Received(i)' = Received(i)
      BY <1>1 DEF Received
    <2>2. tx[t].to[i] # "paid"
      BY <1>2 DEF Computed
    <2>3. status[i] = "paid"
      BY <2>2, <1>1, CommitsFacts
    <2> QED BY <2>1, <2>3 DEF PaidIsCovered
  <1>10. \A c \in BankTxs : Holds(t, c) \/ state'[c] = state[c]
    BY <1>2, <1>4 DEF Holds, b
  <1> QED BY <1>1, <1>5, <1>7, <1>8, <1>9, <1>10, CommitsFacts, Closed

LEMMA CommitRevertInv ==
  ASSUME PaymentsInv, NEW t \in Tx, CommitRevert(t)
  PROVE  PaymentsInv'
  <1> DEFINE b == tx[t].b
  <1>0. PaymentsTypeOK /\ MatchedIsBacked /\ DecidedWhileMatched
    BY DEF PaymentsInv
  <1>1. /\ Commits(t, "revert")
        /\ state' = [state EXCEPT ![b] = "unmatched"]
        /\ payment' = [payment EXCEPT ![b] = Nothing]
        /\ suggestion' = [suggestion EXCEPT ![b] = Reopened(@)]
        /\ UNCHANGED <<cash, sent>>
    BY DEF CommitRevert
  <1>2. tx[t] \in Request /\ tx[t].op = "revert" /\ tx[t] # Idle
    BY <1>1, CommitsFacts
  <1>3. b \in BankTxs
    BY <1>2, RequestFields DEF Locking
  <1> HIDE DEF b
  <1>4. /\ payment' \in [BankTxs -> [Invoices -> Nat]] /\ state' \in [BankTxs -> TransactionState]
        /\ payment'[b] = Nothing /\ state'[b] = "unmatched"
        /\ \A c \in BankTxs : c # b => payment'[c] = payment[c] /\ state'[c] = state[c]
    BY <1>0, <1>1, <1>3, NothingType DEF PaymentsTypeOK, TransactionState
  <1>5. /\ suggestion' \in [BankTxs -> [Invoices -> Decision]]
        /\ suggestion'[b] = Reopened(suggestion[b])
        /\ \A c \in BankTxs : c # b => suggestion'[c] = suggestion[c]
    <2> DEFINE d == Reopened(suggestion[b])
    <2>1. d \in [Invoices -> Decision]
      BY DEF Reopened, Decision
    <2>2. suggestion' = [suggestion EXCEPT ![b] = d]
      BY <1>1
    <2> HIDE DEF d
    <2>3. suggestion' \in [BankTxs -> [Invoices -> Decision]] /\ suggestion'[b] = d
      BY <2>1, <2>2, <1>0, <1>3 DEF PaymentsTypeOK
    <2> QED BY <2>2, <2>3, <1>0 DEF d, PaymentsTypeOK
  <1>6. PaymentsTypeOK'
    BY <1>0, <1>1, <1>4, <1>5, CommitsFacts DEF PaymentsTypeOK
  <1>7. MatchedIsBacked'
    <2>1. Amount[b] \in Nat
      BY <1>3, PaymentsAssumption
    <2>2. Sum(Nothing) <= Amount[b]
      BY <2>1, NothingType
    <2> QED BY <2>2, <1>0, <1>4 DEF MatchedIsBacked, Nothing
  <1>8. DecidedWhileMatched'
    <2> SUFFICES ASSUME NEW c \in BankTxs, NEW i \in Invoices
                 PROVE  suggestion'[c][i] \in (IF state'[c] = "matched" THEN {"none", "accepted", "rejected"}
                                                                        ELSE {"none", "pending"})
      BY DEF DecidedWhileMatched
    <2>1. CASE c = b
      BY <2>1, <1>4, <1>5 DEF Reopened
    <2>2. CASE c # b
      BY <2>2, <1>0, <1>4, <1>5 DEF DecidedWhileMatched
    <2> QED BY <2>1, <2>2
  <1>9. Alone /\ PaidIsCovered /\ Computed(tx[t]) => PaidIsCovered'
    <2> SUFFICES ASSUME PaidIsCovered, Computed(tx[t]), NEW i \in Invoices, status'[i] = "paid"
                 PROVE  Received(i)' >= Total[i]
      BY DEF PaidIsCovered
    <2>1. Received(i)' = Received(i) - payment[b][i] + Nothing[i] /\ Nothing[i] = 0
      BY ReceivedWritten, NothingType, <1>0, <1>1, <1>3 DEF Nothing
    <2>2. tx[t].to[i] = "same" /\ status[i] = "paid"
      BY <1>1, <1>2, CommitsFacts DEF Computed
    <2>3. Received(i) - payment[b][i] >= Total[i]
      BY <2>2, <1>2 DEF Computed, b
    <2>4. Received(i) \in Nat /\ payment[b][i] \in Nat
      BY ReceivedType, <1>0, <1>3 DEF PaymentsTypeOK
    <2> QED BY <2>1, <2>3, <2>4
  <1>10. \A c \in BankTxs : Holds(t, c) \/ state'[c] = state[c]
    BY <1>2, <1>4 DEF Holds, b
  <1> QED BY <1>1, <1>6, <1>7, <1>8, <1>9, <1>10, CommitsFacts, Closed

LEMMA CommitSuggestInv ==
  ASSUME PaymentsInv, NEW t \in Tx, CommitSuggest(t)
  PROVE  PaymentsInv'
  <1> DEFINE b == tx[t].b
             among == tx[t].among
             d == [i \in Invoices |-> IF i \in among THEN "pending"
                                      ELSE IF suggestion[b][i] = "pending" THEN "none" ELSE suggestion[b][i]]
             s == IF among = {} THEN state[b] ELSE "suggested"
  <1>0. PaymentsTypeOK /\ MatchedIsBacked /\ DecidedWhileMatched
    BY DEF PaymentsInv
  <1>1. /\ Commits(t, "suggest")
        /\ state' = [state EXCEPT ![b] = IF among = {} THEN @ ELSE "suggested"]
        /\ suggestion' = [suggestion EXCEPT ![b] =
                            [i \in Invoices |-> IF i \in among THEN "pending"
                                                ELSE IF @[i] = "pending" THEN "none" ELSE @[i]]]
        /\ UNCHANGED <<payment, cash, sent>>
    BY DEF CommitSuggest
  <1>2. tx[t] \in Request /\ tx[t].op = "suggest" /\ tx[t] # Idle
    BY <1>1, CommitsFacts
  <1>3. b \in BankTxs /\ state[b] \notin {"matched", "ignored"}
    BY <1>2, RequestFields DEF Locking, PaymentsInv, Relies
  <1>4. state' = [state EXCEPT ![b] = s] /\ suggestion' = [suggestion EXCEPT ![b] = d]
    BY <1>1
  <1>5. /\ s \in TransactionState /\ s \notin {"matched", "ignored"}
        /\ d \in [Invoices -> Decision] /\ \A i \in Invoices : d[i] \in {"none", "pending"}
    BY <1>0, <1>3 DEF PaymentsTypeOK, TransactionState, Decision, DecidedWhileMatched
  <1> HIDE DEF b, d, s, among
  <1>6. /\ suggestion' \in [BankTxs -> [Invoices -> Decision]] /\ state' \in [BankTxs -> TransactionState]
        /\ suggestion'[b] = d /\ state'[b] = s
        /\ \A c \in BankTxs : c # b => suggestion'[c] = suggestion[c] /\ state'[c] = state[c]
    BY <1>0, <1>3, <1>4, <1>5 DEF PaymentsTypeOK
  <1>7. PaymentsTypeOK'
    BY <1>0, <1>1, <1>6, CommitsFacts DEF PaymentsTypeOK
  <1>8. \A c \in BankTxs : state'[c] = "matched" <=> state[c] = "matched"
    BY <1>3, <1>5, <1>6
  <1>9. MatchedIsBacked'
    BY <1>0, <1>1, <1>8 DEF MatchedIsBacked, Nothing
  <1>10. DecidedWhileMatched'
    <2> SUFFICES ASSUME NEW c \in BankTxs, NEW i \in Invoices
                 PROVE  suggestion'[c][i] \in (IF state'[c] = "matched" THEN {"none", "accepted", "rejected"}
                                                                        ELSE {"none", "pending"})
      BY DEF DecidedWhileMatched
    <2>1. CASE c = b
      BY <2>1, <1>5, <1>6
    <2>2. CASE c # b
      BY <2>2, <1>0, <1>6 DEF DecidedWhileMatched
    <2> QED BY <2>1, <2>2
  <1>11. Alone /\ PaidIsCovered /\ Computed(tx[t]) => PaidIsCovered'
    <2> SUFFICES ASSUME PaidIsCovered, Computed(tx[t]), NEW i \in Invoices, status'[i] = "paid"
                 PROVE  Received(i)' >= Total[i]
      BY DEF PaidIsCovered
    <2>1. Received(i)' = Received(i)
      BY <1>1 DEF Received
    <2>2. tx[t].to[i] # "paid"
      BY <1>2 DEF Computed
    <2>3. status[i] = "paid"
      BY <2>2, <1>1, CommitsFacts
    <2> QED BY <2>1, <2>3 DEF PaidIsCovered
  <1>12. \A c \in BankTxs : Holds(t, c) \/ state'[c] = state[c]
    BY <1>2, <1>6 DEF Holds, b
  <1> QED BY <1>1, <1>7, <1>9, <1>10, <1>11, <1>12, CommitsFacts, Closed

LEMMA CommitRecordInv ==
  ASSUME PaymentsInv, NEW t \in Tx, CommitRecord(t)
  PROVE  PaymentsInv'
  <1> DEFINE pay == tx[t].pay
  <1>0. PaymentsTypeOK
    BY DEF PaymentsInv
  <1>1. /\ Commits(t, "record")
        /\ cash' = Plus(cash, pay)
        /\ UNCHANGED <<state, payment, suggestion, sent>>
    BY DEF CommitRecord
  <1>2. tx[t] \in Request /\ tx[t].op = "record" /\ tx[t] # Idle /\ pay \in [Invoices -> Nat]
    BY <1>1, CommitsFacts, RequestFields
  <1> HIDE DEF pay
  <1>3. cash' \in [Invoices -> Nat] /\ \A i \in Invoices : cash'[i] = cash[i] + pay[i]
    BY <1>0, <1>1, <1>2 DEF PaymentsTypeOK, Plus
  <1>4. PaymentsTypeOK'
    BY <1>0, <1>1, <1>3, CommitsFacts DEF PaymentsTypeOK
  <1>5. MatchedIsBacked' /\ DecidedWhileMatched'
    BY <1>1 DEF PaymentsInv, MatchedIsBacked, DecidedWhileMatched, Nothing
  <1>6. Alone /\ PaidIsCovered /\ Computed(tx[t]) => PaidIsCovered'
    <2> SUFFICES ASSUME PaidIsCovered, Computed(tx[t]), NEW i \in Invoices, status'[i] = "paid"
                 PROVE  Received(i)' >= Total[i]
      BY DEF PaidIsCovered
    <2> DEFINE banked == Sum([b \in BankTxs |-> payment[b][i]])
    <2>1. Received(i)' = cash'[i] + banked /\ Received(i) = cash[i] + banked
      BY <1>1 DEF Received
    <2>2. banked \in Int
      <3>1. [b \in BankTxs |-> payment[b][i]] \in [BankTxs -> Int]
        BY <1>0 DEF PaymentsTypeOK
      <3> QED BY <3>1, SumType, PaymentsAssumption
    <2> HIDE DEF banked
    <2>3. cash[i] \in Nat /\ pay[i] \in Nat /\ cash'[i] = cash[i] + pay[i] /\ Total[i] \in Nat
      BY <1>0, <1>2, <1>3, PaymentsAssumption DEF PaymentsTypeOK
    <2>4. Received(i)' = Received(i) + pay[i] /\ Received(i) \in Int
      BY <2>1, <2>2, <2>3
    <2>5. CASE tx[t].to[i] = "paid"
      BY <2>5, <2>4, <1>2 DEF Computed, pay
    <2>6. CASE status[i] = "paid"
      <3>1. Received(i) >= Total[i]
        BY <2>6 DEF PaidIsCovered
      <3> QED BY <3>1, <2>3, <2>4
    <2> QED BY <2>5, <2>6, <1>1, CommitsFacts
  <1>7. \A c \in BankTxs : Holds(t, c) \/ state'[c] = state[c]
    BY <1>1
  <1> QED BY <1>1, <1>4, <1>5, <1>6, <1>7, CommitsFacts, Closed

LEMMA CommitSendInv ==
  ASSUME PaymentsInv, NEW t \in Tx, CommitSend(t)
  PROVE  PaymentsInv'
  <1>0. PaymentsTypeOK
    BY DEF PaymentsInv
  <1>1. /\ Commits(t, "send")
        /\ sent' = [i \in Invoices |-> sent[i] \/ tx[t].to[i] = "sent"]
        /\ UNCHANGED <<state, payment, cash, suggestion>>
    BY DEF CommitSend
  <1>2. tx[t].op = "send"
    BY <1>1, CommitsFacts
  <1>3. sent' \in [Invoices -> BOOLEAN]
    BY <1>1
  <1>4. PaymentsTypeOK'
    BY <1>0, <1>1, <1>3, CommitsFacts DEF PaymentsTypeOK
  <1>5. MatchedIsBacked' /\ DecidedWhileMatched'
    BY <1>1 DEF PaymentsInv, MatchedIsBacked, DecidedWhileMatched, Nothing
  <1>6. Alone /\ PaidIsCovered /\ Computed(tx[t]) => PaidIsCovered'
    <2> SUFFICES ASSUME PaidIsCovered, Computed(tx[t]), NEW i \in Invoices, status'[i] = "paid"
                 PROVE  Received(i)' >= Total[i]
      BY DEF PaidIsCovered
    <2>1. Received(i)' = Received(i)
      BY <1>1 DEF Received
    <2>2. status[i] = "paid"
      BY <1>1, <1>2, CommitsFacts DEF Computed
    <2> QED BY <2>1, <2>2 DEF PaidIsCovered
  <1>7. \A c \in BankTxs : Holds(t, c) \/ state'[c] = state[c]
    BY <1>1
  <1> QED BY <1>1, <1>4, <1>5, <1>6, <1>7, CommitsFacts, Closed

LEMMA AbortInv ==
  ASSUME PaymentsInv, NEW t \in Tx, Abort(t)
  PROVE  PaymentsInv'
  <1>1. /\ tx[t] # Idle /\ tx' = [tx EXCEPT ![t] = Idle]
        /\ UNCHANGED <<state, payment, cash, suggestion, status, sent, raced>>
    BY DEF Abort
  <1>2. PaymentsTypeOK'
    BY <1>1 DEF PaymentsInv, PaymentsTypeOK
  <1>3. MatchedIsBacked' /\ DecidedWhileMatched'
    BY <1>1 DEF PaymentsInv, MatchedIsBacked, DecidedWhileMatched, Nothing
  <1>4. PaidIsCovered => PaidIsCovered'
    BY <1>1 DEF PaidIsCovered, Received
  <1> QED BY <1>1, <1>2, <1>3, <1>4, Closed

-----------------------------------------------------------------------------
(* The invariant and what follows from it *)

LEMMA PaymentsInit == Init => PaymentsInv
  <1> SUFFICES ASSUME Init PROVE PaymentsInv
    OBVIOUS
  <1>1. PaymentsTypeOK
    BY NothingType DEF Init, PaymentsTypeOK, TransactionState, Decision, InvoiceStatus
  <1>2. \A t \in Tx : tx[t] = Idle
    BY DEF Init
  <1>3. OneHolder /\ (\A t \in Tx : Relies(tx[t])) /\ Alone /\ (\A t \in Tx : Computed(tx[t]))
    BY <1>2 DEF OneHolder, Holds, Relies, Alone, Computed, Idle
  <1>4. MatchedIsBacked
    <2> SUFFICES ASSUME NEW b \in BankTxs
                 PROVE  /\ state[b] = "matched" <=> payment[b] # Nothing
                        /\ Sum(payment[b]) <= Amount[b]
      BY DEF MatchedIsBacked
    <2>1. state[b] = "unmatched" /\ payment[b] = Nothing
      BY DEF Init
    <2>2. Amount[b] \in Nat
      BY PaymentsAssumption
    <2> QED BY <2>1, <2>2, NothingType
  <1>5. DecidedWhileMatched
    BY DEF Init, DecidedWhileMatched
  <1>6. PaidIsCovered
    BY DEF Init, PaidIsCovered
  <1> QED BY <1>1, <1>3, <1>4, <1>5, <1>6 DEF PaymentsInv, InTurn

LEMMA PaymentsStep == PaymentsInv /\ [Next]_vars => PaymentsInv'
  <1> SUFFICES ASSUME PaymentsInv, [Next]_vars PROVE PaymentsInv'
    OBVIOUS
  <1>0. PaymentsTypeOK
    BY DEF PaymentsInv
  <1>1. CASE UNCHANGED vars
    BY <1>1 DEF vars, PaymentsInv, PaymentsTypeOK, OneHolder, Holds, Relies, Splits, MatchedIsBacked,
                DecidedWhileMatched, InTurn, Alone, PaidIsCovered, Computed, Received
  <1>2. CASE \E t \in Tx, b \in BankTxs : Match(t, b) \/ IgnoreTransaction(t, b)
                                            \/ RevertMatch(t, b) \/ SuggestMatches(t, b)
    BY <1>0, <1>2, MatchReads, IgnoreReads, RevertReads, SuggestReads, ReadsInv
  <1>3. CASE \E t \in Tx, i \in Invoices : RecordPayment(t, i)
    BY <1>0, <1>3, RecordReads, ReadsInv
  <1>4. CASE \E t \in Tx : BulkSendInvoices(t)
    BY <1>0, <1>4, SendReads, ReadsInv
  <1>5. CASE \E t \in Tx : CommitMatch(t) \/ CommitIgnore(t) \/ CommitRevert(t) \/ CommitSuggest(t)
                             \/ CommitRecord(t) \/ CommitSend(t) \/ Abort(t)
    BY <1>5, CommitMatchInv, CommitIgnoreInv, CommitRevertInv, CommitSuggestInv, CommitRecordInv,
       CommitSendInv, AbortInv
  <1> QED BY <1>1, <1>2, <1>3, <1>4, <1>5 DEF Next

THEOREM PaymentsInvariant == Spec => []PaymentsInv
  BY PaymentsInit, PaymentsStep, PTL DEF Spec

(* What is stored has its type; in particular no row takes a sum below     *)
(* nothing.                                                                *)
THEOREM PaymentsTyped == Spec => []PaymentsTypeOK
  BY PaymentsInvariant, PTL DEF PaymentsInv

(* A bank transaction is matched exactly while payments stand on it, and   *)
(* never for more than came in.                                            *)
THEOREM MatchedBacked == Spec => []MatchedIsBacked
  BY PaymentsInvariant, PTL DEF PaymentsInv

(* Suggestions are decided while their transaction is matched and open     *)
(* otherwise.                                                              *)
THEOREM SuggestionsDecided == Spec => []DecidedWhileMatched
  BY PaymentsInvariant, PTL DEF PaymentsInv

(* While requests come one after the other, no invoice is paid that has    *)
(* not been received in full.                                              *)
THEOREM PaidCoveredInTurn == Spec => []PaidInTurn
  <1>1. PaymentsInv => PaidInTurn
    BY DEF PaymentsInv, InTurn, PaidIsCovered, PaidInTurn
  <1> QED BY <1>1, PaymentsInvariant, PTL

==============================================================================
