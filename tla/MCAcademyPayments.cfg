SPECIFICATION Spec
CONSTANTS
    b1 = b1
    b2 = b2
    i1 = i1
    i2 = i2
    t1 = t1
    t2 = t2
    BankTxs = {b1, b2}
    Invoices = {i1, i2}
    Amount <- TwoAndOne
    Total <- Totals
    Likely <- Scores
    MaxCash = 1
    Tx = {t1, t2}
SYMMETRY Symmetry
INVARIANTS
    PaymentsTypeOK
    MatchedIsBacked
    DecidedWhileMatched
    PaidInTurn
