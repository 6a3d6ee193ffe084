SPECIFICATION Spec
CONSTANTS
    l1 = l1
    s1 = s1
    t1 = t1
    t2 = t2
    u1 = u1
    u2 = u2
    Lessons = {l1}
    Subs = {s1}
    SubOf <- MCSubOf
    Capacity <- MCCapacity
    Generated = {l1}
    Penalised = {"noShow"}
    Usages = {u1, u2}
    Tx = {t1, t2}
SYMMETRY Symmetry
INVARIANTS
    LedgerTypeOK
    ServerChargesOnce
    CounterMatchesRows
PROPERTIES
    ChargesArePaid
    CompletionIsCharged
