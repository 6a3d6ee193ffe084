SPECIFICATION Spec
CONSTANTS
    s1 = s1
    s2 = s2
    t1 = t1
    t2 = t2
    Nobody = Nobody
    Students = {s1, s2}
    Capacity = 1
    WaitCapacity = 1
    Sessions <- OneSession
    Tx = {t1, t2}
SYMMETRY Symmetry
INVARIANTS
    ClassesTypeOK
    BookingChargedOnce
    MarkerTellsCharge
    NotOverbookedInTurn
