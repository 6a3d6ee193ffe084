SPECIFICATION Spec
CONSTANTS
    e1 = e1
    e2 = e2
    s1 = s1
    s2 = s2
    t1 = t1
    t2 = t2
    NoSlot = NoSlot
    Entries = {e1, e2}
    Slots = {s1, s2}
    Credits = 1
    Statuses = {"confirmed", "cancelled"}
    Tx = {t1, t2}
SYMMETRY Symmetry
INVARIANTS
    CalendarTypeOK
    FirstComeFirstServed
    SeriesDisjoint
    
CHECK_DEADLOCK FALSE
