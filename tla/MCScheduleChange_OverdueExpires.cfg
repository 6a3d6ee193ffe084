SPECIFICATION Spec
CONSTANTS
    teacher = teacher
    student = student
    w1 = w1
    w2 = w2
    t1 = t1
    t2 = t2
    System = System
    Parties = {teacher, student}
    Workers = {w1, w2}
    Allowance = 2
    MaxEvents = 3
    Tx = {t1, t2}
SYMMETRY Symmetry
PROPERTY
    OverdueExpires
