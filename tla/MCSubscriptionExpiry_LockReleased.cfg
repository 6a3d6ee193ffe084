SPECIFICATION Spec
CONSTANTS
    s1 = s1
    student = student
    w1 = w1
    w2 = w2
    c1 = c1
    c2 = c2
    c3 = c3
    NoConn = NoConn
    Workers = {w1, w2}
    Conns = {c1, c2, c3}
    PoolSize = 2
    Subs = {s1}
    Recipients = {student}
    Milestones = {0, 1}
    Soon = 1
    Ends <- MCEnds
    MaxDay = 1
    Asked = {"paused"}
INVARIANT LockReleased
