SPECIFICATION QueueSpec
CONSTANTS
    u1 = u1
    NoUser = NoUser
    oldCreate = oldCreate
    oldUpdate = oldUpdate
    create = create
    lesson = lesson
    booking = booking
    Users = {u1}
    Writes = {oldCreate, create}
    Creates = {oldCreate, create}
    Legacy = {oldCreate}
    Domains = {lesson}
    DomainOf <- MCDomainOf
    Adapters = {lesson}
    MaxSends = 1
    MaxRetry = 3
    MaxEntries = 1
    p1 = p1
    p2 = p2
    Passes = {p1, p2}
INVARIANTS
    QueueTypeOK
    SyncingIsReplayed
PROPERTIES
    UnsentKept
    NotOvertakenInTurn
    TerminalUntilRetried
