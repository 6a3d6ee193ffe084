SPECIFICATION QueueSpec
CONSTANTS
    u1 = u1
    NoUser = NoUser
    oldCreate = oldCreate
    oldUpdate = oldUpdate
    create = create
    lesson = lesson
    booking = booking
    Users = {u1}
    Writes = {oldCreate, oldUpdate, create}
    Creates = {oldCreate, create}
    Legacy = {oldCreate, oldUpdate}
    Domains = {lesson, booking}
    DomainOf <- MCDomainOf
    Adapters = {lesson}
    MaxSends = 1
    MaxRetry = 3
    MaxEntries = 1
    p1 = p1
    p2 = p2
    Passes = {p1}
PROPERTY Settles
