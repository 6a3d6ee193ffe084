SPECIFICATION Spec
CONSTANTS
    create = create
    lesson = lesson
    NoUser = NoUser
    u1 = u1
    p1 = p1
    p2 = p2
    Passes = {p1, p2}
    Users = {u1}
    Writes = {create}
    Creates = {create}
    Legacy = {}
    Domains = {lesson}
    DomainOf <- MCDomainOf
    Adapters = {lesson}
    MaxSends = 2
    MaxRetry = 2
    MaxEntries = 1
INVARIANTS
    TypeOK
    OncePerKey
    OneAnswerPerKey
    NoDuplicateCreate
    RefusedIsFinal
PROPERTY
    CreatesHappenOnce
