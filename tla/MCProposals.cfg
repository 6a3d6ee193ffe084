SPECIFICATION Spec
CONSTANTS
    first = first
    renewal = renewal
    l1 = l1
    t1 = t1
    t2 = t2
    NoProposal = NoProposal
    Hinted = Hinted
    Proposals = {first, renewal}
    Renewals = {renewal}
    Linked = {first}
    Lessons = {l1}
    Tx = {t1, t2}
SYMMETRY Symmetry
INVARIANTS
    ProposalsTypeOK
    MintedOnce
    IssuesBacked
PROPERTY
    IssuedOnNotice
