SPECIFICATION Spec
CONSTANTS
    Trees = {t1, t2}
    Nodes = {n1}
    Revisions <- MCRevisions
    MaxRevisions = 4
    Proposals <- MCProposals
    MaxProposals = 2
    Keys = {k1}
    Editors = {}
    Producers = {c1, c2}
    Reviewers = {c1, c2}
    MaxData = 0
    Outages = FALSE
    None = None
    Unavailable = Unavailable
SYMMETRY Symmetry
CONSTRAINT IdsInOrder
INVARIANTS
    KeyBuysOneApproval
    SuccessIsDurable
PROPERTIES
    ImplementsAtomicApproval
