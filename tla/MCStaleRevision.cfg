SPECIFICATION Spec
CONSTANTS
    Trees = {t1}
    Nodes = {n1}
    Revisions <- MCRevisions
    MaxRevisions = 3
    Proposals <- MCProposals
    MaxProposals = 1
    Keys = {k1}
    Editors = {c1}
    Producers = {c1}
    Reviewers = {c2}
    MaxData = 0
    Outages = FALSE
    None = None
    Unavailable = Unavailable
CONSTRAINT IdsInOrder
CHECK_DEADLOCK FALSE
INVARIANTS
    StaleRevisionExpires
