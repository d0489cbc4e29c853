SPECIFICATION Spec
CONSTANTS
    Trees = {t1}
    Nodes = {n1}
    Revisions <- MCRevisions
    MaxRevisions = 2
    Proposals <- MCProposals
    MaxProposals = 1
    Keys = {k1}
    Editors = {}
    Producers = {c1}
    Reviewers = {c2}
    MaxData = 1
    Outages = FALSE
    None = None
    Unavailable = Unavailable
CONSTRAINT IdsInOrder
CHECK_DEADLOCK FALSE
INVARIANTS
    SnapshotIsOneVersion
