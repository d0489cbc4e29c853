SPECIFICATION Spec
CONSTANTS
    Trees = {t1}
    Nodes = {n1, n2}
    Revisions <- MCRevisions
    MaxRevisions = 3
    Proposals <- MCProposals
    MaxProposals = 1
    Keys = {k1}
    Editors = {c1, c2}
    Producers = {c1, c2}
    Reviewers = {c1, c2}
    MaxData = 1
    Outages = TRUE
    None = None
    Unavailable = Unavailable
SYMMETRY Symmetry
CONSTRAINT IdsInOrder
VIEW AnswersForgotten
INVARIANTS
    TypeOK
    LinearHistory
    AuditTrailAgrees
PROPERTIES
    DecisionIsFinal
    NoStaleApproval
    NothingIsLost
    ImplementsAtomicApproval
