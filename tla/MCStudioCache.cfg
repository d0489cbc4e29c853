SPECIFICATION Spec
CONSTANTS
    Threads = {t1, t2}
    tree1 = tree1
    s1 = s1
    s2 = s2
    Trees <- MCTrees
    Settings <- MCSettings
    Growing <- MCGrowing
    Questions <- MCQuestions
    RunLimit = 2
    ArtifactLimit = 1
    RawLimit = 2
    MaxData = 1
    MaxRequests = 3
    MaxEdits = 1
    MaxCrashes = 1
    Outages = FALSE
    None = None
    Unavailable = Unavailable
SYMMETRY Symmetry
CONSTRAINT FewEvents
CHECK_DEADLOCK FALSE
INVARIANTS
    TypeOK
    EntriesAreTrue
    AnsweredRunsAreKept
    LinksAreTrue
PROPERTIES
    EvictsOnlyForRoom
    ImplementsResultService
