SPECIFICATION Spec
CONSTANTS
    None = None
    Infeasible = Infeasible
    Names <- MCNames
    Unit <- MCUnit
    Cash <- MCCash
    CashAt <- MCCashAt
    Solutions <- MCSolutions
    Business <- MCBusiness
    Ends <- MCEnds
    Benchmark <- MCBenchmark
    Studies <- MCStudies
INVARIANTS
    TypeOK
    NoLookAhead
    HoldingsTile
    ForwardIsDiagnostic
    SleevesAreWhatTheyHold
    AuditsExplainThePortfolio
    FlatStandsAlone
    GridIsLostByDiagnosticsOnly
    PrunedTreeIsATree
    ExposureSurvives
    BurnInBuysEvidence
    OnlyPruningChangesTargets
