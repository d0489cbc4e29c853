SPECIFICATION Spec
CONSTANTS
    Portfolios <- MCPortfolios
    Settings <- MCSettings
    Universes <- MCUniverses
    None = None
    Raised = Raised
CHECK_DEADLOCK FALSE
INVARIANTS
    TypeOK
    HardConstraintsHold
    HardFailIsHard
    ClaimsAnswerTheQuestion
    StagesTellTheResult
    RegimesAreIndependent
PROPERTIES
    Terminates
