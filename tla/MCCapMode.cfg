SPECIFICATION Spec
CONSTANTS
    Portfolios <- MCPortfolios
    Settings <- MCSettings
    Universes <- MCUniverses
    None = None
    Raised = Raised
CHECK_DEADLOCK FALSE
INVARIANTS
    CapModeOnlyBounds
