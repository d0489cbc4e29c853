SPECIFICATION Spec
CONSTANTS
    Jobs = {j1, j2}
    Workers = {w1, w2}
    MaxCrashes = 1
    MaxSlow = 1
INVARIANTS
    TypeOK
    ClaimedOncePerQueueing
    SucceededMeansAnswered
PROPERTIES
    DoneIsDone
    EveryJobFinishes
