SPECIFICATION Spec
CONSTANTS
    Jobs = {j1}
    Workers = {w1, w2}
    MaxCrashes = 0
    MaxSlow = 1
PROPERTIES
    ReapsOnlyOrphans
