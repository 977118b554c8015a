SPECIFICATION Spec
CONSTANTS
    Collections = {c1}
    Keys = {k1, k2}
    KnownKeys = {k1}
    Mutations <- SetOnly
    AppTasks = {a1}
    Recovering = TRUE
    Uploading = TRUE
    MaxRounds = 2
    MaxPatches = 2
    MaxCalls = 1
    MaxFaults = 1
 
 
INVARIANT EmittedOrAbandoned
INVARIANT BehindMeansParked
PROPERTY NeverBackAlone
PROPERTY CatchesUp
CHECK_DEADLOCK FALSE
