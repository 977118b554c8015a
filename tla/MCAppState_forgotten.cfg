SPECIFICATION Spec
CONSTANTS
    Collections = {c1}
    Keys = {k1, k2}
    KnownKeys = {k1}
    Mutations <- SetOnly
    AppTasks = {a1}
    Recovering = TRUE
    Uploading = FALSE
    MaxRounds = 2
    MaxPatches = 2
    MaxCalls = 0
    MaxFaults = 0
INVARIANT NeverForgotten
CHECK_DEADLOCK FALSE
