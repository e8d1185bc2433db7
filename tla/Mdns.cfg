SPECIFICATION ServiceSpec
CONSTANTS
    Modes = {"normal", "direct"}
    CreateFails = TRUE
INVARIANTS FoundIsResolved HandlesOutliveThreads AvahiAgrees
PROPERTY StopEnds
CHECK_DEADLOCK FALSE
