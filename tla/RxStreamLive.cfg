SPECIFICATION FairSpec
CONSTANTS
    MaxSessions = 2
    MaxVitaSessions = 2
    MaxStreamId = 2
    RepeatHello = TRUE
    PromptStart = TRUE
INVARIANT SafetyInv
PROPERTY TeardownEnds
