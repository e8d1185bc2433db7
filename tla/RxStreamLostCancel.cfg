SPECIFICATION FairSpec
CONSTANTS
    MaxSessions = 2
    MaxVitaSessions = 2
    MaxStreamId = 2
    RepeatHello = FALSE
    PromptStart = FALSE
PROPERTIES
    DisconnectCompletes
