SPECIFICATION Spec
CONSTANTS
    MaxSessions = 3
    MaxVitaSessions = 2
    MaxStreamId = 3
    RepeatHello = FALSE
    PromptStart = FALSE
INVARIANTS OnlyOwnerStreams StreamsAccounted NoOrphanStream FreeIsAnnounced
PROPERTIES ThreadNeverOverwritten ImplementsChannel
