SPECIFICATION ReadingSpec
CONSTANTS
    Slots = {1, 2}
    Commands = {"set", "close"}
    MaxConns = 2
INVARIANTS FramesWhole SendsToLive
PROPERTY SessionsProceed
