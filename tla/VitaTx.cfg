SPECIFICATION Spec
CONSTANTS
    Tokens = {1, 2}
    CountMod = 2
    Spp = 2
    Second = 10
    Rates = {3, 5}
    Gains = {0, 197}
    Buffers = {2, 4}
    MaxBurst = 2
    MaxSamples = 6
    ContextEnabled = TRUE
    ContextDropped = FALSE
INVARIANTS ContextFirst StampExact LossCounted
PROPERTY ChangeHonest
