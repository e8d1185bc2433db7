SPECIFICATION FairSpec
CONSTANTS
    Keygens = {k1, k2, k3}
    KeyIds = {alice, bob}
    AUTH_MAX_KEYS = 2
    Setups <- MCSetups
    MaxThreads = 3
INVARIANTS  ResourcesNested QuietShutdown
 
CHECK_DEADLOCK FALSE
