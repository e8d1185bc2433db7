SPECIFICATION Spec
CONSTANTS
    Ring <- MCRing
    ClientKeys <- MCClientKeys
    MaxFailures = 2
    Window = 2
    MaxTime = 5
    MaxNonces = 5
    RandomFails = TRUE
INVARIANTS GateHolds NonceUnused ChallengeKnown 
