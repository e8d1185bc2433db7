SPECIFICATION Spec
CONSTANTS
    Sessions = {s1, s2}
    Modes = {0, 1}
    GainSteps = {0, 197}
    StartupBias = TRUE
    BiasPersist = FALSE
    Regimes <- MCRegimes
SYMMETRY Symmetry
INVARIANTS PublishedLimits   ToldIsCurrent ContextFollows
PROPERTY BiasFallsBack
