SPECIFICATION Spec
CONSTANTS
    Gap = 2
    MaxTime = 6
    MaxCount = 2
INVARIANT IdleIsSilent
PROPERTIES AnswersExplained OverloadEvents UnnamedExplained
