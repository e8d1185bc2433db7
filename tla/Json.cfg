SPECIFICATION Spec
CONSTANTS
    Keys = {a, b}
    MAX_JSON_TOKENS = 8
    Lengths <- MCLengths
INVARIANTS TreeRecovered  FindsItsMember
CHECK_DEADLOCK FALSE
