SPECIFICATION Spec
CONSTANTS
    Slots = {1, 2}
    Commands = {"set", "start", "open", "close"}
    MaxConns = 2
INVARIANT RequestIntact
