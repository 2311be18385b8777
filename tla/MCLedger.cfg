SPECIFICATION Spec
CONSTANTS
    Payloads = {p1, p2}
    BadJson = BadJson
    NULL = NULL
    Elsewhere = Elsewhere
    Gone = Gone
    Times = {1}
    MaxEvents = 3
    MaxEdits = 2
    MaxMutations = 2
SYMMETRY Symmetry
INVARIANTS TamperEvident NoFalseAlarm EveryRowVerified SideTablesTrue
CHECK_DEADLOCK FALSE
