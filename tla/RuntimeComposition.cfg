CONSTANTS
    Input = Input
    NONE = NONE
    Torn = Torn
    Procs = {p1, p2}
    Requests = {"r1", "r2"}
    Metas = {"e1", "e2"}
    Dests = {"d1"}
    MaxCommands = 3
    MaxFaults = 1
SPECIFICATION Spec
SYMMETRY Symmetry
INVARIANTS CompositionIsVerified
PROPERTIES CompositionStays
CHECK_DEADLOCK FALSE
