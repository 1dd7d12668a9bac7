CONSTANTS
    p1 = p1
    p2 = p2
    NONE = NONE
    Torn = Torn
    Empty = Empty
    Procs = {p1, p2}
    Versions <- MCVersions
    Catalog <- MCCatalog
    Deps = {"tbb"}
    Keys = {"j4", "j8"}
    Variant = "gl"
    Requests <- MCRequests
    Sources = {"build", "local", "mock", "artifact"}
    MaxCommands = 3
    MaxFaults = 1
SPECIFICATION Spec
SYMMETRY MCSymmetry
INVARIANTS ExportsAreSound ClaimsAreTrue
PROPERTIES ProducerClaimsStay
CHECK_DEADLOCK FALSE
