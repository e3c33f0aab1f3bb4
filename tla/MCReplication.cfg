SPECIFICATION Spec
CONSTANTS
    Nodes = {n1, n2, n3}
    Keys = {k1}
    Peers = {p1}
    Askers = {g1}
    Putters = {}
    K = 1
    Expiry = 1
    MaxTime = 2
    MaxPuts = 2
    MaxJobs = 1
    MaxLate = 1
SYMMETRY NodeSymmetry
INVARIANTS
    Provenance
PROPERTIES
    ValidKept
    ImplementsBoard
CHECK_DEADLOCK FALSE
