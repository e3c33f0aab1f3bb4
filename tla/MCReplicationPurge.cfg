SPECIFICATION FairSpec
CONSTANTS
    Nodes = {n1, n2}
    Keys = {k1}
    Peers = {p1}
    Askers = {}
    Putters = {u1}
    K = 1
    Expiry = 0
    MaxTime = 1
    MaxPuts = 2
    MaxJobs = 4
    MaxLate = 1
INVARIANT
    OnlyUploadedKeys
PROPERTIES
    Purged
CHECK_DEADLOCK FALSE
