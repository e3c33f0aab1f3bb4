SPECIFICATION FairSpec
CONSTANTS
    n1 = n1
    n2 = n2
    n3 = n3
    n4 = n4
    Nodes = {n1, n2, n3, n4}
    Depth <- MCDepth
    K = 1
    Tables <- MCTables
    Calls = {1}
    Routes <- MCRoutes
    NoNode = NoNode
    NoHolder = NoHolder
    TaskNodes = {n1, n3}
    MaxTasks = 1
    MaxFaults = 1
INVARIANT
    NoAmplification
PROPERTY
    NobodyWaitsForever
CHECK_DEADLOCK FALSE
