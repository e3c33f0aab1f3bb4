SPECIFICATION FairSpec
CONSTANTS
    ChunkSize = 1
    NumChildren = 2
    NoInode = NoInode
    ReadError = ReadError
    p1 = p1
    p2 = p2
    p3 = p3
    Procs = {p1, p2, p3}
    Byte = {1, 2}
    Name = {"x", "y"}
    Trees <- MCTrees
    Disk <- MCDisk
    Paths <- MCPaths
    Commands <- MCCommands
    NoProc = NoProc
    MaxFaults = 1
INVARIANTS
    AddedReadable
    CatWhole
    StopAfterCall
PROPERTY
    CommandsEnd
CHECK_DEADLOCK FALSE
