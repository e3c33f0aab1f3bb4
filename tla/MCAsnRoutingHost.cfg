SPECIFICATION Spec
CONSTANTS
    Width = 3
    K = 2
    Hosts <- MCHosts
    Lines <- HostLines
    NotIPv4 = NotIPv4
    NoLine = NoLine
    NoPeer = NoPeer
    Requests = {1, 2}
    Remote <- MCRemote
    MaxLines = 2
    MaxUpdates = 1
INVARIANT
    MatchEndsAtLeaf
CHECK_DEADLOCK FALSE
