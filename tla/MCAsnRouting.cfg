SPECIFICATION FairSpec
CONSTANTS
    Width = 3
    K = 2
    Hosts <- MCHosts
    Lines <- MCLines
    NotIPv4 = NotIPv4
    NoLine = NoLine
    NoPeer = NoPeer
    Requests = {1, 2}
    Remote <- MCRemote
    MaxLines = 2
    MaxUpdates = 1
INVARIANTS
    MatchesLongestPrefix
    StaysLocal
PROPERTIES
    RequestsAnswered
CHECK_DEADLOCK FALSE
