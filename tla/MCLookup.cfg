SPECIFICATION FairSpec
CONSTANTS
    K = 3
    Alpha = 2
    Contacts <- MCContacts
    Dist <- MCDist
    Local <- MCLocal
    Knows <- MCKnows
    Holders <- MCHolders
    Dead = {}
    NoContact = NoContact
INVARIANTS
    ListOrdered
    ResultAnswered
    ClosestReturned
    PeersReturned
    CachedAtClosestGap
PROPERTIES
    AskedOnce
    UnreachableRemoved
    Termination
CHECK_DEADLOCK FALSE
