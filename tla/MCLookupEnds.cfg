SPECIFICATION FairSpec
CONSTANTS
    K = 3
    Alpha = 2
    Contacts <- TwoContacts
    Dist <- MCDist
    Local <- TwoLocal
    Knows <- TwoKnows
    Holders = {}
    Dead <- TwoDead
    NoContact = NoContact
PROPERTIES
    Termination
CHECK_DEADLOCK FALSE
