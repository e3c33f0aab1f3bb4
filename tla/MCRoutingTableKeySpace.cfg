SPECIFICATION Spec
CONSTANTS
    Base = 2
    KeyLen = 4
    K = 2
    SelfID = 1
    Contacts <- FewContacts
    NoContact = NoContact
INVARIANTS
    EveryKeyHasBucket
CHECK_DEADLOCK FALSE
