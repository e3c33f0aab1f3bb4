SPECIFICATION FairSpec
CONSTANTS
    Base = 2
    KeyLen = 4
    K = 2
    SelfID = 1
    Contacts <- MCContacts
    NoContact = NoContact
INVARIANTS
    TypeOK
    Partition
    Indexed
    Bounded
    ForgottenOnlyFromFullFarBucket
    BucketFound
PROPERTIES
    LiveContactStays
    LockReleased
    DeadContactEvicted
CHECK_DEADLOCK FALSE
