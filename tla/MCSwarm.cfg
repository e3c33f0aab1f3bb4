SPECIFICATION FairSpec
CONSTANTS
    Daemons = {"d1", "d2"}
    IP <- MCIP
    CIDs <- MCCIDs
    Links <- MCLinks
    Calls = {"up", "down"}
    Owner <- MCOwner
    Sem = 1
    Times = {1}
INVARIANTS
    AnnouncedStored
    DownloadComplete
    UploadComplete
PROPERTY
    CallReturns
CHECK_DEADLOCK FALSE
