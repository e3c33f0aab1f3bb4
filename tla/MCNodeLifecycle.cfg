SPECIFICATION FairSpec
CONSTANT
    Stoppers = {s1, s2, s3}
INVARIANTS
    NoChannelPanic
    StopWaitsForShutdown
PROPERTIES
    NoWorkAfterShutdown
    StopReturns
    PortReleased
CHECK_DEADLOCK FALSE
