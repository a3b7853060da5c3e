CONSTANTS
    IdleTimeout = 3
    RunTimeout = 5
    RetryPeriod = 2
SPECIFICATION FairSpec
INVARIANTS
    TypeOK
    TimersInv
PROPERTIES
    StoppedForItsReason
    IdleIsStopped
    RunIsBounded
    SigtermEndsManagers
