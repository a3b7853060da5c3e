CONSTANTS
    Idle = 80000
    Unit = 10000
    Environs <- MCEnvirons
    Contents <- MCContents
    Broken = Broken
    Path <- MCPath
    Stop = "project"
    Home = "home"
    Absent = Absent
    NoConfig = NoConfig
    MaxChanges = 2
    RetryPeriod = 2
    Subject = "tty"
    MaxScan = 0
SPECIFICATION Spec
INVARIANTS
    ConfigFollowsFile
CHECK_DEADLOCK FALSE
