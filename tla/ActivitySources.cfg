SPECIFICATION Spec
CONSTANTS
    Pids = {4, 5}
    Main = 2
    Shell = 3
    Terminals = {t1}
    NoTty = NoTty
    Nothing = Nothing
    Kinds <- MCKinds
    WatchFile <- MCWatchFile
    Window = 2
    Grace = 1
    MaxAge = 2
    Atime = TRUE
    maxDepth = 4
    CleanupAt = 1
    MaxTime = 3
    MaxTicks = 1
    MaxSpawns = 2
    ServerPids = {4}
    Threads = {h1, h2}
    MaxStarts = 2
    MaxChatter = 1
INVARIANTS
    TypeOK
    ActivityIsSeen
    CpuCacheBounded
    NoConnectionLeak
    AnswersMatch
PROPERTIES
    ActiveServerIsSeen
CHECK_DEADLOCK FALSE
