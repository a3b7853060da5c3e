CONSTANTS
    c1 = c1
    c2 = c2
    p1 = p1
    p2 = p2
    Clients = {c1, c2}
    Pods = {p1, p2}
    Cluster <- MCCluster
    Wanted <- MCWanted
    Unsafe <- MCUnsafe
    AuthEnabled = TRUE
    Fickle = {c1}
    MaxExecs = 1
    MaxRequests <- MCMaxRequests
SPECIFICATION FairSpec
INVARIANTS
    TypeOK
    NoPanic
    AnsweredOnce
PROPERTIES
    ImplementsContract
    RequestIsAnswered
    EndsAreNotified
CHECK_DEADLOCK FALSE
