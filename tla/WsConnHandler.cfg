CONSTANTS
    c1 = c1
    c2 = c2
    w1 = w1
    w2 = w2
    Conns <- ConnsVal
    Writers <- WritersVal
    NoWriter = NoWriter
SPECIFICATION FairSpec
INVARIANTS
    TypeOK
    LiveConnRegistered
    ForgottenStaysForgotten
PROPERTIES
    LockIsReleased
    DownIsForgotten
CHECK_DEADLOCK FALSE
