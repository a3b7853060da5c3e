CONSTANTS
    c1 = c1
    c2 = c2
    r1 = r1
    r2 = r2
    Conns = {c1, c2}
    Resizers = {r1}
    Tty = TRUE
    NoWriter = NoWriter
    MaxOut = 1
    Typists = {}
    Ticking = {}
    Pinged = {}
SPECIFICATION Spec
SYMMETRY Symmetry
INVARIANTS
    TypeOK
    NotificationTruthful
    NoOutputLost
PROPERTIES
    ImplementsLifecycle
CHECK_DEADLOCK FALSE
