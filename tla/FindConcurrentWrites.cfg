CONSTANTS
    c1 = c1
    c2 = c2
    r1 = r1
    r2 = r2
    Conns = {c1}
    Resizers = {}
    Tty = TRUE
    NoWriter = NoWriter
    MaxOut = 1
    Typists = {}
    Ticking = {}
    Pinged = {c1}
SPECIFICATION Spec
INVARIANTS
    OneWriterPerConnection
CHECK_DEADLOCK FALSE
