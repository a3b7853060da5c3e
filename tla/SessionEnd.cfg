CONSTANTS
    c1 = c1
    c2 = c2
    r1 = r1
    r2 = r2
    Conns = {c1, c2}
    Resizers = {}
    Tty = TRUE
    NoWriter = NoWriter
    MaxOut = 0
    Typists = {}
    Ticking = {}
    Pinged = {}
SPECIFICATION EndSpec
PROPERTIES
    EndIsNotified
CHECK_DEADLOCK FALSE
