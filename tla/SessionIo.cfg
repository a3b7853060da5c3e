CONSTANTS
    c1 = c1
    c2 = c2
    r1 = r1
    r2 = r2
    Conns = {c1, c2}
    Resizers = {}
    Tty = FALSE
    NoWriter = NoWriter
    MaxOut = 0
    Typists = {c1, c2}
    Ticking = {c1}
    Pinged = {}
SPECIFICATION InputSpec
PROPERTIES
    InputIsTaken
CHECK_DEADLOCK FALSE
