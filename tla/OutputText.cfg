SPECIFICATION Spec
CONSTANTS
    Bytes = {"nl", "cont", "leadFFFD", "lead4", "bad"}
    BufferSize = 5
    MaxChunk = 4
    MaxBytes = 5
    Size = 2
    MaxWrites = 5
INVARIANTS
    TypeOK
    OutputIsText
    OnlyReplaces
    TextComesThrough
    ReplayIsWhatWasSent
CHECK_DEADLOCK FALSE
