SPECIFICATION Spec
CONSTANTS
    Bytes = {"char", "nl", "cont", "lead2"}
    BufferSize = 5
    MaxChunk = 3
    MaxBytes = 5
    Size = 2
    MaxWrites = 5
INVARIANTS
    SplitRunesSurvive
CHECK_DEADLOCK FALSE
