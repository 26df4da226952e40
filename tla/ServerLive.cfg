\* Two calls and a signal; nothing is promised for the clients, save where a property says so.
SPECIFICATION FairServer
CONSTANTS
    Calls = {c1, c2}
    MaxDocument = 1
    MaxBufferedUpload = 2
    MaxChunk = 1
    MaxConcurrentParses = 1
    BudgetUnit = 1
    OutboundBuffer = 1
    IdleTimeout = 1
    UploadTimeout = 2
    DocumentCaps = {1}
    EmitDocument = {FALSE}
    Chunks = {1}
    MaxEvents = 1
INVARIANTS
    FinalLineTells
PROPERTIES
    EveryCallEnds
    UploadEnds
    ParseThreadFreed
    ShutdownCompletes
CHECK_DEADLOCK FALSE
