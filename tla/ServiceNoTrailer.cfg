\* A client that resumes reading after the stall timeout.
SPECIFICATION Spec
CONSTANTS
    Calls = {c1}
    MaxDocument = 1
    MaxBufferedUpload = 2
    MaxChunk = 1
    MaxConcurrentParses = 1
    BudgetUnit = 1
    OutboundBuffer = 1
    IdleTimeout = 1
    UploadTimeout = 1
    DocumentCaps = {1}
    EmitDocument = {FALSE}
    Chunks = {1}
    MaxEvents = 1
INVARIANTS
    OkMeansTrailer
CHECK_DEADLOCK FALSE
