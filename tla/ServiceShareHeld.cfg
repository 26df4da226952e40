\* A failed parse whose client does not read.
SPECIFICATION FairSpec
CONSTANTS
    Calls = {c1}
    MaxDocument = 1
    MaxBufferedUpload = 2
    MaxChunk = 1
    MaxConcurrentParses = 1
    BudgetUnit = 1
    OutboundBuffer = 1
    IdleTimeout = 1
    UploadTimeout = 1
    DocumentCaps = {1}
    EmitDocument = {FALSE}
    Chunks = {1}
    MaxEvents = 1
PROPERTIES
    ShareGivenBack
CHECK_DEADLOCK FALSE
