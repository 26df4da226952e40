\* Two calls compete for three budget units, just enough for one full upload, and for one parse slot.
SPECIFICATION Spec
CONSTANTS
    Calls = {c1, c2}
    MaxDocument = 6
    MaxBufferedUpload = 1
    MaxChunk = 3
    MaxConcurrentParses = 1
    BudgetUnit = 2
    OutboundBuffer = 1
    IdleTimeout = 1
    UploadTimeout = 1
    DocumentCaps = {5}
    EmitDocument = {TRUE, FALSE}
    Chunks = {0, 1, 3, 4}
    MaxEvents = 2
SYMMETRY CallSymmetry
INVARIANTS
    BudgetConserved
    ShareCoversBuffer
    SlotsConserved
    NoIdleSlotWhileQueued
    MetricsBalance
    StreamWellFormed
    CleanEndAfterRelease
    TruncatedOnlyAfterStall
PROPERTIES
    RefusedOnlyUnderContention
CHECK_DEADLOCK FALSE
