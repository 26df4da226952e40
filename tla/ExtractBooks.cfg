\* Broken headers and spines, shared and obfuscated entries, entries read ahead, fallback chains of every shape.
SPECIFICATION FairSpec
CONSTANTS
    Books <- AllBooks
    Options <- MCOptions
    MaxWarnings = 3
    MaxFallbackChain = 3
INVARIANTS
    RefusedBeforeInfo
    WalkOrder
    ObfuscatedNeverSent
    StatusTells
    PrereadReturned
    InflatedPerSending
    ChaptersReadable
PROPERTIES
    KeepsContract
    ParseEnds
\* The parse ends.
CHECK_DEADLOCK FALSE
