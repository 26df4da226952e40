\* Every directory of up to three records, and entries whose headers lie, read up to three times.
SPECIFICATION Spec
CONSTANTS
    Archives <- AllArchives
    RawNames <- MCRawNames
    PathOf <- MCPathOf
    MaxEntries = 3
    MaxUncompressed = 4
    MaxRatio = 1
    RatioFloor = 2
    ReadChunk = 2
    MaxReads = 3
INVARIANTS
    SingleReading
    InflatedWithinCap
    AmplificationBounded
    BombsAreBombs
CHECK_DEADLOCK FALSE
