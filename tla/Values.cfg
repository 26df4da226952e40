\* Every environment and call, path and day of small sets.
CONSTANTS
    Mib = 4
    Word64 = 256
    Word32 = 16
    BudgetUnit = 2
    MaxPermits = 128
    Environments <- MCEnvironments
    ParseOptions <- MCParseOptions
    Tokens <- MCTokens
    BaseDirs <- MCBaseDirs
    MaxPathBytes = 8
    MaxTokens = 5
    Starts <- MCStarts
    WalkYears = 9
SPECIFICATION Spec
INVARIANTS
    LimitsAgree
    PathsAgree
    DatesAgree
\* The document is read, the calendar is walked.
CHECK_DEADLOCK FALSE
