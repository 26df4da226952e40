CONSTANTS
    Infos <- MCInfos
    Tocs <- MCTocs
    Hrefs <- MCHrefs
    Primaries <- MCPrimaries
    EndTimes <- MCEndTimes
    Dates <- MCDates
    Languages <- MCLanguages
    Hash = 7
    MaxChapters = 2
    MaxResources = 1
    MaxOverlays = 2
SPECIFICATION Spec
INVARIANTS
    EntryFindsItsChapter
CHECK_DEADLOCK FALSE
