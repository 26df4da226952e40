\* Every book of up to two chapters, one resource and two overlays, the stream cut anywhere.
CONSTANTS
    Infos <- MCInfos
    Tocs <- MCTocs
    Hrefs <- MCHrefs
    Primaries <- MCPrimaries
    EndTimes <- MCEndTimes
    Dates <- MCDates
    Languages <- MCLanguages
    Hash = 7
    MaxChapters = 2
    MaxResources = 1
    MaxOverlays = 2
SPECIFICATION Spec
INVARIANTS
    MergeSafe
    TellsWhatWasDelivered
    OutlineResolves
    CuesReachTheirChapter
    CreditsKept
CHECK_DEADLOCK FALSE
