\* A navigation document whose anchors hold spans.
SPECIFICATION Spec
CONSTANTS
    NavTags <- MCNavTags
    NcxTags <- MCNcxTags
    Files <- MCFiles
    EntryCaps = {1, 2}
    MaxDepth = 2
    SmilTags <- MCSmilTags
    SmilFiles <- MCFiles
    MaxCues = 2
    ContainerTags <- MCContainerTags
    EncryptionTags <- MCEncryptionTags
    PackageTags <- MCPackageTags
    References <- MCReferences
    Lengths <- NavLengths
    Shorter = 2
INVARIANTS
    FirstTitleWins
\* The document ends.
CHECK_DEADLOCK FALSE
