\* Tables of contents, overlays, META-INF and package documents of every shape.
SPECIFICATION Spec
CONSTANTS
    NavTags <- MCNavTags
    NcxTags <- MCNcxTags
    Files <- MCFiles
    EntryCaps = {1, 2}
    MaxDepth = 2
    SmilTags <- MCSmilTags
    SmilFiles <- MCFiles
    MaxCues = 2
    ContainerTags <- MCContainerTags
    EncryptionTags <- MCEncryptionTags
    PackageTags <- MCPackageTags
    References <- MCReferences
    Lengths <- MCLengths
    Shorter = 2
INVARIANTS
    OutlineIsWritten
    OverlayIsRead
    CapsHold
    MetaInfIsRead
    PackageIsRead
\* The document ends.
CHECK_DEADLOCK FALSE
