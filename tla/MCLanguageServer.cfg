SPECIFICATION Spec
CONSTANTS
    Uri = {changelog, control, readme}
    Text <- Texts
    DiskText <- CleanOnDisk
    Unhandled = {readme}
    Linted = {control}
    VersionsRestart = FALSE
    Index <- Packages
    LoadFaults = {"tooling", "failed", "unexpected"}
    MaxMessages = 3
CHECK_DEADLOCK FALSE
INVARIANTS PublishedMatchesVersion HoverIsRight
PROPERTIES PublicationsAdvance Settles
