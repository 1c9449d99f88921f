SPECIFICATION Spec
CONSTANTS
    Package <- Order
    Udeb = {"data-udeb"}
    ArchAll = {"data-udeb"}
    NoDbgsym = {"lib"}
    SourceFile <- Sources
    Elf <- ElfFiles
    Installation <- Installations
    Detector <- Detectors
    MaxEdits = 2
CHECK_DEADLOCK FALSE
INVARIANTS SourceUntouched ShippedIsWhatWasFrozen DebugIsComplete ScriptsMirror KnownLibraries
