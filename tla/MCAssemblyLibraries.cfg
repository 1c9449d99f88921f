SPECIFICATION Spec
CONSTANTS
    Package <- Order
    Udeb = {"data-udeb"}
    ArchAll = {"data-udeb"}
    NoDbgsym = {"lib"}
    SourceFile <- Sources
    Elf <- ElfFiles
    Installation <- Installations
    Detector <- Detectors
    MaxEdits = 0
CHECK_DEADLOCK FALSE
INVARIANTS LibrariesAreFound
