CONSTANTS
    Package <- MCPackage
    Dir <- MCDir
    DefaultDirs <- MCDefaultDirs
    SourceRoot = "."
    RequestSpace <- MCRequests
SPECIFICATION Spec
INVARIANTS PackageSeesItsList CircularMeansKnot
PROPERTIES TopologicalSpec Termination
