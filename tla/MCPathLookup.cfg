SPECIFICATION LookupSpec
CONSTANTS
    n1 = n1
    n2 = n2
    n3 = n3
    Node = {root, n1, n2, n3, n4, n5, n6, n7, n8}
    Root = root
    Name = {"a", "b"}
    Operations = {"mkdir"}
    FileSystems <- SmallFileSystems
    Requests <- SmallRequests
CHECK_DEADLOCK FALSE
INVARIANTS LookupIsRight MkdirsIsRight
PROPERTIES Termination
