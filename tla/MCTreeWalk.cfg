SPECIFICATION WalkSpec
CONSTANTS
    Node = {root, n1, n2, n3}
    Root = root
    Name = {"a", "b"}
    Operations <- WalkOperations
    Walkers <- BothWalkers
    NameOrder <- TwoNames
    MaxChanges = 2
CHECK_DEADLOCK FALSE
INVARIANTS StayersSeenOnce PathIsAccurate
PROPERTIES YieldedIsAttached WalkEnds
