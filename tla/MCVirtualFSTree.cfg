SPECIFICATION Spec
CONSTANTS
    Node = {root, n1, n2, n3}
    Root = root
    Name = {"a", "b"}
    Operations <- TreeOperations
CHECK_DEADLOCK FALSE
INVARIANT AttachedIsPresent
PROPERTIES RemovedPathIsRemembered ImplementsPackageTree
