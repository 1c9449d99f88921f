SPECIFICATION RulesSpec
CONSTANTS
    Node = {root, n1, n2, n3, n4, n5, n6}
    Root = root
    Name = {"a", "b"}
    Operations = {}
    InitialTrees <- Packages
    Rules <- AllRules
    MaxRules = 2
CHECK_DEADLOCK FALSE
INVARIANTS RemoveIsExact 
PROPERTIES LostStaysLost
