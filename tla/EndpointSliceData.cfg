SPECIFICATION Spec
CONSTANTS
    p1 = p1
    p2 = p2
    p3 = p3
    n1 = n1
    n2 = n2
    NoZone = "none"
    Pod = {p1, p2, p3}
    NoAddr = "none"
    NoPorts = "none"
    MaxEndpoints = 2
    Node = {n1, n2}
    SliceId = {1, 2, 3, 4, 5, 6}
    ServiceStates <- DataServices
    PodStates <- DataPods
    InitialServices <- DataInitialServices
    InitialPods <- DataInitial
    InitialNodes <- DataInitialNodes
    NodeStates <- DataNodes
    MaxUid = 1
    MaxLag = 1
    MaxRetries = 1
    Calm = TRUE
    Kinds = {"pod", "node", "service", "failure"}
    MaxDisturbances = 2
CHECK_DEADLOCK FALSE
INVARIANTS
    
    
    WritesBounded
PROPERTIES
    ConvergesUnlessBlocked
