SPECIFICATION Spec
CONSTANTS
    p1 = p1
    p2 = p2
    p3 = p3
    n1 = n1
    n2 = n2
    NoZone = "none"
    Pod = {p1, p2, p3}
    NoAddr = "none"
    NoPorts = "none"
    MaxEndpoints = 2
    Node = {n1}
    SliceId = {1, 2, 3, 4, 5}
    ServiceStates <- ProtocolServices
    PodStates <- ProtocolPods
    InitialServices <- ProtocolInitialServices
    InitialPods <- ProtocolInitial
    InitialNodes <- ProtocolInitialNodes
    NodeStates <- ProtocolNodes
    MaxUid = 2
    MaxLag = 2
    MaxRetries = 1
    Calm = FALSE
    Kinds = {"pod", "service", "delete", "clear", "finalizer", "failure", "terminating", "lost", "relist", "crash"}
    MaxDisturbances = 2
CHECK_DEADLOCK FALSE
INVARIANTS
    TypeOK
    TrackerSound
    NoDuplicateEndpoint
    NotOverfull
PROPERTIES
    OldOwnerUntouched
    ConvergesUnlessBlocked
