SPECIFICATION Spec
CONSTANTS
    Pod = {"a", "b", "w", "w2"}
    Candidate = {"a", "b"}
    NodeOf <- MCNodeOf
    Leader = "a"
    ClusterCIDR <- MCClusterCIDR
    TunnelCIDR <- MCTunnelCIDR
    Scenario <- MCScenario
INVARIANTS TypeOK 
 
CHECK_DEADLOCK FALSE
