SPECIFICATION Spec
CONSTANTS
    Pod = {"a", "b", "w"}
    Candidate = {"a", "b"}
    NodeOf <- MCNodeOf
    Leader = "a"
    ClusterCIDR <- MCClusterCIDR
    TunnelCIDR <- MCTunnelCIDR
    Scenario <- MCLeaderScenario
PROPERTY ReconnectsToLeader
CHECK_DEADLOCK FALSE
