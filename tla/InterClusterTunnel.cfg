SPECIFICATION Spec
CONSTANTS
    Child = {"c1", "c2"}
    Public = {}
    SpecCIDR <- MCSpecCIDR
    Settled <- MCSettled
    Network <- MCNetwork
    Started = {"hub", "c2"}
    Disturbed = {"hub", "c1"}
    Kinds = {"failure", "crash", "leave", "relist"}
    MaxDisturbances = 2
CHECK_DEADLOCK FALSE
INVARIANTS
    TypeOK
    NoOverlapUnlessDropped
    BlockKept
PROPERTIES
    OutsideOnlyWhenFull
    JoinedUnlessSkipped
    LeftForgotten
