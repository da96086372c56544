SPECIFICATION FairSpec
CONSTANTS
    x1 = x1
    x2 = x2
    Slice <- MCSlice
    MaxVersion = 2
    MaxLag = 2
    Kinds = {"delete", "service", "failure", "crash", "lease"}
    MaxDisturbances = 2
INVARIANTS
    TypeOK
    HubFollows
    NoHubOrphans
PROPERTIES
    HubMonotone
    ExportConverges
    RecycledWithService
