SPECIFICATION TrackerSpec
CONSTANTS
    s = s
    x = x
    y = y
    NoObject = NoObject
    NoIP = NoIP
    Service = {s}
    Slice = {x, y}
    ServiceOf <- MCServiceOf
    KeyOf <- TwoKeys
    Imports <- MCImports
    SliceObjects <- FewSlices
INVARIANTS
    EndpointsMerged
