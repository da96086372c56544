SPECIFICATION TrackerSpec
CONSTANTS
    s = s
    x = x
    y = y
    NoObject = NoObject
    NoIP = NoIP
    Service = {s}
    Slice = {x, y}
    ServiceOf <- MCServiceOf
    KeyOf <- OneKey
    Imports <- MCImports
    SliceObjects <- MCSlices
INVARIANTS
    TypeOK
    PortsMatched
PROPERTIES
    ImplementsView
