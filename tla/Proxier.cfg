CONSTANTS
    s = s
    t = t
    x = x
    y = y
    Service = {s, t}
    Slice = {x, y}
    ServiceOf <- MCServiceOf
    KeyOf <- MCKeyOf
    NoObject = NoObject
    NoIP = NoIP
    Imports <- MCImports
    SliceObjects <- MCSlices
    InitialImports <- MCInitialImports
    InitialSlices <- MCInitialSlices
    InitialServers <- MCInitialServers
    ImportsOf <- MCImportsOf
    SlicesOf <- MCSlicesOf
    NoDevice = NoDevice
    Unread = Unread
    Kinds = {"import", "slice", "failure", "crash", "cleanup"}
    MaxDisturbances = 3
SPECIFICATION Spec
INVARIANTS
    ProxierTypeOK
    TerminationSound
PROPERTIES
    
    KernelConverges
