SPECIFICATION FairSpec
CONSTANTS
    s1 = s1
    s2 = s2
    SI = {s1}
    NumIPs = 2
    MaxLag = 3
    Kinds = {"delete", "edit", "retype", "failure", "crash", "lease"}
    MaxDisturbances = 3
PROPERTIES
    VIPStable
    VIPUnlessExhausted
    HeadlessRecycled
