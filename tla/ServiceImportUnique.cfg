SPECIFICATION Spec
CONSTANTS
    s1 = s1
    s2 = s2
    SI <- MCSI
    NumIPs = 2
    MaxLag = 3
    Kinds = {"delete", "edit"}
    MaxDisturbances = 2
INVARIANTS
    UniqueVIP
