SPECIFICATION Spec
CONSTANTS
    a = a
    b = b
    c = c
    Ids = {a, b, c}
    Builds <- ChainBuilds
    MaxCopies = 2
INVARIANTS
    NoDanglingTable
    HoldersOrdered
