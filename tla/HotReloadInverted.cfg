SPECIFICATION Spec
CONSTANTS
    a = a
    b = b
    c = c
    Ids = {a, b}
    Builds <- InvertedBuilds
    MaxCopies = 2
INVARIANT HoldersOrdered
