SPECIFICATION Spec
CONSTANTS
    a = a
    b = b
    c = c
    Ids = {a, b}
    Builds <- PairBuilds
    MaxCopies = 2
INVARIANT UnsafeNeedsGuard
