SPECIFICATION MCSpec
CONSTANTS
    Hash = {h1}
    g1 = g1
    g2 = g2
    Caller <- MCCaller
    Request = {r1, r2}
    MaxInserts = 2
    MaxFaults = 1
    u1 = u1
    u2 = u2
    h2 = h2
    h3 = h3
    zip = zip
    c1 = c1
    c2 = c2
    e1 = e1
    none = none
SYMMETRY Symmetry
CHECK_DEADLOCK FALSE

INVARIANT FilesKept
INVARIANT PackagesTrue
INVARIANT ProfilesDelivered
