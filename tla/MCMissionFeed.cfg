SPECIFICATION Spec
CONSTANTS
    Client = {u1}
    Content = {c1, c2}
    Item = {i1, i2}
    Request = {r1, r2}
    MaxLog = 4
    MaxFaults = 1
    MaxMixed = 3
SYMMETRY Symmetry

INVARIANT StateFollowsChanges
 
INVARIANT NewestTold
