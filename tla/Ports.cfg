SPECIFICATION FairSpec
CONSTANTS
    c1 = c1
    c2 = c2
    o1 = o1
    o2 = o2
    o3 = o3
    Claimers = {c1, c2}
    Owners = {o1, o2, o3}
    Unset = Unset
    RangeStart = 2
    RangeEnd = 4
    Avoid = {3}
    Squatters = {2}
    MaxReleases = 1
INVARIANTS
    UniqueValue
    Sticky
    NoFalseExhaustion
PROPERTIES
    ClaimsEnd
