SPECIFICATION FairSpec
CONSTANTS
    h1 = h1
    h2 = h2
    o1 = o1
    o2 = o2
    z1 = z1
    z2 = z2
    la = la
    lb = lb
    Handlers = {h1, h2}
    ZoneNames = {z1}
    Labels = {la, lb}
    Blocked = {lb}
    Owners = {o1}
    Admin = Admin
    Nobody = Nobody
    NoRow = NoRow
    Engine = "sqlite"
    Requests = {"commit", "rename", "release", "renew", "patch"}
    Creds = {Admin}
    ClaimForms <- MCForms
    PatchStates = {"suspended", "pending"}
    HoldTTL = 1
    MaxClaims = 2
    MaxZoneId = 2
    MaxTime = 3
INVARIANTS
    UniqueName
    ZoneLive
    FqdnFollowsLabel
PROPERTIES
    HoldsEnd
