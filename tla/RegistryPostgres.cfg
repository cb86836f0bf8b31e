SPECIFICATION Spec
CONSTANTS
    h1 = h1
    h2 = h2
    o1 = o1
    o2 = o2
    z1 = z1
    z2 = z2
    la = la
    lb = lb
    Handlers = {h1, h2}
    ZoneNames = {z1, z2}
    Labels = {la, lb}
    Blocked = {lb}
    Owners = {o1, o2}
    Admin = Admin
    Nobody = Nobody
    NoRow = NoRow
    Engine = "postgres"
    Requests = {"commit", "rename", "release"}
    Creds = {o1}
    ClaimForms <- MCForms
    PatchStates = {}
    HoldTTL = 1
    MaxClaims = 2
    MaxZoneId = 2
    MaxTime = 1
INVARIANTS
    PolicyHeld
PROPERTIES
    OwnerScope
    ImplementsNamespace
SYMMETRY Symmetry
\* The bound on zone ids stops the system once every zone is deleted.
CHECK_DEADLOCK FALSE
