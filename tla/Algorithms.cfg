SPECIFICATION ASpec
CONSTANTS
    Odd <- MCOdd
    Bad = "bad"
    LabelMax = 8
    RawLabels <- MCRawLabels
    Tables_ <- MCTables
    Policies <- MCPolicies
    Hosts <- MCHosts
    ZoneLists <- MCZoneLists
    Zone <- MCZone
    RouteSets <- MCRouteSets
    Manifests <- MCManifests
    Orders <- MCOrders
INVARIANTS
    AvailabilityAgrees
    HostsHaveOneHome
    SilentMeansServed
    ClaimsCover
