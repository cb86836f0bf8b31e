SPECIFICATION FairSpec
CONSTANTS
    host = host
    Hosts = {host}
    Nothing = Nothing
    Interval = 1
    Grace = 2
    MaxUpsets = 4
INVARIANTS
    TypeOK
PROPERTIES
    RetiresOnlyMissing
    ServedStays
    Converges
