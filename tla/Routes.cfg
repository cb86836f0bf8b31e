SPECIFICATION TFairSpec
CONSTANTS
    h1 = h1
    h2 = h2
    dev = dev
    app = app
    pr = pr
    other = other
    Star = Star
    NoAlloc = NoAlloc
    DnsLabels = {dev, app, pr, other}
    Handlers = {h1, h2}
    a1 = a1
    a2 = a2
    a3 = a3
    Allocs = {a1, a2, a3}
    Name <- MCName
    Wild <- MCWild
    Listen <- MCListen
    RequestHosts <- MCHosts
    Ports = {443, 5173}
    MaxMutations = 2
    MaxErrors = 1
INVARIANTS
    MostSpecific
PROPERTIES
    CatchesUp
