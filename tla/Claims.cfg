SPECIFICATION FairSpec
CONSTANTS
    h1 = h1
    h2 = h2
    root = root
    Handlers = {h1, h2}
    Requests <- MCRequests
    Ask <- MCAsk
    Tokens = {"t"}
    Root = root
    NoKey = ""
    Pool = {1}
    Nothing = Nothing
    Engine = "sqlite"
    MaxFaults = 1
PROPERTIES
    ReplaysAgree
    HeldRetriesConverge
    RevocationBites
