SPECIFICATION FairSpec
CONSTANTS
    LabelCount = 2
    Keys = {k1, k2}
    Backends <- MCBackends
    Shapes <- MCShapes
    Nothing = Nothing
    MaxUpsets = 3
PROPERTIES
    
    AgreedStays
    UserFieldsSurvive
    Converges
