SPECIFICATION FairSpec
CONSTANTS
    a = a
    b = b
    odd = odd
    Containers = {c1, c2}
    Reservations = {r1}
    Standing = {c1}
    Labels = {a, b}
    Spellings = {a, b, odd}
    Norm <- MCNorm
    Nothing = Nothing
    MaxUpsets = 3
PROPERTIES
    OthersUntouched
    LiveKept
    Converges
