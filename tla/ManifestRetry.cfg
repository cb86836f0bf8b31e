SPECIFICATION Spec
CONSTANTS
  none = none
  p1 = p1
  p2 = p2
  a = a
  b = b
  b_ = b_
  Nothing = none
  Assets = {"logo"}
  Bundles <- MCBundles
  Files <- MCFiles
  Clients = {p1}
  Labels <- MCLabels
  Norm <- MCNorm
  MaxApplies = 3
  MaxUpsets = 1
INVARIANT RetryServes
CHECK_DEADLOCK FALSE
