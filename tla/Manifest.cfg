SPECIFICATION Spec
CONSTANTS
  none = none
  p1 = p1
  p2 = p2
  a = a
  b = b
  b_ = b_
  Nothing = none
  Assets = {"logo"}
  Bundles <- MCBundles
  Files <- MCFiles
  Clients <- MCClients
  Labels <- MCLabels
  Norm <- MCNorm
  MaxApplies = 2
  MaxUpsets = 1
SYMMETRY Symmetry
INVARIANTS
  CatalogWhole
  SuccessConforms
PROPERTIES
  IdentitiesStay
  OnlyOwn
  ServedThroughout
  RefusedForCause
CHECK_DEADLOCK FALSE
