CONSTANTS
  Requests = {r1, r2}
  Accounts = {a1, a2}
  Ultra = {a2}
  MaxConcurrent = 1
  Affinity = TRUE
  Threshold = 1
  LockKinds = {"model", "short"}
  RestraintKinds = {"overused"}
  None = None
SPECIFICATION Spec
SYMMETRY Symmetry
INVARIANTS
  TypeOK
  GuardFollowsChoice
PROPERTIES
  NeverAgain
  UsableMeansServed
