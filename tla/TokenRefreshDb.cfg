\* The repository is configured; time stands still, so that a token refreshed
\* once needs no refresh again.  Liveness is checked, hence no symmetry.
CONSTANTS
  Requests = {r1, r2}
  RefreshLocks = {l1, l2}
  REFRESH_BUFFER = 2
  Lifetime = 3
  InitialExpiries = {1}
  UseDb = TRUE
  OtherAccounts = TRUE
  MaxTime = 0
  MaxRotations = 1
  Revoked = Revoked
  Null = Null
SPECIFICATION FairSpec
PROPERTIES
  RotationPersisted
  RevokedStaysOut
