\* The claim of the comment on the refresh lock, in the file-only deployment.
CONSTANTS
  Requests = {r1, r2}
  RefreshLocks = {l1, l2}
  REFRESH_BUFFER = 2
  Lifetime = 3
  InitialExpiries = {1}
  UseDb = FALSE
  OtherAccounts = TRUE
  MaxTime = 0
  MaxRotations = 1
  Revoked = Revoked
  Null = Null
SPECIFICATION Spec
PROPERTY
  NoHerd
