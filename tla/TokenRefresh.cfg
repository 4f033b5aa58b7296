\* Two requests refresh one account kept in a file; the pool has other
\* accounts.  Two ticks pass, so that a refreshed token is due again.
CONSTANTS
  Requests = {r1, r2}
  RefreshLocks = {l1, l2}
  REFRESH_BUFFER = 2
  Lifetime = 3
  InitialExpiries = {2}
  UseDb = FALSE
  OtherAccounts = TRUE
  MaxTime = 2
  MaxRotations = 1
  Revoked = Revoked
  Null = Null
SPECIFICATION Spec
SYMMETRY Symmetry
INVARIANTS
  TypeOK
  HandedOutAlive
  OneRefresher
