\* One request goes through all handlers, three accounts, of which at most
\* three are tried; the pool and the locks change at any time.
CONSTANTS
  Requests = {r1}
  Accounts = {a1, a2, a3}
  MAX_RETRY_ATTEMPTS = 3
  None = None
SPECIFICATION FairSpec
INVARIANTS
  TypeOK
  CallsBounded
  AttemptsAreAccounts
PROPERTY
  RequestEnds
