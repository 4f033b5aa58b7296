\* The claim of the text sent to the client.
CONSTANTS
  Requests = {r1}
  Accounts = {a1, a2}
  MAX_RETRY_ATTEMPTS = 3
  None = None
SPECIFICATION Spec
PROPERTY
  AllAccountsExhausted
