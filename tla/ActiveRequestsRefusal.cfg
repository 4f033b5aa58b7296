\* The same instance with the claim of try_new's comment.
CONSTANTS
  Requests = {r1, r2}
  Accounts = {a1}
  Limits = {1, 2}
  Absent = Absent
SPECIFICATION Spec
PROPERTY
  RefusedOnlyWhenFull
