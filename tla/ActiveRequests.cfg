\* Three requests race for the slots of two accounts; the limit may change
\* among 0, 1 and 2 under them.
CONSTANTS
  Requests = {r1, r2, r3}
  Accounts = {a1, a2}
  Limits = {0, 1, 2}
  Absent = Absent
SPECIFICATION Spec
INVARIANTS
  TypeOK
  CountIsGuards
  WithinLimit
PROPERTY
  ImplementsConcurrencyLimit
