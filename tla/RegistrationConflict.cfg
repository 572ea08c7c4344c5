SPECIFICATION Spec
CONSTANTS
  Reqs = {r1, r2}
  Emails = {a}
  NoOne = NoOne
INVARIANT
  ConflictIs409
CHECK_DEADLOCK FALSE
