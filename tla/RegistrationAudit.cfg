SPECIFICATION Spec
CONSTANTS
  Reqs = {r1, r2}
  Emails = {a}
  NoOne = NoOne
INVARIANT
  ErrorsAreAudited
CHECK_DEADLOCK FALSE
