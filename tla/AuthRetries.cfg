SPECIFICATION Spec
CONSTANTS
  Users = {u1}
  Reqs = {r1, r2, r3}
  NoUser = NoUser
  NoRid = NoRid
  MaxRetries = 1
  MaxFailures = 3
SYMMETRY Symmetry
PROPERTY ImplementsSingleSession
CHECK_DEADLOCK FALSE
