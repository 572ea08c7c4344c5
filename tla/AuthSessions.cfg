SPECIFICATION Spec
CONSTANTS
  Users = {u1, u2}
  Reqs = {r1, r2, r3, r4}
  NoUser = NoUser
  NoRid = NoRid
  MaxRetries = 0
  MaxFailures = 1
SYMMETRY Symmetry
CONSTRAINT CalmAccounts
INVARIANTS
  TypeOK
  SingleChain
  NoReplay
  StaleNeverAccepted
  LogoutEndsSession
PROPERTY ImplementsSingleSession
CHECK_DEADLOCK FALSE
