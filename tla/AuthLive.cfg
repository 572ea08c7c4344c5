SPECIFICATION OrderlySpec
CONSTANTS
  Users = {u1}
  Reqs = {1, 2, 3}
  NoUser = NoUser
  NoRid = NoRid
  MaxRetries = 1
  MaxFailures = 3
PROPERTIES
  EveryRequestAnswered
  ClosedSessionsVanish
CHECK_DEADLOCK FALSE
