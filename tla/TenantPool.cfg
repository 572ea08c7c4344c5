SPECIFICATION FairSpec
CONSTANTS
  Requests = {r1, r2}
  MaxConns = 2
  AppCodes = {401}
  Workspaces = {w1}
  NoWorkspace = NoWorkspace
  MaxTransactions = 2
  Fresh = Fresh
  Closed = Closed
INVARIANTS
  TypeOK
  TenantsAreServed
  OneConnectionCarriesLatest
  ConnectionsAreKept
  ErrorsLeaveRows
PROPERTIES
  RequestsEnd
CHECK_DEADLOCK FALSE
