SPECIFICATION FairSpec
CONSTANTS
  Instances = {i1, i2}
  NumRows = 2
  admin = admin
  ann = ann
  ws = ws
  Links <- MCDefaults
  Defaults <- MCDefaults
  Requests = {r1, r2}
  Users = {ann, root}
  Supers = {root}
  NoUser = NoUser
  Roles <- MCRoles
  Scopes = {global, ws}
  Global = global
  Manage = manage
  Asked <- MCAsked
INVARIANTS
  TypeOK
  SyncNeverCollides
  ServesSeeded
  EffectsAddUp
PROPERTIES
  NobodyLetsThemselvesIn
  ImplementsGrantTable
  StartsEnd
CHECK_DEADLOCK FALSE
