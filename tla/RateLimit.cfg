SPECIFICATION FairSpec
CONSTANTS
  Reqs = {r1, r2, r3}
  Limit = 1
  MaxRetries = 1
  LastWindow = 1
INVARIANTS
  TypeOK
  LimitPerLife
  LimitPerWindow
  NoEarlyRefusal
  CounterHasTTL
PROPERTY
  CountersVanish
CHECK_DEADLOCK FALSE
