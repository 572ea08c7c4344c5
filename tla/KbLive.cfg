SPECIFICATION FairSpec
CONSTANTS
  Assets = {a}
  Calls = {c1, c2, c3}
  NoAsset = NoAsset
PROPERTIES
  JobsEnd
  ProcessingEnds
CHECK_DEADLOCK FALSE
