SPECIFICATION Spec
CONSTANTS
  Assets = {a}
  Calls = {c1}
  NoAsset = NoAsset
INVARIANT
  UploadIsRecorded
CHECK_DEADLOCK FALSE
