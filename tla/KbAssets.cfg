SPECIFICATION Spec
CONSTANTS
  Assets = {a}
  Calls = {c1, c2, c3, c4}
  NoAsset = NoAsset
SYMMETRY Symmetry
INVARIANTS
  TypeOK
  StatusIsBacked
PROPERTY
  DeletionIsFinal
CHECK_DEADLOCK FALSE
