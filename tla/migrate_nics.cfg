SPECIFICATION MigSpec
CONSTANTS
  MigVM = {v1, v2}
  Item = {1}
INVARIANT
  NicsSurvive
CHECK_DEADLOCK FALSE
