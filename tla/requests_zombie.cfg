SPECIFICATION Spec
CONSTANTS
  VM = {v1}
  Request = {r1, r2}
  NoVM = NoVM
  NoRequest = NoRequest
  AutoStart = {}
  Spelling <- OneSpelling
  MaxRestarts = 1
PROPERTIES
  FailedIsFinal
CHECK_DEADLOCK FALSE
