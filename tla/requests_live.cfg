SPECIFICATION FairSpec
CONSTANTS
  VM = {v1, v2}
  Request = {r1, r2}
  NoVM = NoVM
  NoRequest = NoRequest
  AutoStart = {v1}
  Spelling <- OneSpelling
  MaxRestarts = 1
PROPERTIES
  RequestAnswered
CHECK_DEADLOCK FALSE
