SPECIFICATION Spec
CONSTANTS
  VM = {v1}
  Request = {r1, r2, r3}
  NoVM = NoVM
  NoRequest = NoRequest
  AutoStart = {v1}
  Spelling <- BothSpellings
  MaxRestarts = 1
SYMMETRY RequestSymmetry
INVARIANTS
  TypeOK
  HandlerExclusion
  DeletedIsGone
  ListMatchesRows
PROPERTY PromiseKept
CHECK_DEADLOCK FALSE
