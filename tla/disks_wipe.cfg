SPECIFICATION Spec
CONSTANTS
  NoVM = NoVM
  NoOp = NoOp
  VM = {v1, v2}
  Disk = {d1}
  Op = {o1, o2}
SYMMETRY Symmetry
INVARIANT
  WipeSparesVMs
