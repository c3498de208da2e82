SPECIFICATION DisksSpec
CONSTANTS
  NoVM = NoVM
  NoOp = NoOp
  VM = {v1, v2}
  Disk = {d1}
  Op = {o1, o2}
  DiskID = {1, 2}
  DiskCall = {o1, o2}
  DiskImage = {"image"}
  NewSize = {1}
  ImageSize = {2}
  MaxImage = 2
  BlockSize = 1
  Wide = 3
SYMMETRY Symmetry
CONSTRAINT OneCallLater
INVARIANTS
  DisksTypeOK
  OneUser
  AttachedOnce
  RunningIsStored
  ContentAsTold
