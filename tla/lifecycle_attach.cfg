SPECIFICATION Spec
CONSTANTS
  v1 = v1
  v2 = v2
  d1 = d1
  d2 = d2
  NoVM = NoVM
  NoProc = NoProc
  VM = {v1, v2}
  Disk = {d1}
  Proc = {p1, p2}
  InitDisks <- AnyDisjoint
  MaxWaiting = 1
  AttachEdits = TRUE
  StopAllAllowed = FALSE
INVARIANTS
  OneProcessPerVM
  LaunchedDisksFrozen
  NoSharedDisk
  StoppedMeansNoProcess
  LocksCoverProcess
  NoUnlockOfUnlocked
SYMMETRY FullSymmetry
CHECK_DEADLOCK FALSE
