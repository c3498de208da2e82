SPECIFICATION FairSpec
CONSTANTS
  v1 = v1
  v2 = v2
  d1 = d1
  d2 = d2
  NoVM = NoVM
  NoProc = NoProc
  VM = {v1, v2}
  Disk = {d1, d2}
  Proc = {p1, p2}
  InitDisks <- Disjoint
  MaxWaiting = 1
  AttachEdits = FALSE
  StopAllAllowed = FALSE
INVARIANT
  StoppedHoldsNothing
PROPERTIES
  StartLockReleased
  StopReturnsEventually
