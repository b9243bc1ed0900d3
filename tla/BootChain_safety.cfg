SPECIFICATION FairSpec
CONSTANTS
  l1 = l1  l2 = l2  a1 = a1  a2 = a2  a3 = a3  n1 = n1
  LdrImages = {l1, l2}
  AppImages = {a1, a2, a3}
  AlienImages = {n1}
  HangImages = {l2, a2, a3}
  LockImages = {a3}
  Size <- MCSize
  NBlk = 3
  SectorOf <- MCSectorOf
  Sess = {s1, s2}
  BootDelay = 2
  MaxRequests = 3
  MaxFaults = 1
  Erased = Erased  Junk = Junk  NoImage = NoImage
INVARIANTS AlwaysBootable CachedVerdictCurrent
PROPERTIES TimeoutStartsApp LdrGetsItsTurn CleanTransferInstalls EventuallySettles Serviceable
\* The gateway is reactive: an application nobody talks to just runs.
CHECK_DEADLOCK FALSE
