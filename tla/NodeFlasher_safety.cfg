SPECIFICATION FairSpec
CONSTANTS
  n1 = n1
  n2 = n2
  a1 = a1
  a2 = a2
  a3 = a3
  o1 = o1
  Gw = Gw
  None = None
  Node = {n1, n2}
  Own = {a1, a2, a3}
  Others = {o1}
  Upload <- MCUpload
  Wanted <- MCWanted
  N = 2
  MaxFaults = 2
INVARIANTS
  AckedIsOnTarget
  NodeUntouched
PROPERTY
  EventuallyUploaded
CHECK_DEADLOCK FALSE
