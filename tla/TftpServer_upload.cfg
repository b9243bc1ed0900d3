SPECIFICATION FairSpec
CONSTANTS
  w1 = w1
  r1 = r1
  s1 = s1
  s2 = s2
  s3 = s3
  None = None
  Writers = {w1}
  Readers = {r1}
  Sess = {s1, s2}
  PoolSize = 2
  N = 3
  EmptyLast = FALSE
  Positions = 4
  SectorOf <- MCSectorOf
  DupTypes = {"DATA", "SACK", "CACK"}
  WriteMayFail = TRUE
  ClientMayAbort = FALSE
PROPERTIES
  UploadImplements
  TransfersEnd
CHECK_DEADLOCK FALSE
