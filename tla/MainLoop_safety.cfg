SPECIFICATION MCSpec
CONSTANTS
  c0 = c0
  c1 = c1
  s0 = s0
  Channel = {c0, c1}
  Ch0 = c0
  adc_idx <- MCAdcIdx
  TIMEOUT_ON = 2
  LONGTERM = 4
  Wrap = 3
  MaxDuration = 4
  MaxMissed = 4
  TIME_ON = 2
  TIME_OFF = 2
  MaxPass = 3
  MaxHit = 3
  Unset = 255
  Id = {1, 255}
  DefaultId = 1
  TableRate = {800, 500, 0}
  ConsoleRate = {500, 5}
  DefaultRate = 500
  None = None
INVARIANTS
  SyncFollowsLoad
  QuietAfterTransfer
  OutletFollowsMains
  FailsOnlyByConsole
  NoIdleId
  FastscanSelectsMatch
PROPERTIES
  OverloadEnds
