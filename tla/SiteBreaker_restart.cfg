SPECIFICATION FairSpec
CONSTANTS
  q1 = q1
  q2 = q2
  q3 = q3
  m1 = m1
  m2 = m2
  m3 = m3
  Site = Site
  Window = 0
  MaxLevel = 1
  Cooldown <- TwoLevels
  ProbeTimeout = 0
  Requests <- TwoRequests
  Models <- TwoModels
  Actual <- Itself
  Threshold = 2
  MaxModels = 1
  BackgroundProbes = {"success"}
  MaxRestarts = 1
INVARIANT HalfOpenIsElapsed
PROPERTY ThreeStates
PROPERTY NoTrafficWhileOpen
PROPERTY NeverIsolated
