SPECIFICATION Spec
CONSTANTS
  q1 = q1
  q2 = q2
  q3 = q3
  m1 = m1
  m2 = m2
  m3 = m3
  Site = Site
  Window = 1
  MaxLevel = 2
  Cooldown <- TwoLevels
  ProbeTimeout = 1
  Requests <- TwoRequests
  Models <- ThreeModels
  Actual <- Redirected
  Threshold = 3
  MaxModels = 3
  BackgroundProbes = {}
  MaxRestarts = 0
SYMMETRY Symmetry
PROPERTY NoTrafficWhileOpen
