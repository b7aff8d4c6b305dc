SPECIFICATION Spec
CONSTANTS
  r1 = r1
  r2 = r2
  r3 = r3
  g1 = g1
  g2 = g2
  NoRequest = NoRequest
  Unknown = Unknown
  Requests <- ThreeRequests
  Gateways <- TwoGateways
  Keys <- AllKeys
  MaxTime <- Horizon
  MaxFaults = 1
  Serial = FALSE
  QuotaTTL = 0
  Estimates = {1}
  Usages = {1}
  MaxRecords = 1
  Minute = 0
CHECK_DEADLOCK FALSE
SYMMETRY Symmetry
INVARIANT TypeOK
INVARIANT WithinQuota
PROPERTY LossClosesKey
INVARIANT LocalWindowHolds
INVARIANT SharedWindowHolds
INVARIANT RefusedLeaveNoTrace
