SPECIFICATION Spec
CONSTANTS
  r1 = r1
  r2 = r2
  g1 = g1
  g2 = g2
  Requests <- TwoRequests
  Gateways <- TwoGateways
  Estimates = {2}
  Multipliers = {1, 3}
  Usages = {3}
  Limits = {4}
  Scale = 2
  MaxUnits = 6
  MaxAttempts = 2
  MaxEdits = 1
INVARIANT TypeOK
INVARIANT CountersMatchLedger
INVARIANT WithinLimit
INVARIANT TruthfulCharge
PROPERTY RowsResolveOnce
INVARIANT ActiveIsRunning
SYMMETRY Symmetry
CHECK_DEADLOCK FALSE
