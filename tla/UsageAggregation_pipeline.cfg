SPECIFICATION FairSpec
CONSTANTS
  e1 = e1
  e2 = e2
  p1 = p1
  p2 = p2
  Gone = Gone
  NoInstance = NoInstance
  Entries <- TwoEntries
  Orphans = {}
  Capacity = 1
  BatchSize = 2
  Serial = FALSE
  MaxFailures = 1
  Instances <- TwoInstances
  Fetch = 2
  MaxBatches = 2
  RowsPerDay = 2
  Rewinds = {1, 2}
  MaxEvents = 1
CHECK_DEADLOCK FALSE
INVARIANT OneRowPerEntry
INVARIANT CountedOnce
PROPERTY QueueDrained
PROPERTY EventuallyCounted
