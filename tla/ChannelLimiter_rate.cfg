SPECIFICATION Spec
CONSTANTS
  c1 = c1
  c2 = c2
  c3 = c3
  ch1 = ch1
  ch2 = ch2
  Callers <- TwoCallers
  Channels <- TwoChannels
  Configs <- RateConfigs
  Usages <- RateUsages
  MaxInt64 = 3
  MaxMinute = 2
  MaxUnknown = 0
INVARIANT TypeOK
INVARIANT LiveEntryKept
INVARIANT RateWindowExact
INVARIANT SnapshotAgrees
